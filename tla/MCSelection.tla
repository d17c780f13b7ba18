------------------------------ MODULE MCSelection ------------------------------
(* OutboxSelection on small instances.                                     *)
EXTENDS OutboxSelection

CONSTANTS s1, s2, s3, graph

ThreeSessions == {s1, s2, s3}
GraphOnly == {graph}
GlobalOnly == {Global}
=============================================================================
