------------------------------ MODULE MCPublish ------------------------------
(* SessionPublish on small instances.                                      *)
EXTENDS SessionPublish

AllFiles == 1..N
SomeFiles == 1..(N - 1)
=============================================================================
