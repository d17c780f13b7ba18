---------------------------- MODULE MCPublishRace ----------------------------
(* SessionPublishRace on small instances.                                  *)
EXTENDS SessionPublishRace

AllFiles == 1..N
=============================================================================
