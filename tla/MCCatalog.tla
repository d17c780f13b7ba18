------------------------------ MODULE MCCatalog ------------------------------
(* SessionPublish, read by the goal catalog, on small instances.           *)
EXTENDS GoalCatalog

AllFiles == 1..N
SomeFiles == 1..(N - 1)

\* All attempts are made for one capture, newer than what is published.
Retried == [g \in 0..MaxGen |-> IF g = 0 THEN 0 ELSE 1]

\* Each attempt is made for a capture of its own.
Distinct == [g \in 0..MaxGen |-> g]
=============================================================================
