------------------------------ MODULE MCLiveTail ------------------------------
(* LiveTail on small instances.                                            *)
EXTENDS LiveTail

\* The beginning of a line, and a line.
SomeTexts == {[n |-> 1, ends |-> {}], [n |-> 1, ends |-> {1}]}

\* Two more: a line and the beginning of the next, a longer line.
MoreTexts == SomeTexts \union {[n |-> 2, ends |-> {1}], [n |-> 2, ends |-> {2}]}

\* Pieces of each epoch.
OneEpoch == <<3>>
LongThenShort == <<3, 2>>
ShortThenLong == <<2, 3>>
=============================================================================
