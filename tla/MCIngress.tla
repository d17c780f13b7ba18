------------------------------ MODULE MCIngress ------------------------------
(* HookIngress on small instances.                                         *)
EXTENDS HookIngress

LastBad == {NEvents}
FirstUrgent == {1}
=============================================================================
