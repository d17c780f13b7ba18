---------------------------- MODULE MCReconcile ----------------------------
(* OutboxReconcile on small instances.                                     *)
EXTENDS OutboxReconcile, TLC

CONSTANTS p1, p2, search, entity

TwoProcs == {p1, p2}
OneProc == {p1}

\* exact_and_lexical_search, and entity_registry after it.
OneConsumer == {search}
TwoConsumers == {search, entity}

OneDependency == [c \in OneConsumer |-> {}]
TwoDependency == [c \in TwoConsumers |-> IF c = entity THEN {search} ELSE {}]

Symmetry == Permutations(TwoProcs)
=============================================================================
