-------------------------- MODULE AtomicPublication --------------------------
(***************************************************************************)
(* What publishing a session's projection promises: a publication replaces *)
(* a set of components and commits one outbox record in a single step, and *)
(* a publication that fails leaves no trace.  A component's content is the *)
(* number of the publication that wrote it, or one of Original.            *)
(*                                                                         *)
(* SessionPublish implements it (PublishesAtomically).                     *)
(***************************************************************************)
EXTENDS Integers

CONSTANTS
    Comp,      \* the session's components
    Attempts,  \* numbers of publication attempts
    Original   \* contents the session may have at the start

VARIABLES
    view,      \* content of each component
    records    \* outbox records, by the attempt that wrote them

Init ==
    /\ view \in [Comp -> Original]
    /\ records = {}

Publish(S, g) ==
    /\ \A h \in records : h < g
    /\ view' = [c \in Comp |-> IF c \in S THEN g ELSE view[c]]
    /\ records' = records \union {g}

Next == \E S \in (SUBSET Comp) \ {{}}, g \in Attempts : Publish(S, g)

Spec == Init /\ [][Next]_<<view, records>>
=============================================================================
