------------------------- MODULE SessionPublishRace -------------------------
(***************************************************************************)
(* SessionPublish next to a builder of the same session.                   *)
(*                                                                         *)
(* reindex_session_from_raw recovers an interrupted publish before it      *)
(* builds a stage.  It holds the session's build lease then, not the       *)
(* publication fence; the publishers that need no build (transcript sync,  *)
(* stage promotion, token backfill, raw block compaction) hold the fence   *)
(* and no lease.  So the builder may run the recovery procedure on the     *)
(* journal of a publication that is still in progress.                     *)
(***************************************************************************)
EXTENDS SessionPublish

VARIABLE brec  \* the builder's activation of the recovery procedure

InitRace == Init /\ brec = Inactive

\* The builder reads the journal.
BuilderStart ==
    /\ brec = Inactive
    /\ journal # NoJournal
    /\ brec' = ActivationFor(journal)
    /\ UNCHANGED vars

BuilderRecover ==
    /\ RecoverStep(brec)
    /\ UNCHANGED <<pc, cur, mem, gen, rec, history>>

\* The builder dies, or a rename of its recovery raises.
BuilderCrash ==
    /\ brec # Inactive
    /\ brec' = Inactive
    /\ UNCHANGED vars

NextRace ==
    \/ Next /\ UNCHANGED brec
    \/ BuilderStart
    \/ BuilderRecover
    \/ BuilderCrash

SpecRace == InitRace /\ [][NextRace]_<<vars, brec>>

\* Every publication that passed its commit point has its outbox record: no
\* recovery, the builder's included, takes it away.
EveryCommitHasItsRecord == committed \subseteq outbox
=============================================================================
