----------------------------- MODULE HookIngress -----------------------------
(***************************************************************************)
(* The durable hook ingress: a small adapter persists every hook signal in *)
(* a pending queue, and one pipeline process replays the queue through the *)
(* owner's handler.                                                        *)
(*                                                                         *)
(* Source: scripts/aoa_session_hook.py (enqueue, dispatch) and             *)
(* scripts/aoa_session_memory.py (recover_orphaned_hook_ingress,           *)
(* coalesce_pending_hook_ingress_after_replay, run_hook_ingress_worker,    *)
(* run_hook_pipeline_with_maintenance_lock, command_auto_maintenance_retry)*)
(*                                                                         *)
(* An event stands for its kind and exact bytes, which name its envelope   *)
(* file; an envelope is reduced to its signal_count, 0 meaning no file.    *)
(* Events are numbered in the order of their file names.  enqueue.lock     *)
(* makes an enqueue one step; the worker's critical sections stay several  *)
(* steps, because a crash may fall between two of their writes.            *)
(***************************************************************************)
EXTENDS Integers

CONSTANTS
    NEvents,     \* number of distinct events
    BadEvents,   \* events whose bytes the worker cannot decode
    UrgentEvents,\* lifecycle events, which wake a dispatcher
    Limit,       \* envelopes one worker replays at most (20 in the code)
    MaxSignals,  \* bound on the signals accepted
    MaxFaults    \* bound on crashes and failing file operations

Event == 1..NEvents

ASSUME IngressConstants ==
    /\ NEvents \in Nat \ {0}
    /\ BadEvents \subseteq Event
    /\ UrgentEvents \subseteq Event
    /\ Limit \in Nat
    /\ MaxSignals \in Nat
    /\ MaxFaults \in Nat

VARIABLES
    pending,   \* signal_count of pending/<event>, 0 without the file
    running,   \* signal_count of running/<event>, 0 without the file
    launch,    \* who has launch.lock: no one, a dispatcher, its pipeline
    woken,     \* dispatchers that were started and have not run yet
    maint,     \* who has the maintenance lock: no one, others, the pipeline
    pc,        \* the pipeline's next step
    ev,        \* the event it works on
    envelope,  \* signal_count in its memory
    left,      \* envelopes it may still replay
    accepted,  \* history: signals acknowledged as queued, per event
    finished,  \* history: signals counted by done and failed envelopes
    faults     \* history: crashes and failing file operations

queue == <<pending, running>>
locks == <<launch, woken, maint>>
worker == <<pc, ev, envelope, left>>
vars == <<queue, locks, worker, accepted, finished, faults>>

\* The worker's steps, those it makes holding enqueue.lock first.
LockedSteps == {"recover", "supersede", "drop_pending", "done", "unlink"}
ReplaySteps == {"read", "handle", "coalesce", "drop_pending", "done", "unlink"}
Steps == LockedSteps \union ReplaySteps
           \union {"off", "claim", "fail", "fail_unlink", "jobs"}

Zero == [e \in Event |-> 0]

Init ==
    /\ pending = Zero
    /\ running = Zero
    /\ launch = "free"
    /\ woken = 0
    /\ maint = "free"
    /\ pc = "off"
    /\ ev = 1
    /\ envelope = 0
    /\ left = 0
    /\ accepted = Zero
    /\ finished = Zero
    /\ faults = 0

-----------------------------------------------------------------------------
(* The hook processes.                                                     *)

\* A signal is queued under enqueue.lock: a new envelope or one more on the
\* count of the pending one.  Only a lifecycle event starts a dispatcher.
Enqueue(e) ==
    /\ pc \notin LockedSteps
    /\ accepted[e] < MaxSignals
    /\ pending' = [pending EXCEPT ![e] = @ + 1]
    /\ accepted' = [accepted EXCEPT ![e] = @ + 1]
    /\ woken' = IF e \in UrgentEvents THEN woken + 1 ELSE woken
    /\ UNCHANGED <<running, launch, maint, worker, finished, faults>>

\* A dispatcher that finds launch.lock taken exits; the lock is held until the
\* pipeline it becomes has ended.
Dispatch ==
    /\ woken > 0
    /\ woken' = woken - 1
    /\ launch' = IF launch = "free" THEN "dispatcher" ELSE launch
    /\ UNCHANGED <<queue, maint, worker, accepted, finished, faults>>

-----------------------------------------------------------------------------
(* The pipeline: under the maintenance lock, first the ingress worker, then *)
(* the hook job worker.                                                    *)

\* The dispatcher's pipeline does not wait for the maintenance lock.
DispatchedPipeline ==
    /\ launch = "dispatcher"
    /\ IF maint = "free"
       THEN /\ launch' = "pipeline"
            /\ maint' = "pipeline"
            /\ pc' = "recover"
            /\ left' = Limit
       ELSE /\ launch' = "free"
            /\ UNCHANGED <<maint, pc, left>>
    /\ UNCHANGED <<queue, woken, ev, envelope, accepted, finished, faults>>

\* Mutant: only pending envelopes make the retry run a pipeline.
RetryTimerForPending ==
    /\ \E e \in Event : pending[e] > 0
    /\ maint = "free"
    /\ maint' = "pipeline"
    /\ pc' = "recover"
    /\ left' = Limit
    /\ UNCHANGED <<queue, launch, woken, ev, envelope, accepted, finished, faults>>

\* The scheduled retry runs a pipeline when any envelope is left.
RetryTimer ==
    /\ \E e \in Event : pending[e] + running[e] > 0
    /\ maint = "free"
    /\ maint' = "pipeline"
    /\ pc' = "recover"
    /\ left' = Limit
    /\ UNCHANGED <<queue, launch, woken, ev, envelope, accepted, finished, faults>>

\* Other maintenance takes and releases the lock.
OtherMaintenance ==
    /\ maint \in {"free", "other"}
    /\ maint' = IF maint = "free" THEN "other" ELSE "free"
    /\ UNCHANGED <<queue, launch, woken, worker, accepted, finished, faults>>

\* Mutant: launch.lock outlives the pipeline.
EndsKeepingLaunch ==
    /\ pc' = "off"
    /\ maint' = "free"
    /\ launch' = launch

\* The locks are freed when the pipeline's process ends.
Ends ==
    /\ pc' = "off"
    /\ maint' = "free"
    /\ launch' = IF launch = "pipeline" THEN "free" ELSE launch

-----------------------------------------------------------------------------
(* recover_orphaned_hook_ingress: one turn of its loop, enqueue.lock held. *)

Requeue ==
    /\ pc = "recover"
    /\ \E e \in Event :
         /\ running[e] > 0
         /\ pending[e] = 0
         /\ pending' = [pending EXCEPT ![e] = running[e]]
         /\ running' = [running EXCEPT ![e] = 0]
    /\ UNCHANGED <<locks, worker, accepted, finished, faults>>

\* A signal arrived after the crash: the counts are merged into the pending
\* envelope, then the orphan is moved to superseded/.
MergeOrphan ==
    /\ pc = "recover"
    /\ \E e \in Event \ BadEvents :
         /\ running[e] > 0
         /\ pending[e] > 0
         /\ pending' = [pending EXCEPT ![e] = @ + running[e]]
         /\ ev' = e
    /\ pc' = "supersede"
    /\ UNCHANGED <<running, locks, envelope, left, accepted, finished, faults>>

SupersedeOrphan ==
    /\ pc = "supersede"
    /\ running' = [running EXCEPT ![ev] = 0]
    /\ pc' = "recover"
    /\ UNCHANGED <<pending, locks, ev, envelope, left, accepted, finished, faults>>

\* An undecodable orphan next to a pending envelope is quarantined in failed/.
QuarantineOrphan ==
    /\ pc = "recover"
    /\ \E e \in BadEvents :
         /\ running[e] > 0
         /\ pending[e] > 0
         /\ running' = [running EXCEPT ![e] = 0]
         /\ finished' = [finished EXCEPT ![e] = @ + running[e]]
    /\ UNCHANGED <<pending, locks, worker, accepted, faults>>

\* Mutant: an orphan next to a pending envelope is left where it is.
RecoveredButMerges ==
    /\ pc = "recover"
    /\ \A e \in Event : running[e] > 0 => pending[e] > 0
    /\ pc' = "claim"
    /\ UNCHANGED <<queue, locks, ev, envelope, left, accepted, finished, faults>>

Recovered ==
    /\ pc = "recover"
    /\ running = Zero
    /\ pc' = "claim"
    /\ UNCHANGED <<queue, locks, ev, envelope, left, accepted, finished, faults>>

-----------------------------------------------------------------------------
(* run_hook_ingress_worker: the loop over pending envelopes.               *)

\* Mutant: one envelope more than the limit is claimed.
ClaimPastLimit ==
    /\ pc = "claim"
    /\ left >= 0
    /\ \E e \in Event :
         /\ pending[e] > 0
         /\ \A d \in Event : pending[d] > 0 => e <= d
         /\ running' = [running EXCEPT ![e] = pending[e]]
         /\ pending' = [pending EXCEPT ![e] = 0]
         /\ ev' = e
    /\ pc' = "read"
    /\ UNCHANGED <<locks, envelope, left, accepted, finished, faults>>

\* The first pending envelope, in the order of file names, is claimed.
Claim ==
    /\ pc = "claim"
    /\ left > 0
    /\ \E e \in Event :
         /\ pending[e] > 0
         /\ \A d \in Event : pending[d] > 0 => e <= d
         /\ running' = [running EXCEPT ![e] = pending[e]]
         /\ pending' = [pending EXCEPT ![e] = 0]
         /\ ev' = e
    /\ pc' = "read"
    /\ UNCHANGED <<locks, envelope, left, accepted, finished, faults>>

\* No envelope, or none of the limit, is left: the hook job worker runs.
LoopEnds ==
    /\ pc = "claim"
    /\ left = 0 \/ pending = Zero
    /\ pc' = "jobs"
    /\ UNCHANGED <<queue, locks, ev, envelope, left, accepted, finished, faults>>

JobsDone ==
    /\ pc = "jobs"
    /\ Ends
    /\ UNCHANGED <<queue, woken, ev, envelope, left, accepted, finished, faults>>

\* The envelope is decoded; one that cannot be is moved to failed/ as it is.
Read ==
    /\ pc = "read"
    /\ IF ev \in BadEvents
       THEN /\ running' = [running EXCEPT ![ev] = 0]
            /\ finished' = [finished EXCEPT ![ev] = @ + running[ev]]
            /\ pc' = "claim"
            /\ left' = left - 1
            /\ UNCHANGED envelope
       ELSE /\ envelope' = running[ev]
            /\ pc' = "handle"
            /\ UNCHANGED <<running, finished, left>>
    /\ UNCHANGED <<pending, locks, ev, accepted, faults>>

\* The owner's handler runs without enqueue.lock, and may raise.
Handle ==
    /\ pc = "handle"
    /\ pc' \in {"coalesce", "fail"}
    /\ UNCHANGED <<queue, locks, ev, envelope, left, accepted, finished, faults>>

\* Mutant: the late pending envelope replaces the running one.
CoalesceReplacing ==
    /\ pc = "coalesce"
    /\ IF pending[ev] > 0
       THEN /\ envelope' = pending[ev]
            /\ running' = [running EXCEPT ![ev] = envelope']
            /\ pc' = "drop_pending"
       ELSE /\ pc' = "done"
            /\ UNCHANGED <<running, envelope>>
    /\ UNCHANGED <<pending, locks, ev, left, accepted, finished, faults>>

\* Mutant: the late pending envelope is merged and stays queued.
CoalesceKeeping ==
    /\ pc = "coalesce"
    /\ envelope' = envelope + pending[ev]
    /\ running' = [running EXCEPT ![ev] = envelope']
    /\ pc' = "done"
    /\ UNCHANGED <<pending, locks, ev, left, accepted, finished, faults>>

\* Signals that arrived during the replay are merged into the running
\* envelope, then the pending one is unlinked.
Coalesce ==
    /\ pc = "coalesce"
    /\ IF pending[ev] > 0
       THEN /\ envelope' = envelope + pending[ev]
            /\ running' = [running EXCEPT ![ev] = envelope']
            /\ pc' = "drop_pending"
       ELSE /\ pc' = "done"
            /\ UNCHANGED <<running, envelope>>
    /\ UNCHANGED <<pending, locks, ev, left, accepted, finished, faults>>

DropPending ==
    /\ pc = "drop_pending"
    /\ pending' = [pending EXCEPT ![ev] = 0]
    /\ pc' = "done"
    /\ UNCHANGED <<running, locks, ev, envelope, left, accepted, finished, faults>>

WriteDone ==
    /\ pc = "done"
    /\ finished' = [finished EXCEPT ![ev] = @ + envelope]
    /\ pc' = "unlink"
    /\ UNCHANGED <<queue, locks, ev, envelope, left, accepted, faults>>

UnlinkRunning ==
    /\ pc = "unlink"
    /\ running' = [running EXCEPT ![ev] = 0]
    /\ pc' = "claim"
    /\ left' = left - 1
    /\ UNCHANGED <<pending, locks, ev, envelope, accepted, finished, faults>>

\* The exception handler: the running envelope, as it is on disk, is written to
\* failed/ and unlinked.
WriteFailed ==
    /\ pc = "fail"
    /\ finished' = [finished EXCEPT ![ev] = @ + running[ev]]
    /\ pc' = "fail_unlink"
    /\ UNCHANGED <<queue, locks, ev, envelope, left, accepted, faults>>

UnlinkFailed ==
    /\ pc = "fail_unlink"
    /\ running' = [running EXCEPT ![ev] = 0]
    /\ pc' = "claim"
    /\ left' = left - 1
    /\ UNCHANGED <<pending, locks, ev, envelope, accepted, finished, faults>>

\* A file operation of the replay raises before its effect.
FileFault ==
    /\ pc \in {"coalesce", "drop_pending", "done", "unlink"}
    /\ faults < MaxFaults
    /\ faults' = faults + 1
    /\ pc' = "fail"
    /\ UNCHANGED <<queue, locks, ev, envelope, left, accepted, finished>>

\* The pipeline's process dies, or raises where nothing catches it.
Crash ==
    /\ pc # "off"
    /\ faults < MaxFaults
    /\ faults' = faults + 1
    /\ Ends
    /\ UNCHANGED <<queue, woken, ev, envelope, left, accepted, finished>>

Pipeline ==
    \/ Requeue \/ MergeOrphan \/ SupersedeOrphan \/ QuarantineOrphan \/ Recovered
    \/ Claim \/ LoopEnds \/ JobsDone
    \/ Read \/ Handle \/ Coalesce \/ DropPending \/ WriteDone \/ UnlinkRunning
    \/ WriteFailed \/ UnlinkFailed

Next ==
    \/ \E e \in Event : Enqueue(e)
    \/ Dispatch
    \/ DispatchedPipeline
    \/ RetryTimer
    \/ OtherMaintenance
    \/ Pipeline
    \/ FileFault
    \/ Crash

Spec == Init /\ [][Next]_vars

(* A live pipeline keeps running, other maintenance releases its lock, and *)
(* the timer, however often it finds the lock held, does not always.       *)
Fairness ==
    /\ WF_vars(Pipeline)
    /\ WF_vars(DispatchedPipeline)
    /\ WF_vars(OtherMaintenance /\ maint = "other")
    /\ SF_vars(RetryTimer)

FairSpec == Spec /\ Fairness

-----------------------------------------------------------------------------
(* Properties.                                                             *)

\* Every variable of the hook ingress stays within its type; in particular one
\* worker replays no more than Limit envelopes.
TypeOK ==
    /\ pending \in [Event -> Nat]
    /\ running \in [Event -> Nat]
    /\ launch \in {"free", "dispatcher", "pipeline"}
    /\ woken \in Nat
    /\ maint \in {"free", "other", "pipeline"}
    /\ pc \in Steps
    /\ ev \in Event
    /\ envelope \in Nat
    /\ left \in 0..Limit
    /\ accepted \in [Event -> 0..MaxSignals]
    /\ finished \in [Event -> Nat]
    /\ faults \in 0..MaxFaults

\* No signal that was acknowledged is ever dropped: it is counted by an
\* envelope still queued or by one that was replayed or failed visibly,
\* through crashes, file faults, merges and signals that arrive in between.
NoSignalLost ==
    \A e \in Event : accepted[e] <= pending[e] + running[e] + finished[e]

\* Without a fault every signal is counted exactly once; only a crash or a
\* failing file operation between two writes of a merge can count it twice.
CountedOnce ==
    faults = 0 /\ pc \notin {"supersede", "drop_pending", "unlink", "fail_unlink"}
      => \A e \in Event : accepted[e] = pending[e] + running[e] + finished[e]

\* A worker is active only under the maintenance lock; at most one envelope is
\* claimed, so a crash leaves at most one orphan, and the claimed envelope is
\* still on disk at every step of its replay.
OneReplayAtATime ==
    /\ pc # "off" <=> maint = "pipeline"
    /\ \A d, e \in Event : running[d] > 0 /\ running[e] > 0 => d = e
    /\ pc \in ReplaySteps \ {"read"} => running[ev] > 0

\* Every envelope, an orphan of a crash included, leaves the queue, although a
\* dispatcher that lost a lock leaves it to the scheduled retry.
QueueDrains ==
    \A e \in Event : pending[e] + running[e] > 0 ~> pending[e] + running[e] = 0

\* launch.lock does not stay taken: a lifecycle event can always come to start
\* a pipeline again.
LaunchLockFreed == launch # "free" ~> launch = "free"
=============================================================================
