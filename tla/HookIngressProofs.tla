-------------------------- MODULE HookIngressProofs --------------------------
(***************************************************************************)
(* Theorems about HookIngress, for any number of events, signals, faults   *)
(* and any replay limit.                                                   *)
(*                                                                         *)
(* The counts are not inductive by themselves: between the two writes of a *)
(* merge, or of the end of a replay, a signal is counted twice.  The       *)
(* inductive invariant says at each such step which of the two copies is   *)
(* redundant.                                                              *)
(***************************************************************************)
EXTENDS HookIngress, TLAPS

\* The steps at which the worker has an envelope in running/.
ClaimedSteps == ReplaySteps \union {"fail", "fail_unlink", "supersede"}

ReplayOK ==
    /\ pc # "off" <=> maint = "pipeline"
    /\ \A d, e \in Event : running[d] > 0 /\ running[e] > 0 => d = e
    /\ pc \in ClaimedSteps => running[ev] > 0
    /\ pc \in ClaimedSteps \ {"supersede"} => left > 0
    /\ pc \in {"claim", "jobs"} => running = Zero
    /\ pc \in {"handle", "coalesce", "drop_pending", "done", "unlink"}
         => envelope = running[ev]

\* The signals of e that are counted once: at these steps one of the files of
\* the event being worked on repeats what another one counts.
Counted(e) ==
    IF e = ev /\ pc \in {"supersede", "unlink", "fail_unlink"}
    THEN pending[e] + finished[e]
    ELSE IF e = ev /\ pc = "drop_pending"
    THEN running[e] + finished[e]
    ELSE pending[e] + running[e] + finished[e]

CountsOK ==
    /\ \A e \in Event : accepted[e] <= Counted(e)
    /\ faults = 0 =>
         /\ \A e \in Event : accepted[e] = Counted(e)
         /\ pc # "supersede"
         /\ pc \in {"off", "recover"} => running = Zero

IInv == TypeOK /\ ReplayOK /\ CountsOK

\* A signal is queued.
LEMMA EnqueueStep ==
  ASSUME IInv, NEW e \in Event, Enqueue(e)
  PROVE  IInv'
<1> USE DEF Enqueue, queue, locks, worker, Steps, LockedSteps, ReplaySteps
<1>1. TypeOK'
  BY IngressConstants DEF IInv, TypeOK
<1>2. ReplayOK'
  BY DEF IInv, ReplayOK
<1>3. CountsOK'
  BY DEF IInv, TypeOK, CountsOK, Counted
<1> QED
  BY <1>1, <1>2, <1>3 DEF IInv

\* A dispatcher takes launch.lock or exits.
LEMMA DispatchStep ==
  ASSUME IInv, Dispatch
  PROVE  IInv'
<1> USE DEF Dispatch, queue, locks, worker, Steps, LockedSteps, ReplaySteps
<1>1. TypeOK'
  BY IngressConstants DEF IInv, TypeOK
<1>2. ReplayOK'
  BY DEF IInv, ReplayOK
<1>3. CountsOK'
  BY DEF IInv, CountsOK, Counted
<1> QED
  BY <1>1, <1>2, <1>3 DEF IInv

\* The dispatcher's pipeline starts or gives up.
LEMMA DispatchedPipelineStep ==
  ASSUME IInv, DispatchedPipeline
  PROVE  IInv'
<1> USE DEF DispatchedPipeline, queue, locks, worker, Steps, LockedSteps, ReplaySteps
<1>1. TypeOK'
  BY IngressConstants DEF IInv, TypeOK
<1>2. ReplayOK'
  BY DEF IInv, ReplayOK, ClaimedSteps
<1>3. CountsOK'
  BY DEF IInv, ReplayOK, CountsOK, Counted
<1> QED
  BY <1>1, <1>2, <1>3 DEF IInv

\* The scheduled retry starts a pipeline.
LEMMA RetryTimerStep ==
  ASSUME IInv, RetryTimer
  PROVE  IInv'
<1> USE DEF RetryTimer, queue, locks, worker, Steps, LockedSteps, ReplaySteps
<1>1. TypeOK'
  BY IngressConstants DEF IInv, TypeOK
<1>2. ReplayOK'
  BY DEF IInv, ReplayOK, ClaimedSteps
<1>3. CountsOK'
  BY DEF IInv, ReplayOK, CountsOK, Counted
<1> QED
  BY <1>1, <1>2, <1>3 DEF IInv

\* Other maintenance takes or releases the lock.
LEMMA OtherMaintenanceStep ==
  ASSUME IInv, OtherMaintenance
  PROVE  IInv'
<1> USE DEF OtherMaintenance, queue, locks, worker, Steps, LockedSteps, ReplaySteps
<1>1. TypeOK'
  BY IngressConstants DEF IInv, TypeOK
<1>2. ReplayOK'
  BY DEF IInv, ReplayOK
<1>3. CountsOK'
  BY DEF IInv, CountsOK, Counted
<1> QED
  BY <1>1, <1>2, <1>3 DEF IInv

\* An orphan returns to the pending queue.
LEMMA RequeueStep ==
  ASSUME IInv, Requeue
  PROVE  IInv'
<1> USE DEF Requeue, queue, locks, worker, Steps, LockedSteps, ReplaySteps
<1>1. TypeOK'
  BY IngressConstants DEF IInv, TypeOK
<1>2. ReplayOK'
  BY DEF IInv, ReplayOK, ClaimedSteps
<1>3. CountsOK'
  BY DEF IInv, TypeOK, CountsOK, Counted, Zero
<1> QED
  BY <1>1, <1>2, <1>3 DEF IInv

\* An orphan is merged into the pending envelope.
LEMMA MergeOrphanStep ==
  ASSUME IInv, MergeOrphan
  PROVE  IInv'
<1> USE DEF MergeOrphan, queue, locks, worker, Steps, LockedSteps, ReplaySteps
<1>1. TypeOK'
  BY IngressConstants DEF IInv, TypeOK
<1>2. ReplayOK'
  BY DEF IInv, ReplayOK
<1>3. CountsOK'
  BY DEF IInv, TypeOK, CountsOK, Counted, Zero
<1> QED
  BY <1>1, <1>2, <1>3 DEF IInv

\* The merged orphan leaves the queue.
LEMMA SupersedeOrphanStep ==
  ASSUME IInv, SupersedeOrphan
  PROVE  IInv'
<1> USE DEF SupersedeOrphan, queue, locks, worker, Steps, LockedSteps, ReplaySteps
<1>1. TypeOK'
  BY IngressConstants DEF IInv, TypeOK
<1>2. ReplayOK'
  BY DEF IInv, ReplayOK, ClaimedSteps
<1>3. CountsOK'
  BY DEF IInv, TypeOK, CountsOK, Counted
<1> QED
  BY <1>1, <1>2, <1>3 DEF IInv

\* An undecodable orphan is quarantined.
LEMMA QuarantineOrphanStep ==
  ASSUME IInv, QuarantineOrphan
  PROVE  IInv'
<1> USE DEF QuarantineOrphan, queue, locks, worker, Steps, LockedSteps, ReplaySteps
<1>1. TypeOK'
  BY IngressConstants DEF IInv, TypeOK
<1>2. ReplayOK'
  BY DEF IInv, ReplayOK, ClaimedSteps
<1>3. CountsOK'
  <2>1. PICK e \in BadEvents :
          /\ running[e] > 0
          /\ running' = [running EXCEPT ![e] = 0]
          /\ finished' = [finished EXCEPT ![e] = @ + running[e]]
    OBVIOUS
  <2>2. faults # 0
    BY <2>1, IngressConstants DEF IInv, CountsOK, Zero
  <2>3. \A d \in Event : running'[d] + finished'[d] = running[d] + finished[d]
    BY <2>1, IngressConstants DEF IInv, TypeOK
  <2>4. \A d \in Event : accepted[d] <= pending[d] + running[d] + finished[d]
    BY DEF IInv, CountsOK, Counted
  <2>5. \A d \in Event : accepted'[d] <= Counted(d)'
    BY <2>1, <2>3, <2>4 DEF IInv, TypeOK, Counted
  <2> QED
    BY <2>2, <2>5 DEF CountsOK
<1> QED
  BY <1>1, <1>2, <1>3 DEF IInv

\* No orphan is left.
LEMMA RecoveredStep ==
  ASSUME IInv, Recovered
  PROVE  IInv'
<1> USE DEF Recovered, queue, locks, worker, Steps, LockedSteps, ReplaySteps
<1>1. TypeOK'
  BY IngressConstants DEF IInv, TypeOK
<1>2. ReplayOK'
  BY DEF IInv, ReplayOK, ClaimedSteps
<1>3. CountsOK'
  BY DEF IInv, CountsOK, Counted
<1> QED
  BY <1>1, <1>2, <1>3 DEF IInv

\* An envelope is claimed.
LEMMA ClaimStep ==
  ASSUME IInv, Claim
  PROVE  IInv'
<1> USE DEF Claim, queue, locks, worker, Steps, LockedSteps, ReplaySteps
<1>1. TypeOK'
  BY IngressConstants DEF IInv, TypeOK
<1>2. ReplayOK'
  BY DEF IInv, ReplayOK, Zero
<1>3. CountsOK'
  BY DEF IInv, TypeOK, ReplayOK, CountsOK, Counted, Zero
<1> QED
  BY <1>1, <1>2, <1>3 DEF IInv

\* The loop over envelopes ends.
LEMMA LoopEndsStep ==
  ASSUME IInv, LoopEnds
  PROVE  IInv'
<1> USE DEF LoopEnds, queue, locks, worker, Steps, LockedSteps, ReplaySteps
<1>1. TypeOK'
  BY IngressConstants DEF IInv, TypeOK
<1>2. ReplayOK'
  BY DEF IInv, ReplayOK, ClaimedSteps
<1>3. CountsOK'
  BY DEF IInv, CountsOK, Counted
<1> QED
  BY <1>1, <1>2, <1>3 DEF IInv

\* The pipeline ends.
LEMMA JobsDoneStep ==
  ASSUME IInv, JobsDone
  PROVE  IInv'
<1> USE DEF JobsDone, Ends, queue, locks, worker, Steps, LockedSteps, ReplaySteps
<1>1. TypeOK'
  BY IngressConstants DEF IInv, TypeOK
<1>2. ReplayOK'
  BY DEF IInv, ReplayOK, ClaimedSteps
<1>3. CountsOK'
  BY DEF IInv, ReplayOK, CountsOK, Counted
<1> QED
  BY <1>1, <1>2, <1>3 DEF IInv

\* The envelope is decoded or filed as failed.
LEMMA ReadStep ==
  ASSUME IInv, Read
  PROVE  IInv'
<1> USE DEF Read, queue, locks, worker, Steps, LockedSteps, ReplaySteps
<1>1. TypeOK'
  BY IngressConstants DEF IInv, TypeOK, ReplayOK, ClaimedSteps
<1>2. ReplayOK'
  BY DEF IInv, TypeOK, ReplayOK, ClaimedSteps, Zero
<1>3. CountsOK'
  BY DEF IInv, TypeOK, CountsOK, Counted
<1> QED
  BY <1>1, <1>2, <1>3 DEF IInv

\* The handler returns or raises.
LEMMA HandleStep ==
  ASSUME IInv, Handle
  PROVE  IInv'
<1> USE DEF Handle, queue, locks, worker, Steps, LockedSteps, ReplaySteps
<1>1. TypeOK'
  BY IngressConstants DEF IInv, TypeOK
<1>2. ReplayOK'
  BY DEF IInv, ReplayOK, ClaimedSteps
<1>3. CountsOK'
  BY DEF IInv, CountsOK, Counted
<1> QED
  BY <1>1, <1>2, <1>3 DEF IInv

\* Late signals are merged into the claimed envelope.
LEMMA CoalesceStep ==
  ASSUME IInv, Coalesce
  PROVE  IInv'
<1> USE DEF Coalesce, queue, locks, worker, Steps, LockedSteps, ReplaySteps
<1>1. TypeOK'
  BY IngressConstants DEF IInv, TypeOK
<1>2. ReplayOK'
  BY DEF IInv, TypeOK, ReplayOK, ClaimedSteps
<1>3. CountsOK'
  BY DEF IInv, TypeOK, ReplayOK, CountsOK, Counted
<1> QED
  BY <1>1, <1>2, <1>3 DEF IInv

\* The merged pending envelope is unlinked.
LEMMA DropPendingStep ==
  ASSUME IInv, DropPending
  PROVE  IInv'
<1> USE DEF DropPending, queue, locks, worker, Steps, LockedSteps, ReplaySteps
<1>1. TypeOK'
  BY IngressConstants DEF IInv, TypeOK
<1>2. ReplayOK'
  BY DEF IInv, ReplayOK, ClaimedSteps
<1>3. CountsOK'
  BY DEF IInv, TypeOK, CountsOK, Counted
<1> QED
  BY <1>1, <1>2, <1>3 DEF IInv

\* The envelope is filed as done.
LEMMA WriteDoneStep ==
  ASSUME IInv, WriteDone
  PROVE  IInv'
<1> USE DEF WriteDone, queue, locks, worker, Steps, LockedSteps, ReplaySteps
<1>1. TypeOK'
  BY IngressConstants DEF IInv, TypeOK
<1>2. ReplayOK'
  BY DEF IInv, ReplayOK, ClaimedSteps
<1>3. CountsOK'
  BY DEF IInv, TypeOK, ReplayOK, CountsOK, Counted
<1> QED
  BY <1>1, <1>2, <1>3 DEF IInv

\* The claimed envelope is unlinked.
LEMMA UnlinkRunningStep ==
  ASSUME IInv, UnlinkRunning
  PROVE  IInv'
<1> USE DEF UnlinkRunning, queue, locks, worker, Steps, LockedSteps, ReplaySteps
<1>1. TypeOK'
  BY IngressConstants DEF IInv, TypeOK, ReplayOK, ClaimedSteps
<1>2. ReplayOK'
  <2>1. \A e \in Event : e # ev => ~(running[e] > 0)
    BY DEF IInv, TypeOK, ReplayOK, ClaimedSteps
  <2>2. \A e \in Event : running'[e] = 0
    BY <2>1 DEF IInv, TypeOK
  <2>3. running' = Zero
    BY <2>2 DEF IInv, TypeOK, Zero
  <2> QED
    BY <2>2, <2>3 DEF IInv, ReplayOK, ClaimedSteps
<1>3. CountsOK'
  BY DEF IInv, TypeOK, CountsOK, Counted
<1> QED
  BY <1>1, <1>2, <1>3 DEF IInv

\* The envelope is filed as failed.
LEMMA WriteFailedStep ==
  ASSUME IInv, WriteFailed
  PROVE  IInv'
<1> USE DEF WriteFailed, queue, locks, worker, Steps, LockedSteps, ReplaySteps
<1>1. TypeOK'
  BY IngressConstants DEF IInv, TypeOK
<1>2. ReplayOK'
  BY DEF IInv, ReplayOK, ClaimedSteps
<1>3. CountsOK'
  BY DEF IInv, TypeOK, CountsOK, Counted
<1> QED
  BY <1>1, <1>2, <1>3 DEF IInv

\* The failed envelope is unlinked.
LEMMA UnlinkFailedStep ==
  ASSUME IInv, UnlinkFailed
  PROVE  IInv'
<1> USE DEF UnlinkFailed, queue, locks, worker, Steps, LockedSteps, ReplaySteps
<1>1. TypeOK'
  BY IngressConstants DEF IInv, TypeOK, ReplayOK, ClaimedSteps
<1>2. ReplayOK'
  <2>1. \A e \in Event : e # ev => ~(running[e] > 0)
    BY DEF IInv, TypeOK, ReplayOK, ClaimedSteps
  <2>2. \A e \in Event : running'[e] = 0
    BY <2>1 DEF IInv, TypeOK
  <2>3. running' = Zero
    BY <2>2 DEF IInv, TypeOK, Zero
  <2> QED
    BY <2>2, <2>3 DEF IInv, ReplayOK, ClaimedSteps
<1>3. CountsOK'
  BY DEF IInv, TypeOK, CountsOK, Counted
<1> QED
  BY <1>1, <1>2, <1>3 DEF IInv

\* A file operation raises.
LEMMA FileFaultStep ==
  ASSUME IInv, FileFault
  PROVE  IInv'
<1> USE DEF FileFault, queue, locks, worker, Steps, LockedSteps, ReplaySteps
<1>1. TypeOK'
  BY IngressConstants DEF IInv, TypeOK
<1>2. ReplayOK'
  BY DEF IInv, ReplayOK, ClaimedSteps
<1>3. CountsOK'
  BY DEF IInv, TypeOK, CountsOK, Counted
<1> QED
  BY <1>1, <1>2, <1>3 DEF IInv

\* The pipeline's process dies.
LEMMA CrashStep ==
  ASSUME IInv, Crash
  PROVE  IInv'
<1> USE DEF Crash, Ends, queue, locks, worker, Steps, LockedSteps, ReplaySteps
<1>1. TypeOK'
  BY IngressConstants DEF IInv, TypeOK
<1>2. ReplayOK'
  BY DEF IInv, ReplayOK, ClaimedSteps
<1>3. CountsOK'
  BY DEF IInv, TypeOK, CountsOK, Counted
<1> QED
  BY <1>1, <1>2, <1>3 DEF IInv

\* The initial states satisfy the invariant.
LEMMA InitIInv == Init => IInv
<1> SUFFICES ASSUME Init PROVE IInv
  OBVIOUS
<1>1. TypeOK
  BY IngressConstants DEF Init, TypeOK, Steps, Zero, Event
<1>2. ReplayOK
  BY DEF Init, ReplayOK, ClaimedSteps, ReplaySteps, Zero
<1>3. CountsOK
  BY DEF Init, CountsOK, Counted, Zero
<1> QED
  BY <1>1, <1>2, <1>3 DEF IInv

\* Every step of the pipeline preserves the invariant.
LEMMA PipelineStep ==
  ASSUME IInv, Pipeline
  PROVE  IInv'
<1>1. CASE Requeue
  BY <1>1, RequeueStep
<1>2. CASE MergeOrphan
  BY <1>2, MergeOrphanStep
<1>3. CASE SupersedeOrphan
  BY <1>3, SupersedeOrphanStep
<1>4. CASE QuarantineOrphan
  BY <1>4, QuarantineOrphanStep
<1>5. CASE Recovered
  BY <1>5, RecoveredStep
<1>6. CASE Claim
  BY <1>6, ClaimStep
<1>7. CASE LoopEnds
  BY <1>7, LoopEndsStep
<1>8. CASE JobsDone
  BY <1>8, JobsDoneStep
<1>9. CASE Read
  BY <1>9, ReadStep
<1>10. CASE Handle
  BY <1>10, HandleStep
<1>11. CASE Coalesce
  BY <1>11, CoalesceStep
<1>12. CASE DropPending
  BY <1>12, DropPendingStep
<1>13. CASE WriteDone
  BY <1>13, WriteDoneStep
<1>14. CASE UnlinkRunning
  BY <1>14, UnlinkRunningStep
<1>15. CASE WriteFailed
  BY <1>15, WriteFailedStep
<1>16. CASE UnlinkFailed
  BY <1>16, UnlinkFailedStep
<1> QED
  BY <1>1, <1>2, <1>3, <1>4, <1>5, <1>6, <1>7, <1>8, <1>9, <1>10, <1>11,
     <1>12, <1>13, <1>14, <1>15, <1>16 DEF Pipeline

\* A stuttering step changes nothing the invariant reads.
LEMMA StutterStep ==
  ASSUME IInv, UNCHANGED vars
  PROVE  IInv'
BY DEF IInv, TypeOK, ReplayOK, CountsOK, Counted, vars, queue, locks, worker

\* Every step preserves the invariant.
LEMMA NextStep ==
  ASSUME IInv, [Next]_vars
  PROVE  IInv'
<1>1. ASSUME NEW e \in Event, Enqueue(e) PROVE IInv'
  BY <1>1, EnqueueStep
<1>2. CASE Dispatch
  BY <1>2, DispatchStep
<1>3. CASE DispatchedPipeline
  BY <1>3, DispatchedPipelineStep
<1>4. CASE RetryTimer
  BY <1>4, RetryTimerStep
<1>5. CASE OtherMaintenance
  BY <1>5, OtherMaintenanceStep
<1>6. CASE Pipeline
  BY <1>6, PipelineStep
<1>7. CASE FileFault
  BY <1>7, FileFaultStep
<1>8. CASE Crash
  BY <1>8, CrashStep
<1>9. CASE UNCHANGED vars
  BY <1>9, StutterStep
<1> QED
  BY <1>1, <1>2, <1>3, <1>4, <1>5, <1>6, <1>7, <1>8, <1>9 DEF Next

\* IInv holds in every reachable state.
THEOREM Invariant == Spec => []IInv
<1>1. Init => IInv
  BY InitIInv
<1>2. IInv /\ [Next]_vars => IInv'
  BY NextStep
<1> QED
  BY <1>1, <1>2, PTL DEF Spec

\* Every variable of the hook ingress stays within its type, and a worker
\* replays no more envelopes than its limit.
THEOREM TypeCorrect == Spec => []TypeOK
<1>1. IInv => TypeOK
  BY DEF IInv
<1> QED
  BY <1>1, Invariant, PTL

\* An acknowledged signal is never dropped, whatever crashes and fails between
\* the two writes of a merge, of a replay's end or of a failure's record.
THEOREM SignalsSurvive == Spec => []NoSignalLost
<1>1. IInv => NoSignalLost
  BY DEF IInv, TypeOK, CountsOK, Counted, NoSignalLost
<1> QED
  BY <1>1, Invariant, PTL

\* As long as nothing crashes and no file operation fails, every signal is
\* counted once.
THEOREM SignalsCountOnce == Spec => []CountedOnce
<1>1. IInv => CountedOnce
  BY DEF IInv, CountsOK, Counted, CountedOnce
<1> QED
  BY <1>1, Invariant, PTL

\* Envelopes are replayed one at a time, under the maintenance lock.
THEOREM ReplayIsExclusive == Spec => []OneReplayAtATime
<1>1. IInv => OneReplayAtATime
  BY DEF IInv, ReplayOK, ClaimedSteps, OneReplayAtATime
<1> QED
  BY <1>1, Invariant, PTL
=============================================================================
