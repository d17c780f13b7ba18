------------------------- MODULE OutboxReconcileProofs -------------------------
(***************************************************************************)
(* Theorems about OutboxReconcile, for any processes, consumers and        *)
(* dependencies, any number of attempts, publications, progress writes and *)
(* crashes, with and without the retirement sweep.                         *)
(*                                                                         *)
(* The reconcile lock makes the call that passed its recheck the only one  *)
(* that completes a consumer, so that what it knows of its operation holds *)
(* until it returns (CallOK).  Progress writers take no lock: they may     *)
(* undo a completion and set an attempt counter back; the counters stay    *)
(* bounded because each of them does so once (StoreOK, Counted).           *)
(* What holds only while nobody but the reconcile route writes is proved   *)
(* on that assumption (Alone), from an invariant of its own.               *)
(***************************************************************************)
EXTENDS OutboxReconcile, FiniteSetTheorems, TLAPS

AnyState ==
    [status : {"missing", "progress", "failed_retryable", "complete"},
     attempts : Nat, receipt : 0..MaxAttempts]

ReceiptsOf == [Consumers -> 0..MaxAttempts]

Tasks ==
    [at : TaskSteps \ {"idle"}, completes : BOOLEAN, r : Records, c : Consumers,
     a : 1..MaxAttempts, seen : AnyState, prior : AnyState, by : ReceiptsOf]

ProgressTasks == [at : {"write"}, r : Records, c : Consumers, seen : AnyState]

SweepTasks == [at : {"exists", "write"}, r : Records, by : ReceiptsOf]

TypesOK ==
    /\ pub \in Records
    /\ state \in [Records -> [Consumers -> AnyState]]
    /\ receipts \subseteq Operations
    /\ journals \subseteq Operations
    /\ retired \in [Records -> Retirements \union {NotRetired}]
    /\ lock \in Procs \union {NoOne}
    /\ fence \in Procs \union {NoOne}
    /\ task \in [Procs -> Tasks \union {Idle}]
    /\ progress \in ProgressTasks \union {Idle}
    /\ sweep \in SweepTasks \union {Idle}
    /\ runs \in [Records -> [Consumers -> Nat]]
    /\ written \in 0..MaxProgress
    /\ progress # Idle => written > 0
    /\ crashes \in 0..MaxCrashes

\* Between the recheck under the lock and the write of the consumer's state.
Working == {"handle", "fail", "fail_write", "journal", "fence", "read", "write"}

Fenced == {"read", "write", "verify", "recheck", "retire"}

Works(p) == task[p].at \in Working /\ task[p].completes

\* The prior state is at hand.
HasPrior(p) ==
    task[p].at \in {"read", "write", "verify", "recheck"} /\ task[p].completes

\* Progress writes that have been made.
Done == IF progress = Idle THEN written ELSE written - 1

\* What an attempt counter may have reached before and after an attempt.
Low == MaxAttempts - 1 + Done
High == MaxAttempts + Done

Pending(r, c) == progress # Idle /\ progress.r = r /\ progress.c = c

StoreOK ==
    /\ CompletionIsBacked
    /\ journals \subseteq receipts
    /\ progress # Idle => progress.seen.status # "complete"
    /\ \A r \in Records, c \in Consumers :
        /\ state[r][c].attempts <= High
        /\ Pending(r, c) => \/ progress.seen.attempts <= Low
                            \/ progress.seen.attempts <= state[r][c].attempts

\* A call past the lock is the only one, past the fence it is for the current
\* publication.
Held(p) ==
    /\ task[p].at \notin {"idle", "admit"} => lock = p
    /\ task[p].at \in Fenced => fence = p /\ task[p].r = pub
    /\ task[p].at \in {"locked", "verify"} \union (Working \ {"fence"}) =>
         task[p].completes

\* The call has its operation to itself.
Owned(p) ==
    LET t == task[p]
    IN  /\ Works(p) => ~Complete(t.r, t.c)
        /\ t.at \in {"handle", "fail", "fail_write"} => Operation(t) \notin receipts
        /\ t.at = "journal" => Operation(t) \in receipts
        /\ (t.at = "fence" /\ t.completes) \/ HasPrior(p) =>
             Operation(t) \in receipts \intersect journals
        /\ HasPrior(p) => t.prior.status # "complete"
        /\ t.at \in {"fail_write", "write"} => t.seen.status # "complete"

\* What it has read, or will, leaves room for its attempt.
Counted(p) ==
    LET t == task[p]
    IN  /\ Works(p) \/ HasPrior(p) =>
            /\ Complete(t.r, t.c) \/ state[t.r][t.c].attempts <= Low
            /\ Pending(t.r, t.c) => progress.seen.attempts <= Low
        /\ t.at \in {"fail_write", "write"} => t.seen.attempts <= Low
        /\ HasPrior(p) => t.prior.attempts <= Low

CallOK(p) == Held(p) /\ Owned(p) /\ Counted(p)

IInv == TypesOK /\ StoreOK /\ \A p \in Procs : CallOK(p)

-----------------------------------------------------------------------------
(* Without progress writers.                                               *)

NoProgress == MaxProgress = 0

\* The receipt of a consumer is the one of the attempt it was completed by, or
\* of the attempt that comes next.
OneReceipt ==
    \A r \in Records, c \in Consumers, a \in 1..MaxAttempts :
        <<r, c, a>> \in receipts =>
            a = IF Complete(r, c) THEN state[r][c].receipt
                ELSE state[r][c].attempts + 1

\* A call that works on its consumer is at the attempt that comes next.
OwnAttempt(p) ==
    LET t == task[p]
    IN  /\ Works(p) => state[t.r][t.c].attempts + 1 = t.a
        /\ t.at \in {"fail_write", "write"} => t.seen.attempts + 1 = t.a
        /\ HasPrior(p) => t.prior.attempts + 1 = t.a

OneRunInv == OneReceipt /\ \A p \in Procs : OwnAttempt(p)

-----------------------------------------------------------------------------
(* With nobody else who writes.                                            *)

Alone == NoProgress /\ ~Sweeping

DependenciesComplete(r, c) == \A d \in Dependency[c] : Complete(r, d)

\* The call has found its predecessors complete, its completion in place, and all
\* consumers complete when it retires.
CallFinal(p) ==
    LET t == task[p]
    IN  /\ t.at # "idle" /\ t.completes => DependenciesComplete(t.r, t.c)
        /\ t.at = "verify" => Complete(t.r, t.c)
        /\ t.at = "retire" => AllComplete(t.r) /\ t.by = Receipts(t.r)

FinalInv ==
    /\ sweep = Idle
    /\ \A r \in Records :
         /\ \A c \in Consumers : Complete(r, c) => DependenciesComplete(r, c)
         /\ retired[r] # NotRetired =>
              AllComplete(r) /\ retired[r] = [form |-> "targeted", by |-> Receipts(r)]
    /\ \A p \in Procs : CallFinal(p)

-----------------------------------------------------------------------------
(* Calls.                                                                  *)

LEMMA ConstantsStay ==
  /\ Records' = Records /\ Operations' = Operations /\ Retirements' = Retirements
  /\ AnyState' = AnyState /\ ReceiptsOf' = ReceiptsOf /\ Tasks' = Tasks
  /\ ProgressTasks' = ProgressTasks /\ SweepTasks' = SweepTasks
  /\ Idle' = Idle /\ NotRetired' = NotRetired /\ NoOne' = NoOne
  /\ Working' = Working /\ Fenced' = Fenced
BY DEF Records, Operations, Retirements, AnyState, ReceiptsOf, Tasks, ProgressTasks,
   SweepTasks, Idle, NotRetired, NoOne, TaskSteps, Working, Fenced

\* A call that is under way has all its fields.
LEMMA TaskFacts ==
  ASSUME TypesOK, NEW p \in Procs, task[p].at # "idle"
  PROVE  /\ task[p] \in Tasks
         /\ task[p].at \in TaskSteps \ {"idle"} /\ task[p].completes \in BOOLEAN
         /\ task[p].r \in Records /\ task[p].c \in Consumers
         /\ task[p].a \in 1..MaxAttempts
         /\ task[p].seen \in AnyState /\ task[p].prior \in AnyState
         /\ task[p].by \in ReceiptsOf
         /\ Operation(task[p]) \in Operations
<1>1. task[p] \in Tasks
  BY DEF TypesOK, Idle
<1> QED
  BY <1>1 DEF Tasks, Operation, Operations

\* The state of a consumer.
LEMMA StateFacts ==
  ASSUME TypesOK, NEW r \in Records, NEW c \in Consumers
  PROVE  /\ state[r] \in [Consumers -> AnyState] /\ state[r][c] \in AnyState
         /\ state[r][c].attempts \in Nat /\ state[r][c].receipt \in 0..MaxAttempts
         /\ Receipts(r) \in ReceiptsOf
         /\ \A d \in Consumers : Receipts(r)[d] = state[r][d].receipt
BY DEF TypesOK, AnyState, Receipts, ReceiptsOf

\* The task of p becomes x.
LEMMA TaskBecomes ==
  ASSUME TypesOK, NEW p \in Procs, NEW x \in Tasks \union {Idle},
         task' = [task EXCEPT ![p] = x]
  PROVE  /\ task' \in [Procs -> Tasks \union {Idle}]
         /\ task'[p] = x
         /\ \A q \in Procs \ {p} : task'[q] = task[q]
BY DEF TypesOK

\* A call goes on to the next step.
LEMMA GotoFacts ==
  ASSUME TypesOK, NEW p \in Procs, task[p].at # "idle",
         NEW step \in TaskSteps \ {"idle"}, Goto(p, step)
  PROVE  /\ task' \in [Procs -> Tasks \union {Idle}]
         /\ task'[p].at = step
         /\ task'[p].completes = task[p].completes
         /\ task'[p].r = task[p].r /\ task'[p].c = task[p].c /\ task'[p].a = task[p].a
         /\ task'[p].seen = task[p].seen /\ task'[p].prior = task[p].prior
         /\ task'[p].by = task[p].by
         /\ Operation(task'[p]) = Operation(task[p])
         /\ \A q \in Procs \ {p} : task'[q] = task[q]
<1> DEFINE x == [task[p] EXCEPT !.at = step]
<1>1. task[p] \in Tasks
  BY TaskFacts
<1>2. /\ x \in Tasks /\ x.at = step /\ x.completes = task[p].completes
      /\ x.r = task[p].r /\ x.c = task[p].c /\ x.a = task[p].a
      /\ x.seen = task[p].seen /\ x.prior = task[p].prior /\ x.by = task[p].by
  BY <1>1 DEF Tasks
<1>3. task' = [task EXCEPT ![p] = x]
  BY DEF Goto
<1> HIDE DEF x
<1>4. /\ task' \in [Procs -> Tasks \union {Idle}]
      /\ task'[p] = x
      /\ \A q \in Procs \ {p} : task'[q] = task[q]
  BY <1>2, <1>3, TaskBecomes
<1> QED
  BY <1>2, <1>4 DEF Operation

\* A call returns, or dies.
LEMMA ReleaseFacts ==
  ASSUME TypesOK, NEW p \in Procs, Release(p)
  PROVE  /\ task' \in [Procs -> Tasks \union {Idle}]
         /\ task'[p].at = "idle"
         /\ \A q \in Procs \ {p} : /\ task'[q] = task[q]
                                   /\ lock = q => lock' = q
                                   /\ fence = q => fence' = q
         /\ lock' \in Procs \union {NoOne} /\ fence' \in Procs \union {NoOne}
<1>1. task' \in [Procs -> Tasks \union {Idle}] /\ task'[p] = Idle
      /\ \A q \in Procs \ {p} : task'[q] = task[q]
  BY TaskBecomes DEF Release
<1> QED
  BY <1>1 DEF Release, Idle, TypesOK

\* Nothing is known of a call that has not got the lock.
LEMMA AtRest ==
  ASSUME NEW p \in Procs, task'[p].at \in {"idle", "admit"}
  PROVE  CallOK(p)'
BY DEF CallOK, Held, Owned, Counted, Works, HasPrior, Working, Fenced

\* While one call has the lock the others are at rest.
LEMMA OthersAtRest ==
  ASSUME IInv, NEW p \in Procs, task[p].at \notin {"idle", "admit"},
         NEW q \in Procs \ {p}, task'[q] = task[q]
  PROVE  CallOK(q)'
<1>1. task[q].at \in {"idle", "admit"}
  BY DEF IInv, CallOK, Held
<1> QED
  BY <1>1, AtRest

\* A call that nothing touches.
LEMMA CallStays ==
  ASSUME NEW q \in Procs, CallOK(q), task'[q] = task[q],
         UNCHANGED <<state, receipts, journals, progress>>, Done' = Done,
         lock = q => lock' = q, fence = q => fence' = q,
         task[q].at \in Fenced => pub' = pub
  PROVE  CallOK(q)'
BY DEF CallOK, Held, Owned, Counted, Works, HasPrior, Working, Fenced, Complete, Low,
   Pending, Operation, Idle

\* Nothing of the store changes but receipts and journals that are added.
LEMMA StoreStays ==
  ASSUME StoreOK, UNCHANGED <<state, progress>>, Done' = Done,
         receipts \subseteq receipts', journals \subseteq journals', journals' \subseteq receipts'
  PROVE  StoreOK'
BY ConstantsStay DEF StoreOK, CompletionIsBacked, Complete, High, Low, Pending

-----------------------------------------------------------------------------
(* Steps that leave the consumers' states alone.                           *)

LEMMA PublishStep ==
  ASSUME IInv, Publish
  PROVE  IInv'
<1>1. /\ UNCHANGED <<files, lock, fence, task, progress, sweep, history>>
      /\ fence = NoOne /\ pub' = pub + 1 /\ pub < MaxPub
  BY DEF Publish
<1>2. TypesOK /\ StoreOK
  BY DEF IInv
<1>3. pub' \in Records
  BY <1>1, <1>2, ReconcileConstants DEF TypesOK, Records
<1>4. TypesOK'
  BY <1>1, <1>2, <1>3, ConstantsStay DEF TypesOK, files, history
<1>5. Done' = Done
  BY <1>1 DEF Done, Idle, history
<1>6. StoreOK'
  BY <1>1, <1>2, <1>5, StoreStays DEF files, StoreOK
<1>7. ASSUME NEW q \in Procs PROVE CallOK(q)'
  <2>1. CallOK(q) /\ task[q].at \notin Fenced
    BY <1>1, ReconcileConstants DEF IInv, CallOK, Held
  <2> QED
    BY <1>1, <1>5, <2>1, CallStays DEF files
<1> QED
  BY <1>4, <1>6, <1>7 DEF IInv

LEMMA PlanStep ==
  ASSUME IInv, NEW p \in Procs, NEW c \in Consumers, Plan(p, c)
  PROVE  IInv'
<1> DEFINE x == [at |-> "admit",
                 completes |-> ~Complete(pub, c),
                 r |-> pub,
                 c |-> c,
                 a |-> IF Complete(pub, c) THEN state[pub][c].receipt
                       ELSE state[pub][c].attempts + 1,
                 seen |-> Missing,
                 prior |-> Missing,
                 by |-> Receipts(pub)]
<1>1. /\ task[p].at = "idle" /\ task' = [task EXCEPT ![p] = x]
      /\ UNCHANGED <<pub, files, lock, fence, progress, sweep, history>>
      /\ ~Complete(pub, c) => state[pub][c].attempts < MaxAttempts
  BY DEF Plan, At
<1>2. TypesOK /\ StoreOK
  BY DEF IInv
<1>3. pub \in Records /\ receipts \subseteq Operations
  BY <1>2 DEF TypesOK
<1>4. /\ state[pub][c].attempts \in Nat /\ Receipts(pub) \in ReceiptsOf
  BY <1>2, <1>3, StateFacts
<1>5. Complete(pub, c) => state[pub][c].receipt \in 1..MaxAttempts
  <2>1. Complete(pub, c) => <<pub, c, state[pub][c].receipt>> \in Operations
    BY <1>2, <1>3 DEF StoreOK, CompletionIsBacked
  <2> QED
    BY <2>1 DEF Operations
<1>6. x.a \in 1..MaxAttempts
  <2>1. CASE Complete(pub, c)
    BY <1>5, <2>1
  <2>2. CASE ~Complete(pub, c)
    BY <1>1, <1>4, <2>2, ReconcileConstants
  <2> QED
    BY <2>1, <2>2
<1>7. Missing \in AnyState
  BY ReconcileConstants DEF Missing, AnyState
<1>8. x \in Tasks /\ x.at = "admit"
  <2>1. x.completes \in BOOLEAN
    BY DEF Complete
  <2> QED
    BY <1>3, <1>4, <1>6, <1>7, <2>1 DEF Tasks, TaskSteps
<1> HIDE DEF x
<1>9. /\ task' \in [Procs -> Tasks \union {Idle}] /\ task'[p] = x
      /\ \A q \in Procs \ {p} : task'[q] = task[q]
  BY <1>1, <1>2, <1>8, TaskBecomes
<1>10. TypesOK'
  BY <1>1, <1>2, <1>9, ConstantsStay DEF TypesOK, files, history
<1>11. Done' = Done
  BY <1>1 DEF Done, Idle, history
<1>12. StoreOK'
  BY <1>1, <1>2, <1>11, StoreStays DEF files, StoreOK
<1>13. CallOK(p)'
  BY <1>8, <1>9, AtRest
<1>14. ASSUME NEW q \in Procs \ {p} PROVE CallOK(q)'
  <2>1. CallOK(q)
    BY DEF IInv
  <2> QED
    BY <1>1, <1>9, <1>11, <2>1, CallStays DEF files
<1> QED
  BY <1>10, <1>12, <1>13, <1>14 DEF IInv

\* A call returns or dies and leaves everything else as it is.
LEMMA ReleaseStep ==
  ASSUME IInv, NEW p \in Procs, Release(p),
         UNCHANGED <<pub, files, progress, sweep, runs, written>>,
         crashes' \in 0..MaxCrashes
  PROVE  IInv'
<1>1. TypesOK /\ StoreOK
  BY DEF IInv
<1>2. /\ task' \in [Procs -> Tasks \union {Idle}] /\ task'[p].at = "idle"
      /\ \A q \in Procs \ {p} : /\ task'[q] = task[q]
                                /\ lock = q => lock' = q
                                /\ fence = q => fence' = q
      /\ lock' \in Procs \union {NoOne} /\ fence' \in Procs \union {NoOne}
  BY <1>1, ReleaseFacts
<1>3. TypesOK'
  BY <1>1, <1>2, ConstantsStay DEF TypesOK, files
<1>4. Done' = Done
  BY DEF Done, Idle
<1>5. StoreOK'
  BY <1>1, <1>4, StoreStays DEF files, StoreOK
<1>6. CallOK(p)'
  BY <1>2, AtRest
<1>7. ASSUME NEW q \in Procs \ {p} PROVE CallOK(q)'
  <2>1. CallOK(q)
    BY DEF IInv
  <2> QED
    BY <1>2, <1>4, <2>1, CallStays DEF files
<1> QED
  BY <1>3, <1>5, <1>6, <1>7 DEF IInv

LEMMA AdmitStep ==
  ASSUME IInv, NEW p \in Procs, Admit(p)
  PROVE  IInv'
<1> DEFINE step == IF task[p].completes THEN "locked" ELSE "fence"
<1>1. /\ task[p].at = "admit" /\ lock = NoOne /\ lock' = p /\ Goto(p, step)
      /\ UNCHANGED <<pub, files, fence, progress, sweep, history>>
  BY DEF Admit, At
<1>2. TypesOK /\ StoreOK
  BY DEF IInv
<1>3. step \in TaskSteps \ {"idle"}
  BY DEF TaskSteps
<1>4. step = IF task[p].completes THEN "locked" ELSE "fence"
  OBVIOUS
<1> HIDE DEF step
<1>5. /\ task' \in [Procs -> Tasks \union {Idle}] /\ task'[p].at = step
      /\ task'[p].completes = task[p].completes
      /\ \A q \in Procs \ {p} : task'[q] = task[q]
  BY <1>1, <1>2, <1>3, GotoFacts
<1>6. TypesOK'
  BY <1>1, <1>2, <1>5, ConstantsStay DEF TypesOK, files, history
<1>7. Done' = Done
  BY <1>1 DEF Done, Idle, history
<1>8. StoreOK'
  BY <1>1, <1>2, <1>7, StoreStays DEF files, StoreOK
<1>9. CallOK(p)'
  BY <1>1, <1>4, <1>5 DEF CallOK, Held, Owned, Counted, Works, HasPrior, Working, Fenced
<1>10. ASSUME NEW q \in Procs \ {p} PROVE CallOK(q)'
  <2>1. CallOK(q) /\ lock # q
    BY <1>1, ReconcileConstants DEF IInv
  <2> QED
    BY <1>1, <1>5, <1>7, <2>1, CallStays DEF files
<1> QED
  BY <1>6, <1>8, <1>9, <1>10 DEF IInv

LEMMA DeniedStep ==
  ASSUME IInv, NEW p \in Procs, Denied(p)
  PROVE  IInv'
BY ReleaseStep DEF Denied, history, IInv, TypesOK

LEMMA CrashStep ==
  ASSUME IInv, NEW p \in Procs, Crash(p)
  PROVE  IInv'
<1>1. crashes' \in 0..MaxCrashes
  BY ReconcileConstants DEF Crash, IInv, TypesOK
<1> QED
  BY <1>1, ReleaseStep DEF Crash

\* A call goes on, and has come to know what the next step relies on; receipts
\* and journals may have been added.
LEMMA GotoStep ==
  ASSUME IInv, NEW p \in Procs, task[p].at \notin {"idle", "admit"},
         NEW step \in TaskSteps \ {"idle"}, Goto(p, step),
         UNCHANGED <<pub, state, retired, lock, fence, progress, sweep, written, crashes>>,
         receipts \subseteq receipts', receipts' \subseteq Operations,
         journals \subseteq journals', journals' \subseteq receipts',
         runs' \in [Records -> [Consumers -> Nat]], CallOK(p)'
  PROVE  IInv'
<1>1. TypesOK /\ StoreOK
  BY DEF IInv
<1>2. /\ task' \in [Procs -> Tasks \union {Idle}]
      /\ \A q \in Procs \ {p} : task'[q] = task[q]
  BY <1>1, GotoFacts
<1>3. TypesOK'
  BY <1>1, <1>2, ConstantsStay DEF TypesOK
<1>4. Done' = Done
  BY DEF Done, Idle
<1>5. StoreOK'
  BY <1>1, <1>4, StoreStays
<1>6. ASSUME NEW q \in Procs \ {p} PROVE CallOK(q)'
  BY <1>2, OthersAtRest
<1> QED
  BY <1>3, <1>5, <1>6 DEF IInv

\* The lock holder's attempt is the next one of an incomplete consumer.
LEMMA LockedStep ==
  ASSUME IInv, NEW p \in Procs, Locked(p)
  PROVE  IInv'
<1> DEFINE t == task[p]
           s == state[t.r][t.c]
           step == IF Operation(t) \in journals \union receipts THEN "journal" ELSE "handle"
<1>1. /\ t.at = "locked" /\ UNCHANGED <<pub, files, progress, sweep, history>>
      /\ IF t.r # pub \/ s.status = "complete" \/ s.attempts + 1 # t.a
         THEN Release(p)
         ELSE Goto(p, step) /\ UNCHANGED <<lock, fence>>
  BY DEF Locked, At
<1>2. TypesOK /\ StoreOK /\ CallOK(p)
  BY DEF IInv
<1>3. CASE Release(p)
  BY <1>1, <1>2, <1>3, ReleaseStep DEF history, TypesOK
<1>4. CASE /\ s.status # "complete" /\ s.attempts + 1 = t.a
           /\ Goto(p, step) /\ UNCHANGED <<lock, fence>>
  <2>1. /\ t.r \in Records /\ t.c \in Consumers /\ t.a \in 1..MaxAttempts
        /\ s.attempts \in Nat
    BY <1>1, <1>2, TaskFacts, StateFacts
  <2>2. step \in {"journal", "handle"} /\ step \in TaskSteps \ {"idle"}
    BY DEF TaskSteps
  <2>3. /\ step = "journal" => Operation(t) \in receipts
        /\ step = "handle" => Operation(t) \notin receipts
    BY <1>2 DEF StoreOK
  <2>4. t.completes /\ lock = p
    BY <1>1, <1>2 DEF CallOK, Held
  <2> HIDE DEF step
  <2>5. /\ task'[p].at = step /\ task'[p].completes
        /\ task'[p].r = t.r /\ task'[p].c = t.c /\ Operation(task'[p]) = Operation(t)
    BY <1>1, <1>2, <1>4, <2>2, <2>4, GotoFacts
  <2>6. Done' = Done /\ Done \in Nat
    BY <1>1, <1>2 DEF Done, Idle, history, TypesOK
  <2>7. MaxAttempts \in Nat
    BY ReconcileConstants
  <2>8. s.attempts <= Low
    BY <1>4, <2>1, <2>6, <2>7 DEF Low
  <2>9. Pending(t.r, t.c) => progress.seen.attempts <= Low
    <3> SUFFICES ASSUME Pending(t.r, t.c) PROVE progress.seen.attempts <= Low
      OBVIOUS
    <3>1. progress.seen.attempts <= Low \/ progress.seen.attempts <= s.attempts
      BY <1>2, <2>1 DEF StoreOK
    <3>2. progress.seen.attempts \in Nat
      BY <1>2 DEF TypesOK, Pending, ProgressTasks, AnyState
    <3> QED
      BY <2>1, <2>6, <2>7, <2>8, <3>1, <3>2 DEF Low
  <2>10. Held(p)'
    BY <1>1, <1>4, <2>2, <2>4, <2>5 DEF Held, Fenced, Working
  <2>11. Owned(p)'
    BY <1>1, <1>4, <2>2, <2>3, <2>5
       DEF Owned, Works, HasPrior, Working, Complete, files
  <2>12. Counted(p)'
    BY <1>1, <2>2, <2>5, <2>6, <2>8, <2>9
       DEF Counted, Works, HasPrior, Working, Complete, files, Low, Pending, Idle
  <2>13. CallOK(p)'
    BY <2>10, <2>11, <2>12 DEF CallOK
  <2> QED
    BY <1>1, <1>2, <1>4, <2>2, <2>13, GotoStep DEF files, history, TypesOK, StoreOK
<1> QED
  BY <1>1, <1>3, <1>4

LEMMA HandlerCommitsStep ==
  ASSUME IInv, NEW p \in Procs, HandlerCommits(p)
  PROVE  IInv'
<1> DEFINE t == task[p]
<1>1. /\ t.at = "handle" /\ receipts' = receipts \union {Operation(t)}
      /\ runs' = [runs EXCEPT ![t.r][t.c] = @ + 1]
      /\ Goto(p, "journal")
      /\ UNCHANGED <<pub, state, journals, retired, lock, fence, progress, sweep,
                     written, crashes>>
  BY DEF HandlerCommits, At
<1>2. TypesOK /\ StoreOK /\ CallOK(p)
  BY DEF IInv
<1>3. /\ t.r \in Records /\ t.c \in Consumers /\ Operation(t) \in Operations
  BY <1>1, <1>2, TaskFacts
<1>4. /\ task'[p].at = "journal" /\ task'[p].completes = t.completes
      /\ task'[p].r = t.r /\ task'[p].c = t.c /\ Operation(task'[p]) = Operation(t)
  BY <1>1, <1>2, GotoFacts DEF TaskSteps
<1>5. Done' = Done
  BY <1>1 DEF Done, Idle
<1>6. Held(p)'
  BY <1>1, <1>2, <1>4 DEF CallOK, Held, Fenced, Working
<1>7. Owned(p)'
  BY <1>1, <1>2, <1>4 DEF CallOK, Owned, Works, HasPrior, Working, Complete
<1>8. Counted(p)'
  BY <1>1, <1>2, <1>4, <1>5
     DEF CallOK, Counted, Works, HasPrior, Working, Complete, Low, Pending, Idle
<1>9. CallOK(p)'
  BY <1>6, <1>7, <1>8 DEF CallOK
<1>10. runs' \in [Records -> [Consumers -> Nat]]
  BY <1>1, <1>2, <1>3 DEF TypesOK
<1>11. receipts' \subseteq Operations /\ journals \subseteq receipts'
  BY <1>1, <1>2, <1>3 DEF TypesOK, StoreOK
<1> QED
  BY <1>1, <1>9, <1>10, <1>11, GotoStep DEF TaskSteps

LEMMA HandlerFailsStep ==
  ASSUME IInv, NEW p \in Procs, HandlerFails(p)
  PROVE  IInv'
<1> DEFINE t == task[p]
<1>1. /\ t.at = "handle" /\ Goto(p, "fail")
      /\ UNCHANGED <<pub, files, lock, fence, progress, sweep, history>>
  BY DEF HandlerFails, At
<1>2. TypesOK /\ StoreOK /\ CallOK(p)
  BY DEF IInv
<1>3. /\ task'[p].at = "fail" /\ task'[p].completes = t.completes
      /\ task'[p].r = t.r /\ task'[p].c = t.c /\ Operation(task'[p]) = Operation(t)
  BY <1>1, <1>2, GotoFacts DEF TaskSteps
<1>4. Done' = Done
  BY <1>1 DEF Done, Idle, history
<1>5. Held(p)'
  BY <1>1, <1>2, <1>3 DEF CallOK, Held, Fenced, Working
<1>6. Owned(p)'
  BY <1>1, <1>2, <1>3 DEF CallOK, Owned, Works, HasPrior, Working, Complete, files
<1>7. Counted(p)'
  BY <1>1, <1>2, <1>3, <1>4
     DEF CallOK, Counted, Works, HasPrior, Working, Complete, Low, Pending, Idle, files
<1>8. CallOK(p)'
  BY <1>5, <1>6, <1>7 DEF CallOK
<1> QED
  BY <1>1, <1>2, <1>8, GotoStep DEF TaskSteps, files, history, TypesOK, StoreOK

LEMMA PersistJournalStep ==
  ASSUME IInv, NEW p \in Procs, PersistJournal(p)
  PROVE  IInv'
<1> DEFINE t == task[p]
<1>1. /\ t.at = "journal"
      /\ UNCHANGED <<pub, state, receipts, retired, progress, sweep, history>>
      /\ IF t.r # pub THEN Release(p) /\ UNCHANGED journals
         ELSE /\ journals' = journals \union {Operation(t)}
              /\ Goto(p, "fence") /\ UNCHANGED <<lock, fence>>
  BY DEF PersistJournal, At
<1>2. TypesOK /\ StoreOK /\ CallOK(p)
  BY DEF IInv
<1>3. CASE Release(p) /\ UNCHANGED journals
  BY <1>1, <1>2, <1>3, ReleaseStep DEF files, history, TypesOK
<1>4. CASE /\ journals' = journals \union {Operation(t)}
           /\ Goto(p, "fence") /\ UNCHANGED <<lock, fence>>
  <2>1. Operation(t) \in receipts
    BY <1>1, <1>2 DEF CallOK, Owned
  <2>2. /\ task'[p].at = "fence" /\ task'[p].completes = t.completes
        /\ task'[p].r = t.r /\ task'[p].c = t.c /\ Operation(task'[p]) = Operation(t)
    BY <1>1, <1>2, <1>4, GotoFacts DEF TaskSteps
  <2>3. Done' = Done
    BY <1>1 DEF Done, Idle, history
  <2>4. Held(p)'
    BY <1>1, <1>2, <1>4, <2>2 DEF CallOK, Held, Fenced, Working
  <2>5. Owned(p)'
    BY <1>1, <1>2, <1>4, <2>1, <2>2 DEF CallOK, Owned, Works, HasPrior, Working, Complete
  <2>6. Counted(p)'
    BY <1>1, <1>2, <2>2, <2>3
       DEF CallOK, Counted, Works, HasPrior, Working, Complete, Low, Pending, Idle
  <2>7. CallOK(p)'
    BY <2>4, <2>5, <2>6 DEF CallOK
  <2> QED
    BY <1>1, <1>2, <1>4, <2>1, <2>7, GotoStep DEF TaskSteps, history, TypesOK, StoreOK
<1> QED
  BY <1>1, <1>3, <1>4

LEMMA ReadStateStep ==
  ASSUME IInv, NEW p \in Procs, ReadState(p)
  PROVE  IInv'
<1> DEFINE t == task[p]
           s == state[t.r][t.c]
           x == [t EXCEPT !.seen = s, !.at = IF @ = "fail" THEN "fail_write" ELSE "write"]
<1>1. /\ t.at \in {"fail", "read"} /\ task' = [task EXCEPT ![p] = x]
      /\ UNCHANGED <<pub, files, lock, fence, progress, sweep, history>>
  BY DEF ReadState
<1>2. TypesOK /\ StoreOK /\ CallOK(p)
  BY DEF IInv
<1>3. /\ t \in Tasks /\ t.r \in Records /\ t.c \in Consumers /\ s \in AnyState
  BY <1>1, <1>2, TaskFacts, StateFacts
<1>4. /\ x \in Tasks
      /\ x.at = IF t.at = "fail" THEN "fail_write" ELSE "write"
      /\ x.completes = t.completes /\ x.r = t.r /\ x.c = t.c /\ x.seen = s
      /\ x.prior = t.prior /\ Operation(x) = Operation(t)
  BY <1>3 DEF Tasks, TaskSteps, Operation
<1> HIDE DEF x
<1>5. /\ task' \in [Procs -> Tasks \union {Idle}] /\ task'[p] = x
      /\ \A q \in Procs \ {p} : task'[q] = task[q]
  BY <1>1, <1>2, <1>4, TaskBecomes
<1>6. TypesOK'
  BY <1>1, <1>2, <1>5, ConstantsStay DEF TypesOK, files, history
<1>7. Done' = Done
  BY <1>1 DEF Done, Idle, history
<1>8. StoreOK'
  BY <1>1, <1>2, <1>7, StoreStays DEF files, StoreOK
<1>9. t.completes /\ s.status # "complete" /\ s.attempts <= Low
  BY <1>1, <1>2 DEF CallOK, Held, Owned, Counted, Works, Working, Complete
<1>10. Held(p)'
  BY <1>1, <1>2, <1>4, <1>5 DEF CallOK, Held, Fenced, Working
<1>11. Owned(p)'
  BY <1>1, <1>2, <1>4, <1>5, <1>9
     DEF CallOK, Owned, Works, HasPrior, Working, Complete, files
<1>12. Counted(p)'
  BY <1>1, <1>2, <1>4, <1>5, <1>7, <1>9
     DEF CallOK, Counted, Works, HasPrior, Working, Complete, Low, Pending, Idle, files
<1>13. ASSUME NEW q \in Procs \ {p} PROVE CallOK(q)'
  BY <1>1, <1>5, OthersAtRest
<1> QED
  BY <1>6, <1>8, <1>10, <1>11, <1>12, <1>13 DEF IInv, CallOK

LEMMA TakeFenceStep ==
  ASSUME IInv, NEW p \in Procs, TakeFence(p)
  PROVE  IInv'
<1> DEFINE t == task[p]
           s == state[t.r][t.c]
           x == [t EXCEPT !.prior = s, !.at = IF t.completes THEN "read" ELSE "recheck"]
<1>1. /\ t.at = "fence" /\ UNCHANGED <<pub, files, progress, sweep, history>>
      /\ \/ Release(p)
         \/ /\ t.r = pub /\ fence' = p /\ task' = [task EXCEPT ![p] = x]
            /\ UNCHANGED lock
  BY DEF TakeFence, At
<1>2. TypesOK /\ StoreOK /\ CallOK(p)
  BY DEF IInv
<1>3. CASE Release(p)
  BY <1>1, <1>2, <1>3, ReleaseStep DEF history, TypesOK
<1>4. CASE /\ t.r = pub /\ fence' = p /\ task' = [task EXCEPT ![p] = x]
           /\ UNCHANGED lock
  <2>1. /\ t \in Tasks /\ t.r \in Records /\ t.c \in Consumers /\ s \in AnyState
        /\ t.completes \in BOOLEAN
    BY <1>1, <1>2, TaskFacts, StateFacts
  <2>2. /\ x \in Tasks
        /\ x.at = IF t.completes THEN "read" ELSE "recheck"
        /\ x.completes = t.completes /\ x.r = t.r /\ x.c = t.c
        /\ x.prior = s /\ Operation(x) = Operation(t)
    BY <2>1 DEF Tasks, TaskSteps, Operation
  <2> HIDE DEF x
  <2>3. /\ task' \in [Procs -> Tasks \union {Idle}] /\ task'[p] = x
        /\ \A q \in Procs \ {p} : task'[q] = task[q]
    BY <1>4, <1>2, <2>2, TaskBecomes
  <2>4. TypesOK'
    BY <1>1, <1>2, <1>4, <2>3, ConstantsStay DEF TypesOK, files, history
  <2>5. Done' = Done
    BY <1>1 DEF Done, Idle, history
  <2>6. StoreOK'
    BY <1>1, <1>2, <2>5, StoreStays DEF files, StoreOK
  <2>7. t.completes => s.status # "complete" /\ s.attempts <= Low
    BY <1>1, <1>2 DEF CallOK, Owned, Counted, Works, Working, Complete
  <2>8. Held(p)'
    BY <1>1, <1>2, <1>4, <2>2, <2>3 DEF CallOK, Held, Fenced, Working
  <2>9. Owned(p)'
    BY <1>1, <1>2, <2>2, <2>3, <2>7
       DEF CallOK, Owned, Works, HasPrior, Working, Complete, files
  <2>10. Counted(p)'
    BY <1>1, <1>2, <2>2, <2>3, <2>5, <2>7
       DEF CallOK, Counted, Works, HasPrior, Working, Complete, Low, Pending, Idle, files
  <2>11. ASSUME NEW q \in Procs \ {p} PROVE CallOK(q)'
    BY <1>1, <2>3, OthersAtRest
  <2> QED
    BY <2>4, <2>6, <2>8, <2>9, <2>10, <2>11 DEF IInv, CallOK
<1> QED
  BY <1>1, <1>3, <1>4

\* Retirement files and the sweep do not concern the calls.
LEMMA RetiredStays ==
  ASSUME IInv, retired' \in [Records -> Retirements \union {NotRetired}],
         sweep' \in SweepTasks \union {Idle},
         UNCHANGED <<pub, state, receipts, journals, lock, fence, task, progress, history>>
  PROVE  IInv'
<1>1. TypesOK /\ StoreOK
  BY DEF IInv
<1>2. TypesOK'
  BY <1>1, ConstantsStay DEF TypesOK, history
<1>3. Done' = Done
  BY DEF Done, Idle, history
<1>4. StoreOK'
  BY <1>1, <1>3, StoreStays DEF StoreOK
<1>5. ASSUME NEW q \in Procs PROVE CallOK(q)'
  <2>1. CallOK(q)
    BY DEF IInv
  <2> QED
    BY <1>3, <2>1, CallStays
<1> QED
  BY <1>2, <1>4, <1>5 DEF IInv

LEMMA RetireStep ==
  ASSUME IInv, NEW p \in Procs, Retire(p)
  PROVE  IInv'
<1> DEFINE t == task[p]
<1>1. /\ t.at = "retire" /\ Release(p)
      /\ retired' = [retired EXCEPT ![t.r] = [form |-> "targeted", by |-> t.by]]
      /\ UNCHANGED <<pub, state, receipts, journals, progress, sweep, history>>
  BY DEF Retire, At
<1>2. TypesOK /\ StoreOK
  BY DEF IInv
<1>3. t.r \in Records /\ t.by \in ReceiptsOf
  BY <1>1, <1>2, TaskFacts
<1>4. [form |-> "targeted", by |-> t.by] \in Retirements
  BY <1>3 DEF Retirements, ReceiptsOf
<1>5. retired' \in [Records -> Retirements \union {NotRetired}]
  BY <1>1, <1>2, <1>3, <1>4 DEF TypesOK
<1>6. /\ task' \in [Procs -> Tasks \union {Idle}] /\ task'[p].at = "idle"
      /\ \A q \in Procs \ {p} : /\ task'[q] = task[q]
                                /\ lock = q => lock' = q
                                /\ fence = q => fence' = q
      /\ lock' \in Procs \union {NoOne} /\ fence' \in Procs \union {NoOne}
  BY <1>1, <1>2, ReleaseFacts
<1>7. TypesOK'
  BY <1>1, <1>2, <1>5, <1>6, ConstantsStay DEF TypesOK, history
<1>8. Done' = Done
  BY <1>1 DEF Done, Idle, history
<1>9. StoreOK'
  BY <1>1, <1>2, <1>8, StoreStays DEF StoreOK
<1>10. CallOK(p)'
  BY <1>6, AtRest
<1>11. ASSUME NEW q \in Procs \ {p} PROVE CallOK(q)'
  BY <1>1, <1>6, OthersAtRest
<1> QED
  BY <1>7, <1>9, <1>10, <1>11 DEF IInv

LEMMA SweepStep ==
  ASSUME IInv, Sweep
  PROVE  IInv'
<1>1. TypesOK
  BY DEF IInv
<1>2. CASE SweepStatus
  <2>1. pub \in Records /\ Receipts(pub) \in ReceiptsOf
    <3>1. CASE Consumers = {}
      BY <1>1, <3>1 DEF TypesOK, Receipts, ReceiptsOf
    <3>2. CASE Consumers # {}
      BY <1>1, <3>2, StateFacts DEF TypesOK
    <3> QED
      BY <3>1, <3>2
  <2>2. sweep' \in SweepTasks
    BY <1>2, <2>1 DEF SweepStatus, SweepTasks
  <2> QED
    BY <1>1, <1>2, <2>2, RetiredStays DEF SweepStatus, files, TypesOK
<1>3. CASE SweepExists
  <2>1. sweep \in SweepTasks
    BY <1>1, <1>3 DEF SweepExists, TypesOK, Idle
  <2>2. sweep' \in SweepTasks \union {Idle}
    BY <1>3, <2>1 DEF SweepExists, SweepTasks
  <2> QED
    BY <1>1, <1>3, <2>2, RetiredStays DEF SweepExists, files, TypesOK
<1>4. CASE SweepWrite
  <2>1. sweep \in SweepTasks
    BY <1>1, <1>4 DEF SweepWrite, TypesOK, Idle
  <2>2. sweep.r \in Records /\ [form |-> "terminal", by |-> sweep.by] \in Retirements
    BY <2>1 DEF SweepTasks, Retirements, ReceiptsOf
  <2>3. retired' \in [Records -> Retirements \union {NotRetired}]
    BY <1>1, <1>4, <2>2 DEF SweepWrite, TypesOK
  <2> QED
    BY <1>4, <2>3, RetiredStays DEF SweepWrite
<1> QED
  BY <1>2, <1>3, <1>4 DEF Sweep

-----------------------------------------------------------------------------
(* Steps that write a consumer's state.                                    *)

\* The state of consumer c of record r becomes v.
LEMMA StateBecomes ==
  ASSUME TypesOK, NEW r \in Records, NEW c \in Consumers, NEW v \in AnyState,
         state' = [state EXCEPT ![r][c] = v]
  PROVE  /\ state' \in [Records -> [Consumers -> AnyState]]
         /\ state'[r][c] = v
         /\ \A s \in Records, d \in Consumers :
              <<s, d>> # <<r, c>> => state'[s][d] = state[s][d]
BY DEF TypesOK

\* A state is written over one that was not complete.
LEMMA RewrittenFacts ==
  ASSUME NEW seen \in AnyState, seen.status # "complete",
         NEW status \in {"progress", "failed_retryable", "complete"},
         NEW receipt \in 0..MaxAttempts
  PROVE  /\ Rewritten(seen, status, receipt) \in AnyState
         /\ Rewritten(seen, status, receipt).status = status
         /\ Rewritten(seen, status, receipt).attempts = seen.attempts + 1
         /\ Rewritten(seen, status, receipt).receipt = receipt
BY DEF Rewritten, AnyState

\* The store after such a write, if the written state is backed and within its
\* bound, and no progress writer is left ahead of it.
LEMMA StoreWritten ==
  ASSUME TypesOK, StoreOK, NEW r \in Records, NEW c \in Consumers, NEW v \in AnyState,
         state' = [state EXCEPT ![r][c] = v],
         UNCHANGED <<receipts, journals, progress>>, Done' = Done,
         v.status = "complete" => <<r, c, v.receipt>> \in receipts \intersect journals,
         v.attempts <= High,
         Pending(r, c) => progress.seen.attempts <= Low
  PROVE  StoreOK'
<1>1. /\ state'[r][c] = v
      /\ \A s \in Records, d \in Consumers :
           <<s, d>> # <<r, c>> => state'[s][d] = state[s][d]
  BY StateBecomes
<1>2. CompletionIsBacked'
  BY <1>1, ConstantsStay DEF StoreOK, CompletionIsBacked, Complete
<1>3. ASSUME NEW s \in Records, NEW d \in Consumers
      PROVE  /\ state'[s][d].attempts <= High'
             /\ Pending(s, d)' => \/ progress'.seen.attempts <= Low'
                                  \/ progress'.seen.attempts <= state'[s][d].attempts
  BY <1>1 DEF StoreOK, High, Low, Pending, Idle
<1> QED
  BY <1>2, <1>3, ConstantsStay DEF StoreOK

LEMMA WriteFailedStep ==
  ASSUME IInv, NEW p \in Procs, WriteFailed(p)
  PROVE  IInv'
<1> DEFINE t == task[p]
           v == Rewritten(t.seen, "failed_retryable", 0)
<1>1. /\ t.at = "fail_write" /\ state' = [state EXCEPT ![t.r][t.c] = v] /\ Release(p)
      /\ UNCHANGED <<pub, receipts, journals, retired, progress, sweep, history>>
  BY DEF WriteFailed, At
<1>2. TypesOK /\ StoreOK /\ CallOK(p)
  BY DEF IInv
<1>3. t.r \in Records /\ t.c \in Consumers /\ t.seen \in AnyState
  BY <1>1, <1>2, TaskFacts
<1>4. /\ t.seen.status # "complete" /\ t.seen.attempts <= Low
      /\ Pending(t.r, t.c) => progress.seen.attempts <= Low
  BY <1>1, <1>2 DEF CallOK, Held, Owned, Counted, Works, Working
<1>5. v \in AnyState /\ v.status = "failed_retryable" /\ v.attempts = t.seen.attempts + 1
  BY <1>3, <1>4, RewrittenFacts, ReconcileConstants
<1>6. Done' = Done /\ Done \in Nat
  BY <1>1, <1>2 DEF Done, Idle, history, TypesOK
<1>7. v.attempts <= High
  BY <1>3, <1>4, <1>5, <1>6, ReconcileConstants DEF Low, High, AnyState
<1> HIDE DEF v
<1>8. StoreOK'
  BY <1>1, <1>2, <1>3, <1>4, <1>5, <1>6, <1>7, StoreWritten
<1>9. state' \in [Records -> [Consumers -> AnyState]]
  BY <1>1, <1>2, <1>3, <1>5, StateBecomes
<1>10. /\ task' \in [Procs -> Tasks \union {Idle}] /\ task'[p].at = "idle"
       /\ \A q \in Procs \ {p} : task'[q] = task[q]
       /\ lock' \in Procs \union {NoOne} /\ fence' \in Procs \union {NoOne}
  BY <1>1, <1>2, ReleaseFacts
<1>11. TypesOK'
  BY <1>1, <1>2, <1>9, <1>10, ConstantsStay DEF TypesOK, history
<1>12. CallOK(p)'
  BY <1>10, AtRest
<1>13. ASSUME NEW q \in Procs \ {p} PROVE CallOK(q)'
  BY <1>1, <1>10, OthersAtRest
<1> QED
  BY <1>8, <1>11, <1>12, <1>13 DEF IInv

LEMMA WriteCompleteStep ==
  ASSUME IInv, NEW p \in Procs, WriteComplete(p)
  PROVE  IInv'
<1> DEFINE t == task[p]
           v == Rewritten(t.seen, "complete", t.a)
<1>1. /\ t.at = "write" /\ state' = [state EXCEPT ![t.r][t.c] = v] /\ Goto(p, "verify")
      /\ UNCHANGED <<pub, receipts, journals, retired, lock, fence, progress, sweep, history>>
  BY DEF WriteComplete, At
<1>2. TypesOK /\ StoreOK /\ CallOK(p)
  BY DEF IInv
<1>3. /\ t.r \in Records /\ t.c \in Consumers /\ t.seen \in AnyState
      /\ t.a \in 1..MaxAttempts
  BY <1>1, <1>2, TaskFacts
<1>4. /\ t.completes /\ t.seen.status # "complete" /\ t.seen.attempts <= Low
      /\ Pending(t.r, t.c) => progress.seen.attempts <= Low
      /\ Operation(t) \in receipts \intersect journals
  BY <1>1, <1>2 DEF CallOK, Held, Owned, Counted, Works, HasPrior, Working
<1>5. v \in AnyState /\ v.status = "complete" /\ v.attempts = t.seen.attempts + 1
      /\ v.receipt = t.a
  BY <1>3, <1>4, RewrittenFacts
<1>6. Done' = Done /\ Done \in Nat
  BY <1>1, <1>2 DEF Done, Idle, history, TypesOK
<1>7. v.attempts <= High
  BY <1>3, <1>4, <1>5, <1>6, ReconcileConstants DEF Low, High, AnyState
<1> HIDE DEF v
<1>8. StoreOK'
  BY <1>1, <1>2, <1>3, <1>4, <1>5, <1>6, <1>7, StoreWritten DEF Operation
<1>9. state' \in [Records -> [Consumers -> AnyState]] /\ state'[t.r][t.c] = v
  BY <1>1, <1>2, <1>3, <1>5, StateBecomes
<1>10. /\ task' \in [Procs -> Tasks \union {Idle}] /\ task'[p].at = "verify"
       /\ task'[p].completes = t.completes /\ task'[p].r = t.r /\ task'[p].c = t.c
       /\ task'[p].prior = t.prior /\ Operation(task'[p]) = Operation(t)
       /\ \A q \in Procs \ {p} : task'[q] = task[q]
  BY <1>1, <1>2, GotoFacts DEF TaskSteps
<1>11. TypesOK'
  BY <1>1, <1>2, <1>9, <1>10, ConstantsStay DEF TypesOK, history
<1>12. Held(p)'
  BY <1>1, <1>2, <1>4, <1>10 DEF CallOK, Held, Fenced, Working
<1>13. Owned(p)'
  BY <1>1, <1>2, <1>10 DEF CallOK, Owned, Works, HasPrior, Working
<1>14. Counted(p)'
  BY <1>1, <1>2, <1>4, <1>5, <1>6, <1>9, <1>10
     DEF CallOK, Counted, Works, HasPrior, Working, Complete, Low, Pending, Idle
<1>15. ASSUME NEW q \in Procs \ {p} PROVE CallOK(q)'
  BY <1>1, <1>10, OthersAtRest
<1> QED
  BY <1>8, <1>11, <1>12, <1>13, <1>14, <1>15 DEF IInv, CallOK

LEMMA RestorePriorStep ==
  ASSUME IInv, NEW p \in Procs, task[p].at \in {"verify", "recheck"}, RestorePrior(p),
         UNCHANGED <<pub, receipts, journals, retired, progress, sweep, history>>
  PROVE  IInv'
<1> DEFINE t == task[p]
<1>1. TypesOK /\ StoreOK /\ CallOK(p) /\ Release(p)
  BY DEF IInv, RestorePrior
<1>2. CASE t.completes
  <2>1. state' = [state EXCEPT ![t.r][t.c] = t.prior]
    BY <1>2 DEF RestorePrior
  <2>2. t.r \in Records /\ t.c \in Consumers /\ t.prior \in AnyState
    BY <1>1, TaskFacts
  <2>3. /\ t.prior.status # "complete" /\ t.prior.attempts <= Low
        /\ Pending(t.r, t.c) => progress.seen.attempts <= Low
    BY <1>1, <1>2 DEF CallOK, Owned, Counted, HasPrior
  <2>4. Done' = Done /\ Done \in Nat
    BY <1>1 DEF Done, Idle, history, TypesOK
  <2>5. t.prior.attempts <= High
    BY <2>2, <2>3, <2>4, ReconcileConstants DEF Low, High, AnyState
  <2>6. StoreOK'
    BY <1>1, <2>1, <2>2, <2>3, <2>4, <2>5, StoreWritten
  <2>7. state' \in [Records -> [Consumers -> AnyState]]
    BY <1>1, <2>1, <2>2, StateBecomes
  <2>8. /\ task' \in [Procs -> Tasks \union {Idle}] /\ task'[p].at = "idle"
        /\ \A q \in Procs \ {p} : task'[q] = task[q]
        /\ lock' \in Procs \union {NoOne} /\ fence' \in Procs \union {NoOne}
    BY <1>1, ReleaseFacts
  <2>9. TypesOK'
    BY <1>1, <2>7, <2>8, ConstantsStay DEF TypesOK, history
  <2>10. CallOK(p)'
    BY <2>8, AtRest
  <2>11. ASSUME NEW q \in Procs \ {p} PROVE CallOK(q)'
    BY <2>8, OthersAtRest
  <2> QED
    BY <2>6, <2>9, <2>10, <2>11 DEF IInv
<1>3. CASE ~t.completes
  BY <1>1, <1>3, ReleaseStep DEF RestorePrior, files, history, TypesOK
<1> QED
  BY <1>2, <1>3

LEMMA VerifyStep ==
  ASSUME IInv, NEW p \in Procs, Verify(p)
  PROVE  IInv'
<1> DEFINE t == task[p]
<1>1. /\ t.at = "verify"
      /\ UNCHANGED <<pub, receipts, journals, retired, progress, sweep, history>>
      /\ \/ Goto(p, "recheck") /\ UNCHANGED <<state, lock, fence>>
         \/ RestorePrior(p)
  BY DEF Verify, At
<1>2. CASE Goto(p, "recheck") /\ UNCHANGED <<state, lock, fence>>
  <2>1. TypesOK /\ StoreOK /\ CallOK(p)
    BY DEF IInv
  <2>2. /\ task'[p].at = "recheck" /\ task'[p].completes = t.completes
        /\ task'[p].r = t.r /\ task'[p].c = t.c /\ task'[p].prior = t.prior
        /\ Operation(task'[p]) = Operation(t)
    BY <1>1, <1>2, <2>1, GotoFacts DEF TaskSteps
  <2>3. Done' = Done
    BY <1>1 DEF Done, Idle, history
  <2>4. Held(p)'
    BY <1>1, <1>2, <2>1, <2>2 DEF CallOK, Held, Fenced, Working
  <2>5. Owned(p)'
    BY <1>1, <1>2, <2>1, <2>2 DEF CallOK, Owned, Works, HasPrior, Working
  <2>6. Counted(p)'
    BY <1>1, <1>2, <2>1, <2>2, <2>3
       DEF CallOK, Counted, Works, HasPrior, Working, Complete, Low, Pending, Idle
  <2>7. CallOK(p)'
    BY <2>4, <2>5, <2>6 DEF CallOK
  <2> QED
    BY <1>1, <1>2, <2>1, <2>7, GotoStep DEF TaskSteps, history, TypesOK, StoreOK
<1>3. CASE RestorePrior(p)
  BY <1>1, <1>3, RestorePriorStep
<1> QED
  BY <1>1, <1>2, <1>3

LEMMA RecheckStep ==
  ASSUME IInv, NEW p \in Procs, Recheck(p)
  PROVE  IInv'
<1> DEFINE t == task[p]
           x == [t EXCEPT !.by = Receipts(t.r), !.at = "retire"]
<1>1. /\ t.at = "recheck"
      /\ UNCHANGED <<pub, receipts, journals, retired, progress, sweep, history>>
      /\ \/ RestorePrior(p)
         \/ task' = [task EXCEPT ![p] = x] /\ UNCHANGED <<state, lock, fence>>
         \/ Release(p) /\ UNCHANGED state
  BY DEF Recheck, At
<1>2. TypesOK /\ StoreOK /\ CallOK(p)
  BY DEF IInv
<1>3. CASE RestorePrior(p)
  BY <1>1, <1>3, RestorePriorStep
<1>4. CASE task' = [task EXCEPT ![p] = x] /\ UNCHANGED <<state, lock, fence>>
  <2>1. t \in Tasks /\ Receipts(t.r) \in ReceiptsOf
    BY <1>1, <1>2, TaskFacts, StateFacts
  <2>2. x \in Tasks /\ x.at = "retire" /\ x.r = t.r
    BY <2>1 DEF Tasks, TaskSteps
  <2> HIDE DEF x
  <2>3. /\ task' \in [Procs -> Tasks \union {Idle}] /\ task'[p] = x
        /\ \A q \in Procs \ {p} : task'[q] = task[q]
    BY <1>2, <1>4, <2>2, TaskBecomes
  <2>4. TypesOK'
    BY <1>1, <1>2, <1>4, <2>3, ConstantsStay DEF TypesOK, history
  <2>5. Done' = Done
    BY <1>1 DEF Done, Idle, history
  <2>6. StoreOK'
    BY <1>1, <1>2, <1>4, <2>5, StoreStays DEF StoreOK
  <2>7. CallOK(p)'
    BY <1>1, <1>2, <1>4, <2>2, <2>3
       DEF CallOK, Held, Owned, Counted, Works, HasPrior, Working, Fenced
  <2>8. ASSUME NEW q \in Procs \ {p} PROVE CallOK(q)'
    BY <1>1, <2>3, OthersAtRest
  <2> QED
    BY <2>4, <2>6, <2>7, <2>8 DEF IInv
<1>5. CASE Release(p) /\ UNCHANGED state
  BY <1>1, <1>2, <1>5, ReleaseStep DEF files, history, TypesOK
<1> QED
  BY <1>1, <1>3, <1>4, <1>5

-----------------------------------------------------------------------------
(* Progress writers.                                                       *)

LEMMA ReadForProgressStep ==
  ASSUME IInv, NEW c \in Consumers, ReadForProgress(c)
  PROVE  IInv'
<1> DEFINE x == [at |-> "write", r |-> pub, c |-> c, seen |-> state[pub][c]]
<1>1. /\ progress = Idle /\ written < MaxProgress /\ ~Complete(pub, c)
      /\ progress' = x /\ written' = written + 1
      /\ UNCHANGED <<pub, files, lock, fence, task, sweep, runs, crashes>>
  BY DEF ReadForProgress
<1>2. TypesOK /\ StoreOK
  BY DEF IInv
<1>3. pub \in Records /\ state[pub][c] \in AnyState
  BY <1>2, StateFacts DEF TypesOK
<1>4. x \in ProgressTasks /\ x # Idle
  BY <1>3 DEF ProgressTasks, Idle
<1>5. written \in Nat /\ written' \in 0..MaxProgress /\ written' > 0
  BY <1>1, <1>2, ReconcileConstants DEF TypesOK
<1>6. Done' = Done
  BY <1>1, <1>4, <1>5 DEF Done, Idle
<1>7. TypesOK'
  BY <1>1, <1>2, <1>4, <1>5, ConstantsStay DEF TypesOK, files
<1>8. x.seen = state[pub][c] /\ x.r = pub /\ x.c = c
  OBVIOUS
<1> HIDE DEF x
<1>9. state[pub][c].attempts \in Nat
  BY <1>3 DEF AnyState
<1>10. StoreOK'
  <2>1. CompletionIsBacked' /\ journals' \subseteq receipts'
    BY <1>1, <1>2, ConstantsStay DEF StoreOK, CompletionIsBacked, Complete, files
  <2>2. progress'.seen.status # "complete"
    BY <1>1, <1>8 DEF Complete
  <2>3. ASSUME NEW r \in Records, NEW d \in Consumers
        PROVE  /\ state'[r][d].attempts <= High'
               /\ Pending(r, d)' => progress'.seen.attempts <= state'[r][d].attempts
    BY <1>1, <1>2, <1>6, <1>8, <1>9 DEF StoreOK, High, Pending, files
  <2> QED
    BY <2>1, <2>2, <2>3, ConstantsStay DEF StoreOK
<1>11. ASSUME NEW q \in Procs PROVE CallOK(q)'
  <2>1. CallOK(q)
    BY DEF IInv
  <2>2. Held(q)' /\ Owned(q)'
    BY <1>1, <2>1 DEF CallOK, Held, Owned, Works, HasPrior, Working, Fenced, Complete, files,
       Operation
  <2>3. Counted(q)'
    BY <1>1, <1>6, <1>8, <2>1
       DEF CallOK, Counted, Works, HasPrior, Working, Complete, Low, Pending, files
  <2> QED
    BY <2>2, <2>3 DEF CallOK
<1> QED
  BY <1>7, <1>10, <1>11 DEF IInv

LEMMA WriteProgressStep ==
  ASSUME IInv, WriteProgress
  PROVE  IInv'
<1> DEFINE r == progress.r
           c == progress.c
           seen == progress.seen
           v == Rewritten(seen, "progress", 0)
<1>1. /\ progress.at = "write" /\ progress' = Idle
      /\ state' = [state EXCEPT ![r][c] = v]
      /\ UNCHANGED <<pub, receipts, journals, retired, lock, fence, task, sweep, history>>
  BY DEF WriteProgress
<1>2. TypesOK /\ StoreOK
  BY DEF IInv
<1>3. /\ progress # Idle /\ r \in Records /\ c \in Consumers /\ seen \in AnyState
      /\ seen.attempts \in Nat
  BY <1>1, <1>2 DEF TypesOK, Idle, ProgressTasks, AnyState
<1>4. seen.status # "complete"
  BY <1>2, <1>3 DEF StoreOK
<1>5. v \in AnyState /\ v.status = "progress" /\ v.attempts = seen.attempts + 1
  BY <1>3, <1>4, RewrittenFacts, ReconcileConstants
<1>6. Done' = Done + 1 /\ Done \in Nat
  BY <1>1, <1>2, <1>3 DEF Done, Idle, history, TypesOK
<1>7. /\ Low \in Int /\ High \in Int /\ Low' = Low + 1 /\ High' = High + 1 /\ High = Low + 1
  BY <1>6, ReconcileConstants DEF Low, High
<1> HIDE DEF v
<1>8. /\ state' \in [Records -> [Consumers -> AnyState]] /\ state'[r][c] = v
      /\ \A s \in Records, d \in Consumers :
           <<s, d>> # <<r, c>> => state'[s][d] = state[s][d]
  BY <1>1, <1>2, <1>3, <1>5 DEF TypesOK
<1>9. TypesOK'
  BY <1>1, <1>2, <1>8, ConstantsStay DEF TypesOK, history
<1>10. seen.attempts <= High
  <2>1. /\ Pending(r, c) /\ state[r][c].attempts <= High /\ state[r][c].attempts \in Nat
        /\ seen.attempts <= Low \/ seen.attempts <= state[r][c].attempts
    BY <1>2, <1>3, StateFacts DEF StoreOK, Pending
  <2> QED
    BY <1>3, <1>7, <2>1
<1>11. StoreOK'
  <2>1. CompletionIsBacked' /\ journals' \subseteq receipts'
    BY <1>1, <1>2, <1>5, <1>8, ConstantsStay DEF StoreOK, CompletionIsBacked, Complete
  <2>2. ASSUME NEW s \in Records, NEW d \in Consumers
        PROVE  state'[s][d].attempts <= High'
    <3>1. state[s][d].attempts <= High /\ state[s][d].attempts \in Nat
      BY <1>2, StateFacts DEF StoreOK
    <3> QED
      BY <1>3, <1>5, <1>7, <1>8, <1>10, <3>1
  <2> QED
    BY <1>1, <2>1, <2>2, ConstantsStay DEF StoreOK, Pending
<1>12. ASSUME NEW q \in Procs PROVE CallOK(q)'
  <2> DEFINE t == task[q]
  <2>1. CallOK(q)
    BY DEF IInv
  <2>2. CASE t.at \in {"idle", "admit"}
    BY <1>1, <2>2, AtRest DEF history
  <2>3. CASE t.at \notin {"idle", "admit"}
    <3>1. t.r \in Records /\ t.c \in Consumers
      BY <1>2, <2>3, TaskFacts
    <3>2. Held(q)'
      BY <1>1, <2>1 DEF CallOK, Held, Working, Fenced
    <3>3. Owned(q)'
      BY <1>1, <1>5, <1>8, <2>1, <3>1
         DEF CallOK, Owned, Works, HasPrior, Working, Complete, Operation
    <3>4. /\ t.seen.attempts \in Nat /\ t.prior.attempts \in Nat
          /\ state[t.r][t.c].attempts \in Nat
      BY <1>2, <2>3, <3>1, TaskFacts, StateFacts DEF AnyState
    <3>5. /\ t.at \in {"fail_write", "write"} => t.seen.attempts <= Low'
          /\ HasPrior(q) => t.prior.attempts <= Low'
      BY <1>7, <2>1, <3>4 DEF CallOK, Counted
    <3>6. ASSUME Works(q) \/ HasPrior(q)
          PROVE  Complete(t.r, t.c)' \/ state'[t.r][t.c].attempts <= Low'
      <4>1. CASE t.r = r /\ t.c = c
        <5>1. seen.attempts <= Low
          BY <1>3, <2>1, <3>6, <4>1 DEF CallOK, Counted, Pending
        <5> QED
          BY <1>3, <1>5, <1>7, <1>8, <4>1, <5>1
      <4>2. CASE <<t.r, t.c>> # <<r, c>>
        <5>1. state'[t.r][t.c] = state[t.r][t.c]
          BY <1>8, <3>1, <4>2
        <5>2. Complete(t.r, t.c) \/ state[t.r][t.c].attempts <= Low
          BY <2>1, <3>6 DEF CallOK, Counted
        <5> QED
          BY <1>1, <1>7, <3>4, <5>1, <5>2 DEF Complete
      <4> QED
        BY <4>1, <4>2
    <3>7. Counted(q)'
      BY <1>1, <3>5, <3>6 DEF Counted, Works, HasPrior, Working, Complete, Pending, Idle
    <3> QED
      BY <3>2, <3>3, <3>7 DEF CallOK
  <2> QED
    BY <2>2, <2>3
<1> QED
  BY <1>9, <1>11, <1>12 DEF IInv

-----------------------------------------------------------------------------
(* The invariant.                                                          *)

LEMMA InitOK == Init => IInv
<1> SUFFICES ASSUME Init PROVE IInv
  OBVIOUS
<1>1. Missing \in AnyState /\ Missing.status = "missing" /\ Missing.attempts = 0
  BY ReconcileConstants DEF Missing, AnyState
<1>2. state \in [Records -> [Consumers -> AnyState]]
  BY <1>1 DEF Init
<1>3. 1 \in Records /\ 0 \in 0..MaxProgress /\ 0 \in 0..MaxCrashes
  BY ReconcileConstants DEF Records
<1>4. TypesOK
  BY <1>2, <1>3 DEF Init, TypesOK
<1>5. StoreOK
  <2>1. High \in Nat
    BY ReconcileConstants DEF Init, High, Done
  <2> QED
    BY <1>1, <2>1 DEF Init, StoreOK, CompletionIsBacked, Complete, Pending
<1>6. ASSUME NEW p \in Procs PROVE CallOK(p)
  <2>1. task[p].at = "idle"
    BY DEF Init, Idle
  <2> QED
    BY <2>1 DEF CallOK, Held, Owned, Counted, Works, HasPrior, Working, Fenced
<1> QED
  BY <1>4, <1>5, <1>6 DEF IInv

LEMMA StepOK == IInv /\ [Next]_vars => IInv'
<1> SUFFICES ASSUME IInv, [Next]_vars PROVE IInv'
  OBVIOUS
<1>1. CASE Publish
  BY <1>1, PublishStep
<1>2. ASSUME NEW p \in Procs, NEW c \in Consumers, Plan(p, c) PROVE IInv'
  BY <1>2, PlanStep
<1>3. ASSUME NEW p \in Procs, Reconcile(p) PROVE IInv'
  <2>1. CASE Admit(p) \/ Denied(p) \/ Locked(p)
    BY <2>1, AdmitStep, DeniedStep, LockedStep
  <2>2. CASE HandlerCommits(p) \/ HandlerFails(p) \/ PersistJournal(p)
    BY <2>2, HandlerCommitsStep, HandlerFailsStep, PersistJournalStep
  <2>3. CASE ReadState(p) \/ WriteFailed(p) \/ TakeFence(p)
    BY <2>3, ReadStateStep, WriteFailedStep, TakeFenceStep
  <2>4. CASE WriteComplete(p) \/ Verify(p) \/ Recheck(p) \/ Retire(p)
    BY <2>4, WriteCompleteStep, VerifyStep, RecheckStep, RetireStep
  <2> QED
    BY <1>3, <2>1, <2>2, <2>3, <2>4 DEF Reconcile
<1>4. ASSUME NEW p \in Procs, Crash(p) PROVE IInv'
  BY <1>4, CrashStep
<1>5. ASSUME NEW c \in Consumers, ReadForProgress(c) PROVE IInv'
  BY <1>5, ReadForProgressStep
<1>6. CASE WriteProgress
  BY <1>6, WriteProgressStep
<1>7. CASE Sweep
  BY <1>7, SweepStep
<1>8. CASE UNCHANGED vars
  <2>1. TypesOK /\ retired' = retired /\ sweep' = sweep
    BY <1>8 DEF IInv, vars, files
  <2> QED
    BY <1>8, <2>1, RetiredStays DEF vars, files, TypesOK
<1> QED
  BY <1>1, <1>2, <1>3, <1>4, <1>5, <1>6, <1>7, <1>8 DEF Next

\* Whoever reconciles, publishes, writes progress, sweeps or dies at any moment:
\* the store is backed and bounded, and the call that has the lock knows its
\* operation.
THEOREM Invariant == Spec => []IInv
<1> QED
  BY InitOK, StepOK, PTL DEF Spec

\* What a call has read stays within the bound of the counters, which only grows.
SeenOK ==
    \A p \in Procs :
        task[p].at # "idle" =>
            task[p].seen.attempts <= High /\ task[p].prior.attempts <= High

\* A call is planned, goes on or is over; it reads nothing but the state of its
\* consumer, only a completion leads to its
\* verification and only a recheck that finds all complete to a retirement.
LEMMA CallMoves ==
  ASSUME TypesOK, [Next]_vars, NEW q \in Procs
  PROVE  \/ task'[q] = task[q]
         \/ task'[q].at = "idle"
         \/ \E c \in Consumers : Plan(q, c)
         \/ /\ task[q].at # "idle"
            /\ task'[q].completes = task[q].completes
            /\ task'[q].r = task[q].r /\ task'[q].c = task[q].c
            /\ {task'[q].seen, task'[q].prior}
                 \subseteq {task[q].seen, task[q].prior, state[task[q].r][task[q].c]}
            /\ task'[q].at = "verify" => WriteComplete(q)
            /\ task'[q].at = "retire" =>
                 Recheck(q) /\ AllComplete(task[q].r) /\ task'[q].by = Receipts(task[q].r)
<1> DEFINE Goal == \/ task'[q] = task[q]
                   \/ task'[q].at = "idle"
                   \/ \E c \in Consumers : Plan(q, c)
                   \/ /\ task[q].at # "idle"
                      /\ task'[q].completes = task[q].completes
                      /\ task'[q].r = task[q].r /\ task'[q].c = task[q].c
                      /\ {task'[q].seen, task'[q].prior}
                           \subseteq {task[q].seen, task[q].prior,
                                      state[task[q].r][task[q].c]}
                      /\ task'[q].at = "verify" => WriteComplete(q)
                      /\ task'[q].at = "retire" =>
                           /\ Recheck(q) /\ AllComplete(task[q].r)
                           /\ task'[q].by = Receipts(task[q].r)
<1>1. ASSUME UNCHANGED task PROVE Goal
  BY <1>1
<1>2. ASSUME NEW p \in Procs, NEW c \in Consumers, Plan(p, c) PROVE Goal
  BY <1>2 DEF Plan, TypesOK
<1>3. ASSUME NEW p \in Procs, Release(p) PROVE Goal
  BY <1>3, ReleaseFacts
<1>4. ASSUME NEW p \in Procs, task[p].at # "idle",
             NEW step \in TaskSteps \ {"idle", "verify", "retire"}, Goto(p, step)
      PROVE  Goal
  BY <1>4, GotoFacts
<1>5. ASSUME NEW p \in Procs, WriteComplete(p) PROVE Goal
  <2>1. task[p].at # "idle" /\ Goto(p, "verify")
    BY <1>5 DEF WriteComplete, At
  <2>2. /\ task'[p].at = "verify"
        /\ task'[p].completes = task[p].completes
        /\ task'[p].r = task[p].r /\ task'[p].c = task[p].c
        /\ task'[p].seen = task[p].seen /\ task'[p].prior = task[p].prior
        /\ \A r \in Procs \ {p} : task'[r] = task[r]
    BY <2>1, GotoFacts DEF TaskSteps
  <2> QED
    BY <1>5, <2>1, <2>2
<1>6. ASSUME NEW p \in Procs, Reconcile(p) PROVE Goal
  <2> HIDE DEF Goal
  <2>1. CASE Admit(p) \/ HandlerCommits(p) \/ HandlerFails(p)
    BY <1>4, <2>1 DEF Admit, HandlerCommits, HandlerFails, At, TaskSteps
  <2>2. CASE Denied(p) \/ WriteFailed(p) \/ Retire(p)
    BY <1>3, <2>2 DEF Denied, WriteFailed, Retire
  <2>3. CASE Locked(p) \/ PersistJournal(p) \/ Verify(p)
    BY <1>3, <1>4, <2>3 DEF Locked, PersistJournal, Verify, RestorePrior, At, TaskSteps
  <2>4. CASE ReadState(p) \/ TakeFence(p) \/ Recheck(p)
    <3>1. task[p].at # "idle" /\ task[p] \in Tasks
      BY <2>4, TaskFacts DEF ReadState, TakeFence, Recheck, At
    <3>2. CASE ReadState(p)
      <4> DEFINE x == [task[p] EXCEPT !.seen = state[task[p].r][task[p].c],
                                      !.at = IF @ = "fail" THEN "fail_write" ELSE "write"]
      <4>1. /\ x.at \in {"fail_write", "write"} /\ x.completes = task[p].completes
            /\ x.r = task[p].r /\ x.c = task[p].c
            /\ x.seen = state[task[p].r][task[p].c] /\ x.prior = task[p].prior
        BY <3>1 DEF Tasks
      <4>2. task'[p] = x /\ \A r \in Procs \ {p} : task'[r] = task[r]
        BY <3>2 DEF ReadState, TypesOK
      <4> HIDE DEF x
      <4> QED
        BY <3>1, <4>1, <4>2 DEF Goal
    <3>3. CASE TakeFence(p)
      <4> DEFINE x == [task[p] EXCEPT !.prior = state[task[p].r][task[p].c],
                                      !.at = IF task[p].completes THEN "read" ELSE "recheck"]
      <4>1. /\ x.at \in {"read", "recheck"} /\ x.completes = task[p].completes
            /\ x.r = task[p].r /\ x.c = task[p].c
            /\ x.prior = state[task[p].r][task[p].c] /\ x.seen = task[p].seen
        BY <3>1 DEF Tasks
      <4>2. \/ Release(p)
            \/ task'[p] = x /\ \A r \in Procs \ {p} : task'[r] = task[r]
        BY <3>3 DEF TakeFence, TypesOK
      <4> HIDE DEF x
      <4>3. CASE task'[p] = x /\ \A r \in Procs \ {p} : task'[r] = task[r]
        BY <3>1, <4>1, <4>3 DEF Goal
      <4> QED
        BY <1>3, <4>2, <4>3
    <3>4. CASE Recheck(p)
      <4> DEFINE x == [task[p] EXCEPT !.by = Receipts(task[p].r), !.at = "retire"]
      <4>1. /\ x.at = "retire" /\ x.by = Receipts(task[p].r)
            /\ x.completes = task[p].completes /\ x.r = task[p].r /\ x.c = task[p].c
            /\ x.seen = task[p].seen /\ x.prior = task[p].prior
        BY <3>1 DEF Tasks
      <4>2. \/ Release(p)
            \/ /\ task'[p] = x /\ AllComplete(task[p].r)
               /\ \A r \in Procs \ {p} : task'[r] = task[r]
        BY <3>4 DEF Recheck, RestorePrior, TypesOK
      <4> HIDE DEF x
      <4>3. CASE /\ task'[p] = x /\ AllComplete(task[p].r)
                 /\ \A r \in Procs \ {p} : task'[r] = task[r]
        BY <3>1, <3>4, <4>1, <4>3 DEF Goal
      <4> QED
        BY <1>3, <4>2, <4>3
    <3> QED
      BY <2>4, <3>2, <3>3, <3>4
  <2> QED
    BY <1>5, <1>6, <2>1, <2>2, <2>3, <2>4 DEF Reconcile
<1> HIDE DEF Goal
<1>7. ASSUME NEW p \in Procs, Crash(p) PROVE Goal
  BY <1>3, <1>7 DEF Crash
<1>8. \/ UNCHANGED task
      \/ \E p \in Procs : (\E c \in Consumers : Plan(p, c)) \/ Reconcile(p) \/ Crash(p)
  BY DEF Next, Publish, ReadForProgress, WriteProgress, Sweep, SweepStatus, SweepExists,
     SweepWrite, vars
<1>9. Goal
  BY <1>1, <1>2, <1>6, <1>7, <1>8
<1> QED
  BY <1>9 DEF Goal

LEMMA HighGrows ==
  ASSUME TypesOK, [Next]_vars
  PROVE  High \in Nat /\ High' \in Nat /\ High <= High'
<1>1. written \in Nat /\ MaxAttempts \in Nat /\ (progress # Idle => written > 0)
  BY ReconcileConstants DEF TypesOK
<1>2. \/ UNCHANGED <<progress, written>>
      \/ \E c \in Consumers : ReadForProgress(c)
      \/ WriteProgress
  <2>1. ASSUME NEW p \in Procs, Reconcile(p) PROVE UNCHANGED <<progress, written>>
    BY <2>1 DEF Reconcile, Admit, Denied, Locked, HandlerCommits, HandlerFails, ReadState,
       WriteFailed, PersistJournal, TakeFence, WriteComplete, Verify, Recheck, Retire, history
  <2> QED
    BY <2>1 DEF Next, Publish, Plan, Crash, Sweep, SweepStatus, SweepExists, SweepWrite,
       vars, history
<1>3. CASE UNCHANGED <<progress, written>>
  BY <1>1, <1>3 DEF High, Done, Idle
<1>4. CASE \E c \in Consumers : ReadForProgress(c)
  BY <1>1, <1>4 DEF ReadForProgress, High, Done, Idle
<1>5. CASE WriteProgress
  BY <1>1, <1>5 DEF WriteProgress, High, Done, Idle, history
<1> QED
  BY <1>2, <1>3, <1>4, <1>5

LEMMA SeenStep == IInv /\ IInv' /\ SeenOK /\ [Next]_vars => SeenOK'
<1> SUFFICES ASSUME IInv, IInv', SeenOK, [Next]_vars,
                    NEW q \in Procs, task'[q].at # "idle"
             PROVE  task'[q].seen.attempts <= High' /\ task'[q].prior.attempts <= High'
  BY DEF SeenOK
<1>1. TypesOK /\ StoreOK /\ TypesOK'
  BY DEF IInv
<1>2. High \in Nat /\ High' \in Nat /\ High <= High'
  BY <1>1, HighGrows
<1>3. {task'[q].seen, task'[q].prior} \subseteq AnyState
  BY <1>1, ConstantsStay DEF TypesOK, Tasks, Idle
<1>4. \A s \in AnyState : s.attempts <= High => s.attempts <= High'
  BY <1>2 DEF AnyState
<1>5. Missing.attempts <= High
  BY <1>2 DEF Missing
<1>6. CASE task[q].at # "idle"
  <2>1. state[task[q].r][task[q].c].attempts <= High
    BY <1>1, <1>6, TaskFacts DEF StoreOK
  <2>2. task[q].seen.attempts <= High /\ task[q].prior.attempts <= High
    BY <1>6 DEF SeenOK
  <2>3. \/ task'[q] = task[q]
        \/ {task'[q].seen, task'[q].prior}
             \subseteq {task[q].seen, task[q].prior, state[task[q].r][task[q].c]}
    BY <1>1, <1>6, CallMoves DEF Plan, At
  <2>4. task'[q].seen.attempts <= High /\ task'[q].prior.attempts <= High
    BY <2>1, <2>2, <2>3
  <2> QED
    BY <1>3, <1>4, <2>4
<1>7. CASE task[q].at = "idle"
  <2>1. task'[q].seen = Missing /\ task'[q].prior = Missing
    BY <1>1, <1>7, CallMoves DEF Plan, TypesOK
  <2> QED
    BY <1>3, <1>4, <1>5, <2>1
<1> QED
  BY <1>6, <1>7

\* The variables have their types; in particular the attempt counter, which
\* progress writers and the reconcile route share and may both set back, never
\* passes the attempts granted by more than the progress writes made.
THEOREM TypeCorrect == Spec => []TypeOK
<1>1. IInv /\ SeenOK => TypeOK
  <2> SUFFICES ASSUME IInv, SeenOK PROVE TypeOK
    OBVIOUS
  <2>1. TypesOK /\ StoreOK
    BY DEF IInv
  <2>2. Done \in Nat /\ Done <= MaxProgress
    BY <2>1, ReconcileConstants DEF Done, TypesOK
  <2>3. \A s \in AnyState : s.attempts <= High => s \in States
    BY <2>2, ReconcileConstants DEF AnyState, States, High
  <2>4. state \in [Records -> [Consumers -> States]]
    BY <2>1, <2>3 DEF TypesOK, StoreOK
  <2>5. ASSUME NEW p \in Procs
        PROVE  /\ task[p].at \in TaskSteps
               /\ ~At(p, "idle") => /\ Operation(task[p]) \in Operations
                                    /\ task[p].seen \in States
                                    /\ task[p].prior \in States
    <3>1. CASE task[p].at = "idle"
      BY <3>1 DEF At, TaskSteps
    <3>2. CASE task[p].at # "idle"
      BY <2>1, <2>3, <3>2, TaskFacts DEF SeenOK
    <3> QED
      BY <3>1, <3>2
  <2> QED
    BY <2>1, <2>4, <2>5 DEF TypesOK, TypeOK
<1>2. Init => SeenOK
  BY DEF Init, SeenOK, Idle
<1>3. IInv /\ IInv' /\ SeenOK /\ [Next]_vars => SeenOK'
  BY SeenStep
<1> QED
  BY <1>1, <1>2, <1>3, Invariant, PTL DEF Spec

-----------------------------------------------------------------------------
(* Receipts and completions.                                               *)

\* Only the commit of a handler adds a receipt, and counts.
LEMMA ReceiptsMove ==
  ASSUME [Next]_vars
  PROVE  \/ UNCHANGED <<receipts, runs>>
         \/ \E p \in Procs : HandlerCommits(p)
<1>1. ASSUME NEW p \in Procs, Reconcile(p), ~HandlerCommits(p)
      PROVE  UNCHANGED <<receipts, runs>>
  BY <1>1 DEF Reconcile, Admit, Denied, Locked, HandlerFails, ReadState, WriteFailed,
     PersistJournal, TakeFence, WriteComplete, Verify, Recheck, Retire, files, history
<1> QED
  BY <1>1 DEF Next, Publish, Plan, Crash, ReadForProgress, WriteProgress, Sweep, SweepStatus,
     SweepExists, SweepWrite, vars, files, history

Attempts(r, c) == {a \in 1..MaxAttempts : <<r, c, a>> \in receipts}

LEMMA CommitStep ==
  IInv /\ OneCommitPerOperation /\ [Next]_vars => OneCommitPerOperation'
<1> SUFFICES ASSUME IInv, OneCommitPerOperation, [Next]_vars,
                    NEW r \in Records, NEW c \in Consumers
             PROVE  runs'[r][c] = Cardinality(Attempts(r, c)')
  BY ConstantsStay DEF OneCommitPerOperation, Attempts
<1>1. runs[r][c] = Cardinality(Attempts(r, c))
  BY DEF OneCommitPerOperation, Attempts
<1>2. CASE UNCHANGED <<receipts, runs>>
  <2>1. Attempts(r, c)' = Attempts(r, c)
    BY <1>2 DEF Attempts
  <2> QED
    BY <1>1, <1>2, <2>1
<1>3. ASSUME NEW p \in Procs, HandlerCommits(p)
      PROVE  runs'[r][c] = Cardinality(Attempts(r, c)')
  <2> DEFINE t == task[p]
  <2>1. /\ t.at = "handle" /\ receipts' = receipts \union {Operation(t)}
        /\ runs' = [runs EXCEPT ![t.r][t.c] = @ + 1]
    BY <1>3 DEF HandlerCommits, At
  <2>2. TypesOK /\ CallOK(p)
    BY DEF IInv
  <2>3. /\ t.r \in Records /\ t.c \in Consumers /\ t.a \in 1..MaxAttempts
        /\ Operation(t) \notin receipts
    BY <2>1, <2>2, TaskFacts DEF CallOK, Owned
  <2>4. CASE t.r = r /\ t.c = c
    <3>1. t.a \notin Attempts(r, c) /\ Attempts(r, c)' = Attempts(r, c) \union {t.a}
      BY <2>1, <2>3, <2>4 DEF Attempts, Operation
    <3>2. IsFiniteSet(Attempts(r, c))
      <4>1. IsFiniteSet(1..MaxAttempts)
        BY FS_Interval, ReconcileConstants
      <4>2. Attempts(r, c) \subseteq 1..MaxAttempts
        BY DEF Attempts
      <4> QED
        BY <4>1, <4>2, FS_Subset
    <3>3. Cardinality(Attempts(r, c)') = Cardinality(Attempts(r, c)) + 1
      BY <3>1, <3>2, FS_AddElement
    <3>4. runs'[r][c] = runs[r][c] + 1
      BY <2>1, <2>2, <2>4 DEF TypesOK
    <3> QED
      BY <1>1, <3>3, <3>4
  <2>5. CASE ~(t.r = r /\ t.c = c)
    <3>1. Attempts(r, c)' = Attempts(r, c)
      BY <2>1, <2>5 DEF Attempts, Operation
    <3>2. runs'[r][c] = runs[r][c]
      BY <2>1, <2>2, <2>3, <2>5 DEF TypesOK
    <3> QED
      BY <1>1, <3>1, <3>2
  <2> QED
    BY <2>4, <2>5
<1> QED
  BY <1>2, <1>3, ReceiptsMove

LEMMA NoCommitsAtFirst == Init => OneCommitPerOperation
<1> SUFFICES ASSUME Init, NEW r \in Records, NEW c \in Consumers
             PROVE  runs[r][c] = Cardinality({a \in 1..MaxAttempts : <<r, c, a>> \in receipts})
  BY DEF OneCommitPerOperation
<1>1. {a \in 1..MaxAttempts : <<r, c, a>> \in receipts} = {}
  BY DEF Init
<1> QED
  BY <1>1, FS_EmptySet DEF Init

\* Each execution of a handler that has committed has an operation of its own:
\* no crash, no second caller and no counter set back makes one run twice.
THEOREM CommitsOnce == Spec => []OneCommitPerOperation
<1> QED
  BY NoCommitsAtFirst, CommitStep, Invariant, PTL DEF Spec

\* Whatever a complete consumer's state says was executed is in the receipts and
\* in the journals.
THEOREM CompletionsAreBacked == Spec => []CompletionIsBacked
<1>1. IInv => CompletionIsBacked
  BY DEF IInv, StoreOK
<1> QED
  BY <1>1, Invariant, PTL

-----------------------------------------------------------------------------
(* What a step may do to a consumer's state and to a retirement file.      *)

\* The write of a failure, of a completion, of the prior state, of progress.
Fails(p, r, c) ==
    /\ task[p].at = "fail_write" /\ task[p].r = r /\ task[p].c = c
    /\ WriteFailed(p)
    /\ state'[r][c].status = "failed_retryable"
    /\ state'[r][c].attempts = task[p].seen.attempts + 1

Completes(p, r, c) ==
    /\ task[p].at = "write" /\ task[p].r = r /\ task[p].c = c
    /\ WriteComplete(p)
    /\ state'[r][c].status = "complete"
    /\ state'[r][c].receipt = task[p].a
    /\ state'[r][c].attempts = task[p].seen.attempts + 1

TakesBack(p, r, c) ==
    /\ HasPrior(p) /\ task[p].r = r /\ task[p].c = c
    /\ Verify(p) \/ Recheck(p)
    /\ RestorePrior(p)
    /\ state'[r][c] = task[p].prior

Progresses(r, c) ==
    /\ WriteProgress
    /\ state'[r][c].status = "progress"

LEMMA StateMoves ==
  ASSUME [Next]_vars
  PROVE  \/ UNCHANGED state
         \/ \E p \in Procs : \/ WriteFailed(p) \/ WriteComplete(p)
                             \/ (Verify(p) \/ Recheck(p)) /\ RestorePrior(p)
         \/ WriteProgress
<1>1. ASSUME NEW p \in Procs, Reconcile(p)
      PROVE  \/ UNCHANGED state
             \/ WriteFailed(p) \/ WriteComplete(p)
             \/ (Verify(p) \/ Recheck(p)) /\ RestorePrior(p)
  <2>1. CASE Verify(p)
    BY <2>1 DEF Verify
  <2>2. CASE Recheck(p)
    BY <2>2 DEF Recheck
  <2> QED
    BY <1>1, <2>1, <2>2 DEF Reconcile, Admit, Denied, Locked, HandlerCommits, HandlerFails,
       ReadState, PersistJournal, TakeFence, Retire, files
<1> QED
  BY <1>1 DEF Next, Publish, Plan, Crash, ReadForProgress, Sweep, SweepStatus, SweepExists,
     SweepWrite, vars, files

LEMMA StateChanges ==
  ASSUME IInv, [Next]_vars, NEW r \in Records, NEW c \in Consumers
  PROVE  \/ state'[r][c] = state[r][c]
         \/ \E p \in Procs : Fails(p, r, c) \/ Completes(p, r, c) \/ TakesBack(p, r, c)
         \/ Progresses(r, c)
<1>1. TypesOK /\ StoreOK
  BY DEF IInv
<1>2. CASE UNCHANGED state
  BY <1>2
<1>3. ASSUME NEW p \in Procs, WriteFailed(p)
      PROVE  state'[r][c] = state[r][c] \/ Fails(p, r, c)
  <2> DEFINE t == task[p]
             v == Rewritten(t.seen, "failed_retryable", 0)
  <2>1. t.at = "fail_write" /\ state' = [state EXCEPT ![t.r][t.c] = v]
    BY <1>3 DEF WriteFailed, At
  <2>2. t.r \in Records /\ t.c \in Consumers /\ t.seen \in AnyState
    BY <1>1, <2>1, TaskFacts
  <2>3. t.seen.status # "complete"
    BY <2>1 DEF IInv, CallOK, Owned
  <2>4. v \in AnyState /\ v.status = "failed_retryable" /\ v.attempts = t.seen.attempts + 1
    BY <2>2, <2>3, RewrittenFacts, ReconcileConstants
  <2> HIDE DEF v
  <2>5. state'[r][c] = IF t.r = r /\ t.c = c THEN v ELSE state[r][c]
    BY <1>1, <2>1, <2>2 DEF TypesOK
  <2> QED
    BY <1>3, <2>1, <2>4, <2>5 DEF Fails
<1>4. ASSUME NEW p \in Procs, WriteComplete(p)
      PROVE  state'[r][c] = state[r][c] \/ Completes(p, r, c)
  <2> DEFINE t == task[p]
             v == Rewritten(t.seen, "complete", t.a)
  <2>1. t.at = "write" /\ state' = [state EXCEPT ![t.r][t.c] = v]
    BY <1>4 DEF WriteComplete, At
  <2>2. /\ t.r \in Records /\ t.c \in Consumers /\ t.seen \in AnyState
        /\ t.a \in 1..MaxAttempts
    BY <1>1, <2>1, TaskFacts
  <2>3. t.seen.status # "complete"
    BY <2>1 DEF IInv, CallOK, Owned
  <2>4. v \in AnyState /\ v.status = "complete" /\ v.attempts = t.seen.attempts + 1
        /\ v.receipt = t.a
    BY <2>2, <2>3, RewrittenFacts
  <2> HIDE DEF v
  <2>5. state'[r][c] = IF t.r = r /\ t.c = c THEN v ELSE state[r][c]
    BY <1>1, <2>1, <2>2 DEF TypesOK
  <2> QED
    BY <1>4, <2>1, <2>4, <2>5 DEF Completes
<1>5. ASSUME NEW p \in Procs, Verify(p) \/ Recheck(p), RestorePrior(p)
      PROVE  state'[r][c] = state[r][c] \/ TakesBack(p, r, c)
  <2> DEFINE t == task[p]
  <2>1. t.at \in {"verify", "recheck"}
    BY <1>5 DEF Verify, Recheck, At
  <2>2. t.r \in Records /\ t.c \in Consumers /\ t.prior \in AnyState
    BY <1>1, <2>1, TaskFacts
  <2>3. CASE t.completes
    <3>1. state' = [state EXCEPT ![t.r][t.c] = t.prior]
      BY <1>5, <2>3 DEF RestorePrior
    <3>2. state'[r][c] = IF t.r = r /\ t.c = c THEN t.prior ELSE state[r][c]
      BY <1>1, <2>2, <3>1 DEF TypesOK
    <3> QED
      BY <1>5, <2>1, <2>3, <3>2 DEF TakesBack, HasPrior
  <2>4. CASE ~t.completes
    BY <1>5, <2>4 DEF RestorePrior
  <2> QED
    BY <2>3, <2>4
<1>6. CASE WriteProgress
  <2> DEFINE t == progress
             v == Rewritten(t.seen, "progress", 0)
  <2>1. t.at = "write" /\ state' = [state EXCEPT ![t.r][t.c] = v]
    BY <1>6 DEF WriteProgress
  <2>2. t.r \in Records /\ t.c \in Consumers /\ t.seen \in AnyState /\ t # Idle
    BY <1>1, <2>1 DEF TypesOK, Idle, ProgressTasks
  <2>3. t.seen.status # "complete"
    BY <1>1, <2>2 DEF StoreOK
  <2>4. v \in AnyState /\ v.status = "progress"
    BY <2>2, <2>3, RewrittenFacts, ReconcileConstants
  <2> HIDE DEF v
  <2>5. state'[r][c] = IF t.r = r /\ t.c = c THEN v ELSE state[r][c]
    BY <1>1, <2>1, <2>2 DEF TypesOK
  <2> QED
    BY <1>6, <2>4, <2>5 DEF Progresses
<1> QED
  BY <1>2, <1>3, <1>4, <1>5, <1>6, StateMoves

LEMMA RetiredMoves ==
  ASSUME [Next]_vars
  PROVE  UNCHANGED retired \/ (\E p \in Procs : Retire(p)) \/ SweepWrite
<1>1. ASSUME NEW p \in Procs, Reconcile(p), ~Retire(p)
      PROVE  UNCHANGED retired
  BY <1>1 DEF Reconcile, Admit, Denied, Locked, HandlerCommits, HandlerFails, ReadState,
     WriteFailed, PersistJournal, TakeFence, WriteComplete, Verify, Recheck, files
<1> QED
  BY <1>1 DEF Next, Publish, Plan, Crash, ReadForProgress, WriteProgress, Sweep, SweepStatus,
     SweepExists, vars, files

\* A consumer is completed, and a record retired by the targeted route, for the
\* current publication only: the fence keeps the next one away until the call
\* has returned.
THEOREM WritesAreFenced == Spec => FencedWrites
<1> DEFINE A == \A r \in Records :
                  \/ \E c \in Consumers : ~Complete(r, c) /\ Complete(r, c)'
                  \/ retired'[r] # retired[r] /\ retired'[r].form = "targeted"
                  => r = pub
<1>1. IInv /\ [Next]_vars => A
  <2> SUFFICES ASSUME IInv, [Next]_vars, NEW r \in Records PROVE
                 /\ (\E c \in Consumers : ~Complete(r, c) /\ Complete(r, c)') => r = pub
                 /\ retired'[r] # retired[r] /\ retired'[r].form = "targeted" => r = pub
    OBVIOUS
  <2>1. TypesOK
    BY DEF IInv
  <2>2. ASSUME NEW c \in Consumers, ~Complete(r, c), Complete(r, c)'
        PROVE  r = pub
    <3>1. state'[r][c].status = "complete" /\ state'[r][c] # state[r][c]
      BY <2>2 DEF Complete
    <3>2. PICK p \in Procs : Completes(p, r, c) \/ TakesBack(p, r, c)
      BY <3>1, StateChanges DEF Fails, Progresses
    <3>3. ~TakesBack(p, r, c)
      BY <3>1 DEF TakesBack, IInv, CallOK, Owned
    <3> QED
      BY <3>2, <3>3 DEF Completes, IInv, CallOK, Held, Fenced
  <2>3. ASSUME retired'[r] # retired[r], retired'[r].form = "targeted"
        PROVE  r = pub
    <3>1. CASE SweepWrite
      <4>1. sweep \in SweepTasks
        BY <2>1, <3>1 DEF SweepWrite, TypesOK, Idle
      <4>2. retired' = [retired EXCEPT ![sweep.r] = [form |-> "terminal", by |-> sweep.by]]
        BY <3>1 DEF SweepWrite
      <4> QED
        BY <2>1, <2>3, <4>1, <4>2 DEF TypesOK, SweepTasks
    <3>2. ASSUME NEW p \in Procs, Retire(p) PROVE r = pub
      <4>1. task[p].at = "retire" /\ retired' = [retired EXCEPT ![task[p].r] =
                                                  [form |-> "targeted", by |-> task[p].by]]
        BY <3>2 DEF Retire, At
      <4>2. task[p].r = pub
        BY <4>1 DEF IInv, CallOK, Held, Fenced
      <4> QED
        BY <2>1, <2>3, <4>1, <4>2 DEF TypesOK
    <3> QED
      BY <2>3, <3>1, <3>2, RetiredMoves
  <2> QED
    BY <2>2, <2>3
<1> QED
  BY <1>1, Invariant, PTL DEF Spec, FencedWrites

-----------------------------------------------------------------------------
(* One run of a consumer's handler, while no progress is written.          *)

LEMMA NoWriter ==
  ASSUME NoProgress, TypesOK
  PROVE  progress = Idle /\ ~WriteProgress /\ \A c : ~ReadForProgress(c)
BY DEF NoProgress, TypesOK, WriteProgress, ReadForProgress, Idle

LEMMA OneReceiptStep ==
  ASSUME NoProgress, IInv, OneRunInv, [Next]_vars
  PROVE  OneReceipt'
<1> SUFFICES ASSUME NEW r \in Records, NEW c \in Consumers, NEW a \in 1..MaxAttempts,
                    <<r, c, a>> \in receipts'
             PROVE  a = IF Complete(r, c)' THEN state'[r][c].receipt
                        ELSE state'[r][c].attempts + 1
  BY ConstantsStay DEF OneReceipt
<1>1. TypesOK
  BY DEF IInv
<1>2. ASSUME NEW p \in Procs, HandlerCommits(p)
      PROVE  a = IF Complete(r, c)' THEN state'[r][c].receipt
                 ELSE state'[r][c].attempts + 1
  <2> DEFINE t == task[p]
  <2>1. t.at = "handle" /\ receipts' = receipts \union {Operation(t)} /\ UNCHANGED state
    BY <1>2 DEF HandlerCommits, At
  <2>2. CASE <<r, c, a>> \in receipts
    BY <2>1, <2>2 DEF OneRunInv, OneReceipt, Complete
  <2>3. CASE <<r, c, a>> = Operation(t)
    <3>1. t.r = r /\ t.c = c /\ t.a = a
      BY <2>3 DEF Operation
    <3>2. ~Complete(r, c) /\ Works(p)
      BY <2>1, <3>1 DEF IInv, CallOK, Held, Owned, Works, Working
    <3>3. state[r][c].attempts + 1 = a
      BY <3>1, <3>2 DEF OneRunInv, OwnAttempt
    <3> QED
      BY <2>1, <3>2, <3>3 DEF Complete
  <2> QED
    BY <2>1, <2>2, <2>3
<1>3. CASE UNCHANGED receipts
  <2>1. a = IF Complete(r, c) THEN state[r][c].receipt ELSE state[r][c].attempts + 1
    BY <1>3 DEF OneRunInv, OneReceipt
  <2>2. CASE state'[r][c] = state[r][c]
    BY <2>1, <2>2 DEF Complete
  <2>3. ASSUME NEW p \in Procs, Fails(p, r, c) PROVE FALSE
    <3>1. ~Complete(r, c) /\ Works(p) /\ <<r, c, task[p].a>> \notin receipts
      BY <2>3 DEF Fails, IInv, CallOK, Held, Owned, Works, Working, Operation
    <3>2. state[r][c].attempts + 1 = task[p].a
      BY <2>3, <3>1 DEF Fails, OneRunInv, OwnAttempt
    <3> QED
      BY <1>3, <2>1, <3>1, <3>2
  <2>4. ASSUME NEW p \in Procs, Completes(p, r, c)
        PROVE  Complete(r, c)' /\ a = state'[r][c].receipt
    <3>1. ~Complete(r, c) /\ Works(p)
      BY <2>4 DEF Completes, IInv, CallOK, Held, Owned, Works, Working
    <3>2. state[r][c].attempts + 1 = task[p].a
      BY <2>4, <3>1 DEF Completes, OneRunInv, OwnAttempt
    <3> QED
      BY <2>1, <2>4, <3>1, <3>2 DEF Completes, Complete
  <2>5. ASSUME NEW p \in Procs, TakesBack(p, r, c)
        PROVE  ~Complete(r, c)' /\ a = state'[r][c].attempts + 1
    <3>1. /\ HasPrior(p) /\ task[p].r = r /\ task[p].c = c /\ state'[r][c] = task[p].prior
          /\ task[p].at # "idle"
      BY <2>5 DEF TakesBack, HasPrior
    <3>2. task[p].a \in 1..MaxAttempts
      BY <1>1, <3>1, TaskFacts
    <3>3. <<r, c, task[p].a>> \in receipts /\ task[p].prior.status # "complete"
      BY <3>1 DEF IInv, CallOK, Owned, Operation
    <3>4. task[p].a = a
      BY <2>1, <3>2, <3>3 DEF OneRunInv, OneReceipt
    <3>5. task[p].prior.attempts + 1 = a
      BY <3>1, <3>4 DEF OneRunInv, OwnAttempt
    <3> QED
      BY <3>1, <3>3, <3>5 DEF Complete
  <2>6. ~Progresses(r, c)
    BY <1>1, NoWriter DEF Progresses
  <2> QED
    BY <2>2, <2>3, <2>4, <2>5, <2>6, StateChanges
<1> QED
  BY <1>2, <1>3, ReceiptsMove

\* What is known of the attempt of a call that nothing touches, and of one that
\* has not been rechecked yet or is over.
LEMMA OwnStays ==
  ASSUME NEW q \in Procs, OwnAttempt(q), task'[q] = task[q], UNCHANGED state
  PROVE  OwnAttempt(q)'
BY DEF OwnAttempt, Works, HasPrior, Working

LEMMA OwnAtRest ==
  ASSUME NEW q \in Procs,
         \/ task'[q].at \in {"idle", "admit", "locked", "retire"}
         \/ task'[q].at = "fence" /\ ~task'[q].completes
  PROVE  OwnAttempt(q)'
BY DEF OwnAttempt, Works, HasPrior, Working

\* A call goes on and its state is as it was.
LEMMA OwnGoes ==
  ASSUME TypesOK, NEW q \in Procs, OwnAttempt(q), UNCHANGED state,
         NEW step \in {"fail", "journal", "fence", "recheck"}, Goto(q, step),
         \/ Works(q) /\ step # "recheck"
         \/ HasPrior(q) /\ step = "recheck"
  PROVE  OwnAttempt(q)'
<1>1. step \in TaskSteps \ {"idle"} /\ task[q].at # "idle"
  BY DEF TaskSteps, Works, HasPrior, Working
<1>2. /\ task'[q].at = step /\ task'[q].completes = task[q].completes
      /\ task'[q].r = task[q].r /\ task'[q].c = task[q].c /\ task'[q].a = task[q].a
      /\ task'[q].prior = task[q].prior
  BY <1>1, GotoFacts
<1> QED
  BY <1>2 DEF OwnAttempt, Works, HasPrior, Working

LEMMA OwnMoves ==
  ASSUME IInv, NEW q \in Procs, OwnAttempt(q), Reconcile(q)
  PROVE  OwnAttempt(q)'
<1> DEFINE t == task[q]
           s == state[t.r][t.c]
<1>1. TypesOK /\ CallOK(q)
  BY DEF IInv
<1>2. ASSUME Release(q) PROVE OwnAttempt(q)'
  BY <1>1, <1>2, ReleaseFacts, OwnAtRest
<1>3. CASE Admit(q)
  <2>1. /\ t.at = "admit" /\ Goto(q, IF t.completes THEN "locked" ELSE "fence")
    BY <1>3 DEF Admit, At
  <2>2. /\ task'[q].at = IF t.completes THEN "locked" ELSE "fence"
        /\ task'[q].completes = t.completes
    BY <1>1, <2>1, GotoFacts DEF TaskSteps
  <2> QED
    BY <2>2, OwnAtRest
<1>4. CASE Denied(q) \/ WriteFailed(q) \/ Retire(q)
  BY <1>2, <1>4 DEF Denied, WriteFailed, Retire
<1>5. CASE Locked(q)
  <2> DEFINE step == IF Operation(t) \in journals \union receipts THEN "journal" ELSE "handle"
  <2>1. /\ t.at = "locked" /\ UNCHANGED state
        /\ Release(q) \/ (s.attempts + 1 = t.a /\ Goto(q, step))
    BY <1>5 DEF Locked, At, files
  <2>2. step \in {"journal", "handle"} /\ step \in TaskSteps \ {"idle"}
    BY DEF TaskSteps
  <2> HIDE DEF step
  <2>3. CASE s.attempts + 1 = t.a /\ Goto(q, step)
    <3>1. /\ task'[q].at = step /\ task'[q].r = t.r /\ task'[q].c = t.c /\ task'[q].a = t.a
      BY <1>1, <2>1, <2>2, <2>3, GotoFacts
    <3> QED
      BY <2>1, <2>2, <2>3, <3>1 DEF OwnAttempt, Works, HasPrior
  <2> QED
    BY <1>2, <2>1, <2>3
<1>6. CASE HandlerCommits(q) \/ HandlerFails(q)
  <2>1. /\ t.at = "handle" /\ UNCHANGED state
        /\ Goto(q, "journal") \/ Goto(q, "fail")
    BY <1>6 DEF HandlerCommits, HandlerFails, At, files
  <2>2. Works(q)
    BY <1>1, <2>1 DEF CallOK, Held, Works, Working
  <2> QED
    BY <1>1, <2>1, <2>2, OwnGoes
<1>7. CASE ReadState(q)
  <2> DEFINE x == [t EXCEPT !.seen = s, !.at = IF @ = "fail" THEN "fail_write" ELSE "write"]
  <2>1. t.at \in {"fail", "read"} /\ task' = [task EXCEPT ![q] = x] /\ UNCHANGED state
    BY <1>7 DEF ReadState, files
  <2>2. t \in Tasks
    BY <1>1, <2>1, TaskFacts
  <2>3. /\ x.at = IF t.at = "fail" THEN "fail_write" ELSE "write"
        /\ x.completes = t.completes /\ x.r = t.r /\ x.c = t.c /\ x.a = t.a
        /\ x.seen = s /\ x.prior = t.prior
    BY <2>2 DEF Tasks
  <2> HIDE DEF x
  <2>4. task'[q] = x
    BY <1>1, <2>1 DEF TypesOK
  <2>5. Works(q) /\ s.attempts + 1 = t.a
    BY <1>1, <2>1 DEF CallOK, Held, Works, Working, OwnAttempt
  <2>6. HasPrior(q)' => HasPrior(q)
    BY <2>1, <2>3, <2>4 DEF HasPrior
  <2> QED
    BY <2>1, <2>3, <2>4, <2>5, <2>6 DEF OwnAttempt
<1>8. CASE PersistJournal(q)
  <2>1. /\ t.at = "journal" /\ UNCHANGED state
        /\ Release(q) \/ Goto(q, "fence")
    BY <1>8 DEF PersistJournal, At
  <2>2. Works(q)
    BY <1>1, <2>1 DEF CallOK, Held, Works, Working
  <2> QED
    BY <1>1, <1>2, <2>1, <2>2, OwnGoes
<1>9. CASE TakeFence(q)
  <2> DEFINE x == [t EXCEPT !.prior = s, !.at = IF t.completes THEN "read" ELSE "recheck"]
  <2>1. /\ t.at = "fence" /\ UNCHANGED state
        /\ Release(q) \/ task' = [task EXCEPT ![q] = x]
    BY <1>9 DEF TakeFence, At, files
  <2>2. t \in Tasks /\ t.completes \in BOOLEAN
    BY <1>1, <2>1, TaskFacts
  <2>3. /\ x.at = IF t.completes THEN "read" ELSE "recheck"
        /\ x.completes = t.completes /\ x.r = t.r /\ x.c = t.c /\ x.a = t.a /\ x.prior = s
    BY <2>2 DEF Tasks
  <2> HIDE DEF x
  <2>4. CASE task' = [task EXCEPT ![q] = x]
    <3>1. task'[q] = x
      BY <1>1, <2>4 DEF TypesOK
    <3>2. t.completes => s.attempts + 1 = t.a
      BY <2>1 DEF OwnAttempt, Works, Working
    <3> QED
      BY <2>1, <2>2, <2>3, <3>1, <3>2 DEF OwnAttempt, Works, HasPrior
  <2> QED
    BY <1>2, <2>1, <2>4
<1>10. CASE WriteComplete(q)
  <2>1. t.at = "write" /\ Goto(q, "verify")
    BY <1>10 DEF WriteComplete, At
  <2>2. /\ task'[q].at = "verify" /\ task'[q].completes = t.completes
        /\ task'[q].a = t.a /\ task'[q].prior = t.prior
    BY <1>1, <2>1, GotoFacts DEF TaskSteps
  <2> QED
    BY <2>1, <2>2 DEF OwnAttempt, Works, HasPrior, Working
<1>11. CASE Verify(q)
  <2>1. /\ t.at = "verify"
        /\ Release(q) \/ (Goto(q, "recheck") /\ UNCHANGED state)
    BY <1>11 DEF Verify, At, RestorePrior
  <2>2. HasPrior(q)
    BY <1>1, <2>1 DEF CallOK, Held, HasPrior
  <2> QED
    BY <1>1, <1>2, <2>1, <2>2, OwnGoes
<1>12. CASE Recheck(q)
  <2> DEFINE x == [t EXCEPT !.by = Receipts(t.r), !.at = "retire"]
  <2>1. t.at = "recheck" /\ (Release(q) \/ task' = [task EXCEPT ![q] = x])
    BY <1>12 DEF Recheck, At, RestorePrior
  <2>2. x.at = "retire"
    BY <1>1, <2>1, TaskFacts DEF Tasks
  <2> HIDE DEF x
  <2>3. ASSUME task' = [task EXCEPT ![q] = x] PROVE OwnAttempt(q)'
    <3>1. task'[q] = x
      BY <1>1, <2>3 DEF TypesOK
    <3> QED
      BY <2>2, <3>1, OwnAtRest
  <2> QED
    BY <1>2, <2>1, <2>3
<1> QED
  BY <1>3, <1>4, <1>5, <1>6, <1>7, <1>8, <1>9, <1>10, <1>11, <1>12 DEF Reconcile

\* A call that moves leaves the others' tasks alone, and their states too: if
\* it has the lock they are at rest.
LEMMA OthersStay ==
  ASSUME IInv, NEW p \in Procs, Reconcile(p), NEW q \in Procs \ {p}
  PROVE  /\ task'[q] = task[q]
         /\ UNCHANGED state \/ task[q].at \in {"idle", "admit"}
<1>1. TypesOK
  BY DEF IInv
<1>2. ASSUME Release(p) \/ (\E x : task' = [task EXCEPT ![p] = x])
      PROVE  task'[q] = task[q]
  BY <1>1, <1>2, ReleaseFacts DEF TypesOK
<1>3. \/ Release(p) \/ Goto(p, "locked") \/ Goto(p, "fence") \/ Goto(p, "journal")
      \/ Goto(p, "handle") \/ Goto(p, "fail") \/ Goto(p, "verify") \/ Goto(p, "recheck")
      \/ ReadState(p) \/ TakeFence(p) \/ Recheck(p)
  BY DEF Reconcile, Admit, Denied, Locked, HandlerCommits, HandlerFails, WriteFailed,
     PersistJournal, WriteComplete, Verify, Retire, RestorePrior
<1>4. task'[q] = task[q]
  BY <1>2, <1>3 DEF Goto, ReadState, TakeFence, Recheck, RestorePrior
<1>5. UNCHANGED state \/ task[p].at \in {"fail_write", "write", "verify", "recheck"}
  BY DEF Reconcile, Admit, Denied, Locked, HandlerCommits, HandlerFails, ReadState, WriteFailed,
     PersistJournal, TakeFence, WriteComplete, Verify, Recheck, Retire, files, At
<1>6. task[p].at \notin {"idle", "admit"} => task[q].at \in {"idle", "admit"}
  BY DEF IInv, CallOK, Held
<1> QED
  BY <1>4, <1>5, <1>6

LEMMA OneRunStep ==
  NoProgress /\ IInv /\ OneRunInv /\ [Next]_vars => OneRunInv'
<1> SUFFICES ASSUME NoProgress, IInv, OneRunInv, [Next]_vars PROVE OneRunInv'
  OBVIOUS
<1>1. TypesOK
  BY DEF IInv
<1>2. ASSUME NEW q \in Procs PROVE OwnAttempt(q)'
  <2>1. OwnAttempt(q)
    BY DEF OneRunInv
  <2>2. CASE UNCHANGED state /\ task'[q] = task[q]
    BY <2>1, <2>2, OwnStays
  <2>3. CASE task'[q].at \in {"idle", "admit"}
    BY <2>3, OwnAtRest
  <2>4. ASSUME NEW p \in Procs, NEW c \in Consumers, Plan(p, c)
        PROVE  (UNCHANGED state /\ task'[q] = task[q]) \/ task'[q].at = "admit"
    BY <1>1, <2>4 DEF Plan, TypesOK, files
  <2>5. ASSUME NEW p \in Procs, Reconcile(p) PROVE OwnAttempt(q)'
    <3>1. CASE p = q
      BY <2>1, <2>5, <3>1, OwnMoves
    <3>2. CASE p # q
      BY <2>2, <2>3, <2>5, <3>2, OthersStay
    <3> QED
      BY <3>1, <3>2
  <2>6. ASSUME NEW p \in Procs, Crash(p)
        PROVE  (UNCHANGED state /\ task'[q] = task[q]) \/ task'[q].at = "idle"
    BY <1>1, <2>6, ReleaseFacts DEF Crash, files
  <2>7. \/ UNCHANGED <<state, task>>
        \/ \E p \in Procs : (\E c \in Consumers : Plan(p, c)) \/ Reconcile(p) \/ Crash(p)
    BY <1>1, NoWriter DEF Next, Publish, Sweep, SweepStatus, SweepExists, SweepWrite, vars, files
  <2> QED
    BY <2>2, <2>3, <2>4, <2>5, <2>6, <2>7
<1> QED
  BY <1>2, OneReceiptStep DEF OneRunInv

\* While nothing but the reconcile route writes a consumer's state, its handler
\* commits once: a later call is at the same attempt and finds the receipt.
THEOREM RunsOnce == NoProgress => (Spec => []HandlerRunsOnce)
<1> SUFFICES ASSUME NoProgress PROVE Spec => []HandlerRunsOnce
  OBVIOUS
<1>1. Init => OneRunInv
  BY DEF Init, OneRunInv, OneReceipt, OwnAttempt, Idle, Works, HasPrior, Working
<1>2. IInv /\ OneRunInv /\ [Next]_vars => OneRunInv'
  BY OneRunStep
<1>3. OneRunInv /\ OneCommitPerOperation => HandlerRunsOnce
  <2> SUFFICES ASSUME OneRunInv, OneCommitPerOperation, NEW r \in Records, NEW c \in Consumers
               PROVE  runs[r][c] <= 1
    BY DEF HandlerRunsOnce
  <2>1. runs[r][c] = Cardinality(Attempts(r, c))
    BY DEF OneCommitPerOperation, Attempts
  <2>2. \A a, b \in Attempts(r, c) : a = b
    BY DEF OneRunInv, OneReceipt, Attempts
  <2>3. CASE Attempts(r, c) = {}
    BY <2>1, <2>3, FS_EmptySet
  <2>4. ASSUME NEW a \in Attempts(r, c) PROVE runs[r][c] <= 1
    <3>1. Attempts(r, c) = {a}
      BY <2>2, <2>4
    <3>2. Cardinality({a}) = 1
      BY FS_Singleton
    <3> QED
      BY <2>1, <3>1, <3>2
  <2> QED
    BY <2>3, <2>4
<1> QED
  BY <1>1, <1>2, <1>3, Invariant, CommitsOnce, PTL DEF Spec

-----------------------------------------------------------------------------
(* Completion and retirement, while nobody but the reconcile route writes. *)

\* Nothing replaces a completion or takes it back: an attempt works on an
\* incomplete consumer, and the recheck meets no other retirement than its own.
LEMMA CompletionStays ==
  ASSUME Alone, IInv, FinalInv, [Next]_vars,
         NEW r \in Records, NEW c \in Consumers, Complete(r, c)
  PROVE  state'[r][c] = state[r][c]
<1>1. TypesOK
  BY DEF IInv
<1>2. ASSUME NEW p \in Procs, Fails(p, r, c) \/ Completes(p, r, c) PROVE FALSE
  BY <1>2 DEF Fails, Completes, IInv, CallOK, Held, Owned, Works, Working
<1>3. ASSUME NEW p \in Procs, TakesBack(p, r, c) PROVE state'[r][c] = state[r][c]
  <2>1. task[p].r = r /\ task[p].c = c /\ (Verify(p) \/ Recheck(p))
    BY <1>3 DEF TakesBack
  <2>2. CASE Verify(p)
    BY <2>1, <2>2 DEF Verify
  <2>3. CASE Recheck(p)
    <3>1. \/ retired[r] = NotRetired
          \/ AllComplete(r) /\ retired[r] = [form |-> "targeted", by |-> Receipts(r)]
      BY DEF FinalInv
    <3> QED
      BY <2>1, <2>3, <3>1 DEF Recheck
  <2> QED
    BY <2>1, <2>2, <2>3
<1>4. ~Progresses(r, c)
  BY <1>1, NoWriter DEF Progresses, Alone
<1> QED
  BY <1>2, <1>3, <1>4, StateChanges

\* So what has been established of a record's consumers lasts.
LEMMA CompleteLasts ==
  ASSUME Alone, IInv, FinalInv, [Next]_vars, NEW r \in Records
  PROVE  /\ \A c \in Consumers : Complete(r, c) => Complete(r, c)'
         /\ \A c \in Consumers : DependenciesComplete(r, c) => DependenciesComplete(r, c)'
         /\ AllComplete(r) => AllComplete(r)' /\ Receipts(r)' = Receipts(r)
<1>1. \A c \in Consumers : Complete(r, c) => state'[r][c] = state[r][c]
  BY CompletionStays
<1>2. \A c \in Consumers : Complete(r, c) => Complete(r, c)'
  BY <1>1 DEF Complete
<1>3. \A c \in Consumers : Dependency[c] \subseteq Consumers
  BY ReconcileConstants
<1>4. \A c \in Consumers : DependenciesComplete(r, c) => DependenciesComplete(r, c)'
  BY <1>2, <1>3 DEF DependenciesComplete
<1>5. AllComplete(r) => AllComplete(r)' /\ Receipts(r)' = Receipts(r)
  BY <1>1, <1>2 DEF AllComplete, Receipts
<1> QED
  BY <1>2, <1>4, <1>5

LEMMA FinalCall ==
  ASSUME NEW q \in Procs, NEW r \in Records, NEW c \in Consumers,
         task'[q].r = r, task'[q].c = c,
         task'[q].completes => DependenciesComplete(r, c)',
         task'[q].at = "verify" => Complete(r, c)',
         task'[q].at = "retire" => AllComplete(r)' /\ task'[q].by = Receipts(r)'
  PROVE  CallFinal(q)'
BY DEF CallFinal, DependenciesComplete, Complete, AllComplete, Receipts

LEMMA FinalStep ==
  Alone /\ IInv /\ FinalInv /\ [Next]_vars => FinalInv'
<1> SUFFICES ASSUME Alone, IInv, FinalInv, [Next]_vars PROVE FinalInv'
  OBVIOUS
<1>1. TypesOK
  BY DEF IInv
<1>2. sweep = Idle /\ ~Sweep
  BY DEF FinalInv, Alone, Sweep, SweepStatus, SweepExists, SweepWrite, Idle
<1>3. sweep' = Idle
  <2>1. ASSUME NEW p \in Procs, Reconcile(p) PROVE sweep' = sweep
    BY <2>1 DEF Reconcile, Admit, Denied, Locked, HandlerCommits, HandlerFails, ReadState,
       WriteFailed, PersistJournal, TakeFence, WriteComplete, Verify, Recheck, Retire
  <2> QED
    BY <1>2, <2>1 DEF Next, Publish, Plan, Crash, ReadForProgress, WriteProgress, vars
<1>4. ASSUME NEW r \in Records, NEW c \in Consumers, Complete(r, c)'
      PROVE  DependenciesComplete(r, c)'
  <2>1. CASE Complete(r, c)
    BY <2>1, CompleteLasts DEF FinalInv
  <2>2. CASE ~Complete(r, c)
    <3>1. state'[r][c].status = "complete" /\ state'[r][c] # state[r][c]
      BY <1>4, <2>2 DEF Complete
    <3>2. PICK p \in Procs : Completes(p, r, c) \/ TakesBack(p, r, c)
      BY <3>1, StateChanges DEF Fails, Progresses
    <3>3. ~TakesBack(p, r, c)
      BY <3>1 DEF TakesBack, IInv, CallOK, Owned
    <3>4. /\ task[p].r = r /\ task[p].c = c /\ task[p].at # "idle" /\ task[p].completes
      BY <3>2, <3>3 DEF Completes, IInv, CallOK, Held, Working
    <3>5. DependenciesComplete(r, c)
      BY <3>4 DEF FinalInv, CallFinal
    <3> QED
      BY <3>5, CompleteLasts
  <2> QED
    BY <2>1, <2>2
<1>5. ASSUME NEW r \in Records, retired'[r] # NotRetired
      PROVE  /\ AllComplete(r)'
             /\ retired'[r] = [form |-> "targeted", by |-> Receipts(r)']
  <2>1. CASE UNCHANGED retired
    BY <1>5, <2>1, CompleteLasts DEF FinalInv
  <2>2. ASSUME NEW p \in Procs, Retire(p)
        PROVE  \/ retired'[r] = retired[r]
               \/ AllComplete(r) /\ retired'[r] = [form |-> "targeted", by |-> Receipts(r)]
    <3> DEFINE t == task[p]
    <3>1. t.at = "retire" /\ retired' = [retired EXCEPT ![t.r] =
                                           [form |-> "targeted", by |-> t.by]]
      BY <2>2 DEF Retire, At
    <3>2. AllComplete(t.r) /\ t.by = Receipts(t.r)
      BY <3>1 DEF FinalInv, CallFinal
    <3>3. CASE t.r = r
      BY <1>1, <3>1, <3>2, <3>3 DEF TypesOK
    <3>4. CASE t.r # r
      BY <1>1, <3>1, <3>4 DEF TypesOK
    <3> QED
      BY <3>3, <3>4
  <2>3. \/ retired'[r] = retired[r]
        \/ AllComplete(r) /\ retired'[r] = [form |-> "targeted", by |-> Receipts(r)]
    BY <1>2, <2>2, RetiredMoves DEF Sweep
  <2> QED
    BY <1>5, <2>3, CompleteLasts DEF FinalInv
<1>6. ASSUME NEW q \in Procs PROVE CallFinal(q)'
  <2>1. CASE task'[q].at = "idle"
    BY <2>1 DEF CallFinal
  <2>2. ASSUME NEW c \in Consumers, Plan(q, c) PROVE CallFinal(q)'
    <3>1. /\ task'[q].at = "admit" /\ task'[q].r = pub /\ task'[q].c = c
          /\ task'[q].completes => DependenciesComplete(pub, c)
      BY <1>1, <2>2 DEF Plan, TypesOK, DependenciesComplete
    <3>2. PICK r \in Records : r = pub
      BY <1>1 DEF TypesOK
    <3> QED
      BY <3>1, <3>2, CompleteLasts, FinalCall
  <2>3. ASSUME task[q].at # "idle",
               task'[q].completes = task[q].completes,
               task'[q].r = task[q].r, task'[q].c = task[q].c,
               task'[q].at = "verify" => task[q].at = "verify" \/ WriteComplete(q),
               task'[q].at = "retire" =>
                   AllComplete(task[q].r) /\ task'[q].by = Receipts(task[q].r)
        PROVE  CallFinal(q)'
    <3>1. PICK r \in Records, c \in Consumers : r = task[q].r /\ c = task[q].c
      BY <1>1, <2>3, TaskFacts
    <3>2. /\ task[q].completes => DependenciesComplete(r, c)
          /\ task[q].at = "verify" => Complete(r, c)
      BY <2>3, <3>1 DEF FinalInv, CallFinal
    <3>3. ASSUME WriteComplete(q) PROVE Complete(r, c)'
      <4> DEFINE v == Rewritten(task[q].seen, "complete", task[q].a)
      <4>1. task[q].at = "write" /\ state' = [state EXCEPT ![r][c] = v]
        BY <3>1, <3>3 DEF WriteComplete, At
      <4>2. task[q].seen \in AnyState /\ task[q].a \in 1..MaxAttempts
        BY <1>1, <2>3, TaskFacts
      <4>3. task[q].seen.status # "complete"
        BY <4>1 DEF IInv, CallOK, Owned
      <4>4. v \in AnyState /\ v.status = "complete"
        BY <4>2, <4>3, RewrittenFacts
      <4> HIDE DEF v
      <4>5. state'[r][c] = v
        BY <1>1, <4>1 DEF TypesOK
      <4> QED
        BY <4>4, <4>5 DEF Complete
    <3>4. /\ DependenciesComplete(r, c) => DependenciesComplete(r, c)'
          /\ Complete(r, c) => Complete(r, c)'
          /\ AllComplete(r) => AllComplete(r)' /\ Receipts(r)' = Receipts(r)
      BY CompleteLasts
    <3> QED
      BY <2>3, <3>1, <3>2, <3>3, <3>4, FinalCall
  <2>4. CASE task[q].at # "idle" /\ task'[q] = task[q]
    BY <2>3, <2>4 DEF FinalInv, CallFinal
  <2> QED
    BY <1>1, <2>1, <2>2, <2>3, <2>4, CallMoves
<1> QED
  BY <1>3, <1>4, <1>5, <1>6, ConstantsStay DEF FinalInv

LEMMA FinalAtFirst == Init => FinalInv
BY DEF Init, FinalInv, CallFinal, Complete, Missing, Idle

\* While nobody but the reconcile route writes, what is complete stays complete,
\* its predecessors are, and a retirement file is bound to it (FinalInv).
THEOREM Finality == Alone => (Spec => []FinalInv)
<1> SUFFICES ASSUME Alone PROVE Spec => []FinalInv
  OBVIOUS
<1>1. IInv /\ FinalInv /\ [Next]_vars => FinalInv'
  BY FinalStep
<1> QED
  BY <1>1, FinalAtFirst, Invariant, PTL DEF Spec

\* While nobody but the reconcile route writes, a consumer is completed, and its
\* handler runs, after its predecessors, although they are looked at before the
\* lock only: what they were found to be is final.
THEOREM PredecessorsFirst == Alone => (Spec => []DependenciesFirst)
<1> SUFFICES ASSUME Alone PROVE Spec => []DependenciesFirst
  OBVIOUS
<1>1. IInv /\ FinalInv => DependenciesFirst
  BY DEF IInv, CallOK, Held, Working, FinalInv, CallFinal, DependenciesFirst,
     DependenciesComplete, At
<1> QED
  BY <1>1, Invariant, Finality, PTL

\* ... a retirement file binds the receipts of a record that is complete, and
\* keeps doing so ...
THEOREM RetirementsAreProven == Alone => (Spec => []RetirementIsProven)
<1> SUFFICES ASSUME Alone PROVE Spec => []RetirementIsProven
  OBVIOUS
<1>1. FinalInv => RetirementIsProven
  <2>1. \A x : [form |-> "targeted", by |-> x].by = x
    OBVIOUS
  <2> QED
    BY <2>1 DEF FinalInv, RetirementIsProven
<1> QED
  BY <1>1, Finality, PTL

\* ... and a completion is final.
THEOREM CompletionsAreFinal == Alone => (Spec => CompletionIsFinal)
<1> SUFFICES ASSUME Alone PROVE Spec => CompletionIsFinal
  OBVIOUS
<1>1. IInv /\ FinalInv /\ [Next]_vars =>
        \A r \in Records, c \in Consumers : Complete(r, c) => state'[r][c] = state[r][c]
  BY CompletionStays
<1> QED
  BY <1>1, Invariant, Finality, PTL DEF Spec, CompletionIsFinal
=============================================================================
