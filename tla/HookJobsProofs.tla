---------------------------- MODULE HookJobsProofs ----------------------------
(***************************************************************************)
(* Theorems about HookJobs, for any number of sessions, signals, names,    *)
(* faults and any limit of a worker.                                       *)
(*                                                                         *)
(* That a queued signal stays covered is not inductive by itself: between  *)
(* the decision on a job and its unlink the archive may still lack what    *)
(* the job stands for, or already lack what a hook has queued since.  The  *)
(* inductive invariant says at each of these steps which signals the job   *)
(* answers (AnswersOK), and which files the worker still counts on, though *)
(* hooks write them as well (FilesOK).  A second invariant (BInv) counts   *)
(* the files of each session at each step.                                 *)
(***************************************************************************)
EXTENDS HookJobs, FiniteSetTheorems, TLAPS

PromoteSteps == {"promote_name", "promote_write", "promote_unlink"}
JobSteps == {"decide", "defer", "publish", "done", "fail", "unlink"}

Queued(s) == \E q \in Queue : \E n \in Present(q) : SessionOf(n) = s

\* Nothing is newer than the transcript, and a hook has a signal in hand.
VersionsOK ==
    /\ \A s \in Session :
        /\ synced[s] <= source[s]
        /\ failedAt[s] <= source[s]
        /\ \A v \in accepted[s] : v <= source[s]
    /\ hook # NoHook => source[hook.session] > 0 /\ hook.merged # {}

\* The files and the memory of the worker between its steps.
FilesOK ==
    /\ pc = "recover_move" =>
         job \in Name /\ dest \in Name /\ SessionOf(dest) = SessionOf(job) /\ running[job] # {}
    /\ pc = "coalesce" =>
         \A s \in Session :
           /\ \A e \in plan[s].sources : SessionOf(e[2]) = s
           /\ plan[s] # NoPlan => plan[s].queue \in Queue /\ plan[s].merged # {}
    /\ pc \in {"promote"} \union PromoteSteps => todo \subseteq Present("deferred")
    /\ pc \in PromoteSteps => job \in Name \ todo /\ mem # {}
    /\ pc \in {"promote_write", "promote_unlink"} =>
         dest \in Name /\ SessionOf(dest) = SessionOf(job)
    /\ pc = "promote_unlink" => files["pending"][dest] # {}
    /\ pc \in {"claim"} \union JobSteps => todo \subseteq Present("pending")
    /\ pc = "claim" => Cardinality(todo) <= left
    /\ pc \in JobSteps => job \in Name /\ mem # {} /\ Cardinality(todo) < left

\* What the job in hand leaves to answer.
AnswersOK ==
    pc \in JobSteps =>
      LET s == SessionOf(job)
      IN /\ base <= source[s]
         /\ pc \in {"decide", "publish", "fail"} => synced[s] <= base /\ failedAt[s] <= base
         /\ \A v \in accepted[s] :
              \/ Queued(s)
              \/ pc \in {"decide", "publish", "fail"} /\ v <= base
              \/ pc = "done" /\ v <= synced[s]
              \/ pc = "unlink" /\ Covered(s, v)
              \/ pc = "defer"

IInv == TypeOK /\ VersionsOK /\ FilesOK /\ AnswersOK /\ IntentKept

-----------------------------------------------------------------------------
(* Names and files.                                                        *)

\* A session has a stable name, and a name has a session.
LEMMA NameFacts ==
  /\ \A n \in Name : SessionOf(n) \in Session
  /\ \A s \in Session : Stable(s) \in Name /\ SessionOf(Stable(s)) = s
BY JobConstants DEF Name, SessionOf, Stable

\* There are finitely many names.
LEMMA NamesFinite == IsFiniteSet(Name)
BY JobConstants, FS_Product, FS_Interval, 0 \in Int, MaxCopies \in Int DEF Name

\* A session is active by a queued job or by a running one.
LEMMA ActiveFacts ==
  \A s \in Session :
    Active(s) <=> Queued(s) \/ \E n \in Name : SessionOf(n) = s /\ running[n] # {}
BY DEF Active, Queued

\* A write adds a queued job and takes none away.
LEMMA PutFacts ==
  ASSUME files \in [Queue -> [Name -> Job]],
         NEW q \in Queue, NEW n \in Name, NEW S \in Job, S # {},
         Put(q, n, S)
  PROVE  /\ files' \in [Queue -> [Name -> Job]]
         /\ \A p \in Queue : Present(p) \subseteq Present(p)'
         /\ n \in Present(q)'
         /\ \A s \in Session : Queued(s) \/ s = SessionOf(n) => Queued(s)'
<1>1. files' \in [Queue -> [Name -> Job]]
  BY DEF Put
<1>2. \A p \in Queue, m \in Name :
        files'[p][m] = IF p = q /\ m = n THEN S ELSE files[p][m]
  BY DEF Put
<1>3. \A p \in Queue : Present(p) \subseteq Present(p)'
  BY <1>2 DEF Present
<1>4. n \in Present(q)'
  BY <1>2 DEF Present
<1> QED
  BY <1>1, <1>3, <1>4 DEF Queued

\* Removing a file takes no other job away.
LEMMA RemoveFacts ==
  ASSUME files \in [Queue -> [Name -> Job]],
         NEW q \in Queue, NEW n \in Name, Put(q, n, {})
  PROVE  /\ files' \in [Queue -> [Name -> Job]]
         /\ \A p \in Queue : Present(p) \subseteq Present(p)' \union {n}
         /\ \A p \in Queue : p # q => Present(p) \subseteq Present(p)'
         /\ \A s \in Session : s # SessionOf(n) /\ Queued(s) => Queued(s)'
<1>1. files' \in [Queue -> [Name -> Job]]
  BY DEF Put, Job
<1>2. \A p \in Queue, m \in Name :
        files'[p][m] = IF p = q /\ m = n THEN {} ELSE files[p][m]
  BY DEF Put
<1>3. /\ \A p \in Queue : Present(p) \subseteq Present(p)' \union {n}
      /\ \A p \in Queue : p # q => Present(p) \subseteq Present(p)'
  BY <1>2 DEF Present
<1> QED
  BY <1>1, <1>3 DEF Queued

-----------------------------------------------------------------------------

\* The invariant holds initially.
LEMMA InitIInv == Init => IInv
<1> SUFFICES ASSUME Init PROVE IInv
  OBVIOUS
<1>1. PICK S \in SUBSET Session, q \in Queue :
        /\ files = [p \in Queue |-> [n \in Name |->
               IF p = q /\ SessionOf(n) \in S /\ n[2] = 1 THEN {1} ELSE {}]]
        /\ source = [s \in Session |-> IF s \in S THEN 1 ELSE 0]
        /\ accepted = [s \in Session |-> IF s \in S THEN {1} ELSE {}]
  BY DEF Init
<1>2. TypeOK
  <2>1. files \in [Queue -> [Name -> Job]]
    BY <1>1, JobConstants DEF Job, Signal
  <2>2. source \in [Session -> Version] /\ accepted \in [Session -> Job]
    BY <1>1, JobConstants DEF Job, Signal, Version
  <2> QED
    BY <2>1, <2>2, JobConstants
    DEF Init, TypeOK, Job, Version, Queue, NoHook, Steps, NoPlan, NoName
<1>3. VersionsOK
  BY <1>1 DEF Init, VersionsOK
<1>4. FilesOK /\ AnswersOK
  BY DEF Init, FilesOK, AnswersOK, PromoteSteps, JobSteps
<1>5. IntentKept
  <2> SUFFICES ASSUME NEW s \in Session, accepted[s] # {} PROVE Active(s)
    BY DEF IntentKept
  <2>1. s \in S
    BY <1>1
  <2>2. <<s, 1>> \in Name /\ <<s, 1>>[2] = 1 /\ SessionOf(<<s, 1>>) = s
    BY JobConstants DEF SessionOf, Name
  <2>3. files[q][<<s, 1>>] = {1}
    BY <1>1, <2>1, <2>2
  <2> QED
    BY <2>2, <2>3 DEF Active, Present
<1> QED
  BY <1>2, <1>3, <1>4, <1>5 DEF IInv

-----------------------------------------------------------------------------
(* The hooks.                                                              *)

\* The transcript grows, and a hook looks for a job.
LEMMA HookLooksStep ==
  ASSUME IInv, NEW s \in Session, HookLooks(s)
  PROVE  IInv'
<1> USE DEF HookLooks, queue, history, worker
<1>1. source' \in [Session -> Version] /\ source'[s] = source[s] + 1
  BY JobConstants DEF IInv, TypeOK, Version
<1>2. \A t \in Session : source[t] <= source'[t]
  BY <1>1, JobConstants DEF IInv, TypeOK, Version
<1>3. TypeOK'
  <2>1. source[s] + 1 \in Signal
    BY JobConstants DEF IInv, TypeOK, Version, Signal
  <2>2. hook'.merged \in Job /\ hook'.queue \in Queue
    BY <2>1 DEF Job, Queue
  <2>3. hook' \in [pc : {"read", "write"}, session : Session, found : BOOLEAN,
                   queue : Queue, merged : Job]
    BY <2>2
  <2> QED
    BY <1>1, <2>3 DEF IInv, TypeOK
<1>4. VersionsOK'
  <2>1. \A t \in Session : /\ synced[t] \in Nat /\ failedAt[t] \in Nat
                           /\ source[t] \in Nat /\ source'[t] \in Nat
                           /\ \A v \in accepted[t] : v \in Nat
    BY <1>1, JobConstants DEF IInv, TypeOK, Version, Job, Signal
  <2>2. hook'.session = s /\ source'[s] > 0 /\ hook'.merged # {}
    BY <1>1, <2>1
  <2> QED
    BY <1>2, <2>1, <2>2 DEF IInv, VersionsOK
<1>5. FilesOK'
  BY DEF IInv, FilesOK, Present
<1>6. AnswersOK'
  <2>1. pc \in JobSteps => SessionOf(job) \in Session
    BY NameFacts DEF IInv, FilesOK
  <2> QED
    BY <1>1, <1>2, <2>1, JobConstants
    DEF IInv, AnswersOK, Queued, Present, Covered, TypeOK, Version
<1>7. IntentKept'
  BY DEF IInv, IntentKept, Covered, Active, Present, Owed
<1> QED
  BY <1>3, <1>4, <1>5, <1>6, <1>7 DEF IInv

\* It reads the job.
LEMMA HookReadsStep ==
  ASSUME IInv, HookReads
  PROVE  IInv'
<1> USE DEF HookReads, queue, archive, history, worker
<1>1. hook # NoHook
  BY DEF NoHook
<1>2. hook \in [pc : {"read", "write"}, session : Session, found : BOOLEAN,
                queue : Queue, merged : Job]
  BY <1>1 DEF IInv, TypeOK
<1>3. TypeOK'
  <2> DEFINE existing == IF hook.found THEN files[hook.queue][Stable(hook.session)] ELSE {}
  <2>1. existing \in Job
    BY <1>2, NameFacts DEF IInv, TypeOK, Job
  <2>2. hook' = [hook EXCEPT !.pc = "write", !.merged = @ \union existing]
    OBVIOUS
  <2> HIDE DEF existing
  <2>3. hook' \in [pc : {"read", "write"}, session : Session, found : BOOLEAN,
                   queue : Queue, merged : Job]
    BY <1>2, <2>1, <2>2 DEF Job
  <2> QED
    BY <2>3 DEF IInv, TypeOK
<1>4. VersionsOK'
  BY <1>1, <1>2 DEF IInv, VersionsOK
<1>5. FilesOK' /\ AnswersOK' /\ IntentKept'
  BY DEF IInv, FilesOK, AnswersOK, IntentKept, Queued, Present, Covered, Active, Owed
<1> QED
  BY <1>3, <1>4, <1>5 DEF IInv

\* It writes the merged job: its signal is queued.
LEMMA HookWritesStep ==
  ASSUME IInv, HookWrites
  PROVE  IInv'
<1> USE DEF HookWrites, archive, worker
<1> DEFINE s == hook.session
<1>1. hook # NoHook
  BY DEF NoHook
<1>2. hook \in [pc : {"read", "write"}, session : Session, found : BOOLEAN,
                queue : Queue, merged : Job]
  BY <1>1 DEF IInv, TypeOK
<1>3. s \in Session /\ Stable(s) \in Name /\ SessionOf(Stable(s)) = s
  BY <1>2, NameFacts
<1>4. source[s] \in Signal
  BY <1>1, <1>3 DEF IInv, TypeOK, VersionsOK, Version, Signal
<1>5. hook.merged # {} /\ hook.merged \in Job /\ hook.queue \in Queue
  BY <1>1, <1>2 DEF IInv, VersionsOK
<1> HIDE DEF s
<1>6. Put(hook.queue, Stable(s), hook.merged)
  BY DEF s, Put
<1>7. /\ files' \in [Queue -> [Name -> Job]]
      /\ \A p \in Queue : Present(p) \subseteq Present(p)'
      /\ \A t \in Session : Queued(t) \/ t = s => Queued(t)'
  BY <1>3, <1>5, <1>6, PutFacts DEF IInv, TypeOK
<1>8. accepted' = [accepted EXCEPT ![s] = @ \union {source[s]}]
  BY DEF s, Put
<1>9. UNCHANGED <<running, superseded, executed, failedAt, dropped, faults>>
  OBVIOUS
<1>10. UNCHANGED <<archive, worker>> /\ hook' = NoHook
  OBVIOUS
<1> HIDE DEF HookWrites, archive, worker
<1>11. TypeOK'
  <2>1. accepted' \in [Session -> Job]
    BY <1>3, <1>4, <1>8 DEF IInv, TypeOK, Job
  <2> QED
    BY <1>7, <1>9, <1>10, <2>1 DEF IInv, TypeOK, archive, worker
<1>12. VersionsOK'
  <2>1. \A t \in Session : accepted'[t] \subseteq accepted[t] \union {source[t]}
    BY <1>3, <1>8 DEF IInv, TypeOK
  <2>2. \A t \in Session : source[t] <= source[t]
    BY JobConstants DEF IInv, TypeOK, Version
  <2> QED
    BY <1>9, <1>10, <2>1, <2>2 DEF IInv, VersionsOK, archive
<1>13. FilesOK'
  BY <1>7, <1>9, <1>10 DEF IInv, FilesOK, worker, Present, Queue
<1>14. AnswersOK'
  <2>1. \A t \in Session : t # s => accepted'[t] = accepted[t]
    BY <1>8 DEF IInv, TypeOK
  <2>2. pc \in JobSteps => SessionOf(job) \in Session
    BY NameFacts DEF IInv, FilesOK
  <2> QED
    BY <1>3, <1>7, <1>9, <1>10, <2>1, <2>2 DEF IInv, AnswersOK, Queued, Covered, archive, worker
<1>15. IntentKept'
  <2>1. \A t \in Session : t # s => accepted'[t] = accepted[t]
    BY <1>8 DEF IInv, TypeOK
  <2>2. \A t \in Session : Active(t) \/ t = s => Active(t)'
    BY <1>7, <1>9 DEF Active, Queued
  <2> QED
    BY <1>9, <1>10, <2>1, <2>2 DEF IInv, IntentKept, Covered, Owed, archive, worker
<1> QED
  BY <1>11, <1>12, <1>13, <1>14, <1>15 DEF IInv

\* A hook dies.
LEMMA HookCrashStep ==
  ASSUME IInv, HookCrash
  PROVE  IInv'
<1> USE DEF HookCrash, queue, archive, worker
<1>1. TypeOK'
  BY JobConstants DEF IInv, TypeOK
<1>2. VersionsOK' /\ FilesOK' /\ AnswersOK' /\ IntentKept'
  BY DEF IInv, VersionsOK, FilesOK, AnswersOK, IntentKept, Queued, Present, Covered, Active, Owed
<1> QED
  BY <1>1, <1>2 DEF IInv

-----------------------------------------------------------------------------
(* The world.                                                              *)

\* Other maintenance syncs a session.
LEMMA SyncElsewhereStep ==
  ASSUME IInv, NEW s \in Session, SyncElsewhere(s)
  PROVE  IInv'
<1> USE DEF SyncElsewhere, queue, worker, history
<1>1. /\ synced' \in [Session -> Version]
      /\ synced'[s] = source[s]
      /\ \A t \in Session : t # s => synced'[t] = synced[t]
  BY DEF IInv, TypeOK
<1>2. TypeOK'
  BY <1>1 DEF IInv, TypeOK
<1>3. VersionsOK'
  BY <1>1, JobConstants DEF IInv, VersionsOK, TypeOK, Version
<1>4. FilesOK' /\ AnswersOK'
  BY DEF IInv, FilesOK, AnswersOK, PromoteSteps, JobSteps
<1>5. IntentKept'
  BY <1>1 DEF IInv, VersionsOK, IntentKept, Covered, Active, Present, Owed
<1> QED
  BY <1>2, <1>3, <1>4, <1>5 DEF IInv

\* The budget admits a session.
LEMMA BudgetAdmitsStep ==
  ASSUME IInv, NEW s \in Session, BudgetAdmits(s)
  PROVE  IInv'
<1> USE DEF BudgetAdmits, queue, worker, history
<1>1. TypeOK'
  BY DEF IInv, TypeOK
<1>2. VersionsOK' /\ FilesOK' /\ AnswersOK' /\ IntentKept'
  BY DEF IInv, VersionsOK, FilesOK, AnswersOK, IntentKept, Queued, Present, Covered, Active, Owed
<1> QED
  BY <1>1, <1>2 DEF IInv

\* The worker dies: what only its merge accounted for is dropped.
LEMMA WorkerCrashStep ==
  ASSUME IInv, WorkerCrash
  PROVE  IInv'
<1> USE DEF WorkerCrash, Ended, queue, archive
<1>1. TypeOK'
  <2>1. dropped' \in [Session -> Job]
    BY DEF IInv, TypeOK, Job
  <2>2. plan' \in [Session -> [queue : Queue \union {"none"},
                              sources : SUBSET (Queue \X Name), merged : Job]]
    BY DEF NoPlan, Job
  <2>3. pc' \in Steps /\ left' \in 0..Limit /\ mem' \in Job /\ base' \in Version
    BY JobConstants DEF Steps, Job, Version
  <2>4. faults' \in 0..MaxFaults
    BY JobConstants DEF IInv, TypeOK
  <2> QED
    BY <2>1, <2>2, <2>3, <2>4 DEF IInv, TypeOK
<1>2. VersionsOK'
  BY DEF IInv, VersionsOK
<1>3. FilesOK' /\ AnswersOK'
  BY DEF FilesOK, AnswersOK, PromoteSteps, JobSteps
<1>4. IntentKept'
  BY DEF IInv, IntentKept, Covered, Active, Present
<1> QED
  BY <1>1, <1>2, <1>3, <1>4 DEF IInv

-----------------------------------------------------------------------------
(* The worker: recovery.                                                   *)

\* The name that a file gets is a name of its session.
LEMMA FreeNameFacts ==
  ASSUME NEW n \in Name, NEW m \in FreeName(n)
  PROVE  m \in Name /\ SessionOf(m) = SessionOf(n)
BY DEF FreeName

\* A worker starts.
LEMMA StartWorkerStep ==
  ASSUME IInv, StartWorker
  PROVE  IInv'
<1> USE DEF StartWorker, queue, archive, history
<1>1. TypeOK'
  BY DEF IInv, TypeOK, Steps
<1>2. VersionsOK' /\ IntentKept'
  BY DEF IInv, VersionsOK, IntentKept, Covered, Active, Present, Owed
<1>3. FilesOK' /\ AnswersOK'
  BY DEF FilesOK, AnswersOK, PromoteSteps, JobSteps
<1> QED
  BY <1>1, <1>2, <1>3 DEF IInv

\* It names an orphan.
LEMMA RecoverNameStep ==
  ASSUME IInv, RecoverName
  PROVE  IInv'
<1> USE DEF RecoverName, queue, archive, history
<1>1. PICK n \in Name : running[n] # {} /\ job' = n /\ dest' \in FreeName(n)
  OBVIOUS
<1>2. dest' \in Name /\ SessionOf(dest') = SessionOf(n)
  BY <1>1, FreeNameFacts
<1>3. TypeOK'
  BY <1>1, <1>2 DEF IInv, TypeOK, Steps
<1>4. VersionsOK' /\ IntentKept'
  BY DEF IInv, VersionsOK, IntentKept, Covered, Active, Present, Owed
<1>5. FilesOK' /\ AnswersOK'
  BY <1>1, <1>2 DEF FilesOK, AnswersOK, PromoteSteps, JobSteps, SessionOf
<1> QED
  BY <1>3, <1>4, <1>5 DEF IInv

\* It moves the orphan back: a job that was running is queued.
LEMMA RecoverMoveStep ==
  ASSUME IInv, RecoverMove
  PROVE  IInv'
<1> USE DEF RecoverMove, archive, history
<1>1. /\ job \in Name /\ dest \in Name /\ SessionOf(dest) = SessionOf(job)
      /\ running[job] # {} /\ running[job] \in Job
  BY DEF IInv, TypeOK, FilesOK
<1>2. /\ files' \in [Queue -> [Name -> Job]]
      /\ \A s \in Session : Queued(s) \/ s = SessionOf(dest) => Queued(s)'
  BY <1>1, PutFacts, "pending" \in Queue DEF IInv, TypeOK, Queue
<1>3. TypeOK'
  <2>1. running' \in [Name -> Job]
    BY DEF IInv, TypeOK, Job
  <2> QED
    BY <1>2, <2>1 DEF IInv, TypeOK, Steps
<1>4. VersionsOK'
  BY DEF IInv, VersionsOK
<1>5. FilesOK' /\ AnswersOK'
  BY DEF FilesOK, AnswersOK, PromoteSteps, JobSteps
<1>6. IntentKept'
  <2>1. \A m \in Name : m # job => running'[m] = running[m]
    BY DEF IInv, TypeOK
  <2>2. \A s \in Session : Active(s) => Queued(s)' \/ Active(s)'
    BY <1>1, <1>2, <2>1 DEF Active, Queued
  <2>3. \A s \in Session : Active(s) => Active(s)'
    BY <2>2 DEF Active, Queued
  <2> QED
    BY <2>3 DEF IInv, IntentKept, Covered, Owed
<1> QED
  BY <1>3, <1>4, <1>5, <1>6 DEF IInv

\* No orphan is left.
LEMMA RecoveredStep ==
  ASSUME IInv, Recovered
  PROVE  IInv'
<1> USE DEF Recovered, queue, archive, history
<1>1. TypeOK'
  BY DEF IInv, TypeOK, Steps
<1>2. VersionsOK' /\ IntentKept'
  BY DEF IInv, VersionsOK, IntentKept, Covered, Active, Present, Owed
<1>3. FilesOK' /\ AnswersOK'
  BY DEF FilesOK, AnswersOK, PromoteSteps, JobSteps
<1> QED
  BY <1>1, <1>2, <1>3 DEF IInv

-----------------------------------------------------------------------------
(* The worker: coalescing.                                                 *)

\* The worker plans one merge for each session that needs one.
LEMMA GroupStep ==
  ASSUME IInv, Group
  PROVE  IInv'
<1> USE DEF Group, queue, archive, history
<1>1. ASSUME NEW s \in Session
      PROVE  /\ PlanFor(s) \in [queue : Queue \union {"none"},
                                sources : SUBSET (Queue \X Name), merged : Job]
             /\ \A e \in PlanFor(s).sources : SessionOf(e[2]) = s
             /\ PlanFor(s) # NoPlan =>
                  PlanFor(s).queue \in Queue /\ PlanFor(s).merged # {}
  <2> DEFINE q == IF \E e \in Entries(s) : e[1] = "pending" THEN "pending" ELSE "deferred"
             merged == UNION {files[e[1]][e[2]] : e \in Entries(s)}
  <2>1. q \in Queue
    BY DEF Queue
  <2>2. Entries(s) \subseteq Queue \X Name /\ \A e \in Entries(s) : SessionOf(e[2]) = s
    BY DEF Entries
  <2>3. \A e \in Entries(s) : files[e[1]][e[2]] \in Job /\ files[e[1]][e[2]] # {}
    BY DEF IInv, TypeOK, Entries
  <2>4. merged \in Job
    BY <2>3 DEF Job
  <2>5. Entries(s) # {} => merged # {}
    BY <2>3
  <2>6. NoPlan \in [queue : Queue \union {"none"},
                    sources : SUBSET (Queue \X Name), merged : Job]
            /\ NoPlan.sources = {}
    BY DEF NoPlan, Job
  <2>7. PlanFor(s) = IF Entries(s) \subseteq {<<q, Stable(s)>>} THEN NoPlan
                     ELSE [queue |-> q, sources |-> Entries(s) \ {<<q, Stable(s)>>},
                           merged |-> merged]
    BY DEF PlanFor
  <2> HIDE DEF q, merged
  <2>8. CASE Entries(s) \subseteq {<<q, Stable(s)>>}
    BY <2>6, <2>7, <2>8
  <2>9. CASE ~(Entries(s) \subseteq {<<q, Stable(s)>>})
    <3>1. PlanFor(s) = [queue |-> q, sources |-> Entries(s) \ {<<q, Stable(s)>>},
                        merged |-> merged]
      BY <2>7, <2>9
    <3>2. merged # {}
      BY <2>5, <2>9
    <3> QED
      BY <2>1, <2>2, <2>4, <3>1, <3>2
  <2> QED
    BY <2>8, <2>9
<1>2. TypeOK'
  BY <1>1 DEF IInv, TypeOK, Steps
<1>3. VersionsOK'
  BY DEF IInv, VersionsOK
<1>4. FilesOK' /\ AnswersOK'
  BY <1>1 DEF FilesOK, AnswersOK, PromoteSteps, JobSteps
<1>5. IntentKept'
  BY DEF IInv, IntentKept, Covered, Active, Present, Owed
<1> QED
  BY <1>2, <1>3, <1>4, <1>5 DEF IInv

\* A file is moved away; its session is owed the merged job.
LEMMA SupersedeStep ==
  ASSUME IInv, NEW s \in Session, Supersede(s)
  PROVE  IInv'
<1> USE DEF Supersede, archive, history
<1>1. PICK e \in plan[s].sources :
        /\ superseded' = [superseded EXCEPT ![s] = @ \union files[e[1]][e[2]]]
        /\ Put(e[1], e[2], {})
        /\ plan' = [plan EXCEPT ![s].sources = @ \ {e}]
  OBVIOUS
<1>2. plan[s] \in [queue : Queue \union {"none"},
                   sources : SUBSET (Queue \X Name), merged : Job]
  BY DEF IInv, TypeOK
<1>3. e[1] \in Queue /\ e[2] \in Name
  BY <1>2
<1>4. plan[s] # NoPlan
  BY DEF NoPlan
<1>5. /\ plan' \in [Session -> [queue : Queue \union {"none"},
                                sources : SUBSET (Queue \X Name), merged : Job]]
      /\ \A t \in Session : t # s => plan'[t] = plan[t]
      /\ plan'[s].queue = plan[s].queue /\ plan'[s].merged = plan[s].merged
  BY <1>1, <1>2 DEF IInv, TypeOK
<1>6. plan[s].queue \in Queue /\ plan[s].merged # {}
  BY <1>4 DEF IInv, FilesOK
<1>7. plan'[s] # NoPlan
  BY <1>5, <1>6 DEF NoPlan
<1>8. TypeOK'
  <2>1. superseded' \in [Session -> Job]
    BY <1>1, <1>3 DEF IInv, TypeOK, Job
  <2>2. files' \in [Queue -> [Name -> Job]]
    BY <1>1, <1>3, RemoveFacts DEF IInv, TypeOK
  <2> QED
    BY <1>5, <2>1, <2>2 DEF IInv, TypeOK
<1>9. VersionsOK'
  BY DEF IInv, VersionsOK
<1>10. FilesOK' /\ AnswersOK'
  BY <1>5, <1>6 DEF IInv, FilesOK, AnswersOK, PromoteSteps, JobSteps
<1>11. IntentKept'
  <2>1. SessionOf(e[2]) = s
    BY DEF IInv, FilesOK
  <2>2. \A t \in Session : t # s /\ Queued(t) => Queued(t)'
    BY <1>1, <1>3, <2>1, RemoveFacts DEF IInv, TypeOK
  <2>3. \A t \in Session : t # s /\ Active(t) => Active(t)'
    BY <2>2 DEF Active, Queued
  <2>4. \A t \in Session : (Owed(t) \/ t = s) => Owed(t)'
    BY <1>5, <1>7 DEF Owed
  <2> QED
    BY <2>3, <2>4 DEF IInv, IntentKept, Covered
<1> QED
  BY <1>8, <1>9, <1>10, <1>11 DEF IInv

\* The merged job is queued.
LEMMA WriteMergedStep ==
  ASSUME IInv, NEW s \in Session, WriteMerged(s)
  PROVE  IInv'
<1> USE DEF WriteMerged, archive, history
<1>1. plan[s].queue \in Queue /\ plan[s].merged # {} /\ plan[s].merged \in Job
  BY DEF IInv, TypeOK, FilesOK
<1>2. /\ files' \in [Queue -> [Name -> Job]]
      /\ \A t \in Session : Queued(t) \/ t = s => Queued(t)'
  BY <1>1, NameFacts, PutFacts DEF IInv, TypeOK
<1>3. /\ plan' \in [Session -> [queue : Queue \union {"none"},
                                sources : SUBSET (Queue \X Name), merged : Job]]
      /\ plan'[s] = NoPlan
      /\ \A t \in Session : t # s => plan'[t] = plan[t]
  BY DEF IInv, TypeOK, NoPlan, Job
<1>4. TypeOK'
  BY <1>2, <1>3 DEF IInv, TypeOK
<1>5. VersionsOK'
  BY DEF IInv, VersionsOK
<1>6. FilesOK' /\ AnswersOK'
  <2>1. NoPlan.sources = {}
    BY DEF NoPlan
  <2> QED
    BY <1>3, <2>1 DEF IInv, FilesOK, AnswersOK, PromoteSteps, JobSteps
<1>7. IntentKept'
  <2>1. \A t \in Session : Active(t) \/ t = s => Active(t)'
    BY <1>2 DEF Active, Queued
  <2>2. \A t \in Session : t # s /\ Owed(t) => Owed(t)'
    BY <1>3 DEF Owed
  <2> QED
    BY <2>1, <2>2 DEF IInv, IntentKept, Covered
<1> QED
  BY <1>4, <1>5, <1>6, <1>7 DEF IInv

\* Every merge is written, and nothing is owed.
LEMMA CoalescedStep ==
  ASSUME IInv, Coalesced
  PROVE  IInv'
<1> USE DEF Coalesced, queue, archive, history
<1>1. TypeOK'
  BY DEF IInv, TypeOK, Steps, Present
<1>2. VersionsOK' /\ IntentKept'
  BY DEF IInv, VersionsOK, IntentKept, Covered, Active, Present, Owed
<1>3. FilesOK' /\ AnswersOK'
  BY DEF FilesOK, AnswersOK, PromoteSteps, JobSteps, Present
<1> QED
  BY <1>1, <1>2, <1>3 DEF IInv

-----------------------------------------------------------------------------
(* The worker: promotion.                                                  *)

\* A deferred job is read, or stays deferred.
LEMMA PromoteReadStep ==
  ASSUME IInv, PromoteRead
  PROVE  IInv'
<1> USE DEF PromoteRead, queue, archive, history
<1>1. PICK n \in todo :
        /\ todo' = todo \ {n}
        /\ \/ UNCHANGED <<job, mem, pc>>
           \/ job' = n /\ mem' = files["deferred"][n] /\ pc' = "promote_name"
  OBVIOUS
<1>2. todo \subseteq Name /\ \A m \in todo : files["deferred"][m] # {} /\ files["deferred"][m] \in Job
  BY DEF IInv, TypeOK, FilesOK, Present, Queue
<1>3. TypeOK'
  BY <1>1, <1>2 DEF IInv, TypeOK, Steps
<1>4. VersionsOK' /\ IntentKept'
  BY <1>1 DEF IInv, VersionsOK, IntentKept, Covered, Active, Present, Owed
<1>5. FilesOK' /\ AnswersOK'
  BY <1>1, <1>2 DEF IInv, FilesOK, AnswersOK, PromoteSteps, JobSteps, Present
<1> QED
  BY <1>3, <1>4, <1>5 DEF IInv

\* It is given a name.
LEMMA PromoteNameStep ==
  ASSUME IInv, PromoteName
  PROVE  IInv'
<1> USE DEF PromoteName, queue, archive, history
<1>1. job \in Name
  BY DEF IInv, FilesOK, PromoteSteps
<1>2. dest' \in Name /\ SessionOf(dest') = SessionOf(job)
  BY <1>1, FreeNameFacts
<1>3. TypeOK'
  BY <1>2 DEF IInv, TypeOK, Steps
<1>4. VersionsOK' /\ IntentKept'
  BY DEF IInv, VersionsOK, IntentKept, Covered, Active, Present, Owed
<1>5. FilesOK' /\ AnswersOK'
  BY <1>2 DEF IInv, FilesOK, AnswersOK, PromoteSteps, JobSteps, Present, SessionOf
<1> QED
  BY <1>3, <1>4, <1>5 DEF IInv

\* It is written to pending/.
LEMMA PromoteWriteStep ==
  ASSUME IInv, PromoteWrite
  PROVE  IInv'
<1> USE DEF PromoteWrite, archive, history
<1>1. /\ job \in Name /\ dest \in Name /\ SessionOf(dest) = SessionOf(job)
      /\ mem # {} /\ mem \in Job
  BY DEF IInv, TypeOK, FilesOK, PromoteSteps
<1>2. /\ files' \in [Queue -> [Name -> Job]]
      /\ \A p \in Queue : Present(p) \subseteq Present(p)'
      /\ dest \in Present("pending")'
      /\ \A s \in Session : Queued(s) => Queued(s)'
  BY <1>1, PutFacts, "pending" \in Queue DEF IInv, TypeOK, Queue
<1>3. TypeOK'
  BY <1>2 DEF IInv, TypeOK, Steps
<1>4. VersionsOK'
  BY DEF IInv, VersionsOK
<1>5. FilesOK' /\ AnswersOK'
  BY <1>1, <1>2 DEF IInv, FilesOK, AnswersOK, PromoteSteps, JobSteps, Present, Queue
<1>6. IntentKept'
  <2>1. \A s \in Session : Active(s) => Active(s)'
    BY <1>2 DEF Active, Queued
  <2> QED
    BY <2>1 DEF IInv, IntentKept, Covered, Owed
<1> QED
  BY <1>3, <1>4, <1>5, <1>6 DEF IInv

\* The deferred file is unlinked: its session is queued by the promoted one.
LEMMA PromoteUnlinkStep ==
  ASSUME IInv, PromoteUnlink
  PROVE  IInv'
<1> USE DEF PromoteUnlink, archive, history
<1>1. /\ job \in Name /\ job \notin todo
      /\ dest \in Name /\ SessionOf(dest) = SessionOf(job) /\ files["pending"][dest] # {}
  BY DEF IInv, FilesOK, PromoteSteps
<1>2. /\ files' \in [Queue -> [Name -> Job]]
      /\ \A p \in Queue : Present(p) \subseteq Present(p)' \union {job}
      /\ Present("pending") \subseteq Present("pending")'
      /\ \A s \in Session : s # SessionOf(job) /\ Queued(s) => Queued(s)'
  BY <1>1, RemoveFacts, "deferred" \in Queue, "pending" \in Queue DEF IInv, TypeOK, Queue
<1>3. TypeOK'
  BY <1>2 DEF IInv, TypeOK, Steps
<1>4. VersionsOK'
  BY DEF IInv, VersionsOK
<1>5. FilesOK' /\ AnswersOK'
  BY <1>1, <1>2 DEF IInv, FilesOK, AnswersOK, PromoteSteps, JobSteps, Present, Queue
<1>6. IntentKept'
  <2>1. dest \in Present("pending")'
    BY <1>1, <1>2 DEF Present
  <2>2. \A s \in Session : Queued(s) => Queued(s)'
    BY <1>1, <1>2, <2>1 DEF Queued, Queue
  <2>3. \A s \in Session : Active(s) => Active(s)'
    BY <2>2 DEF Active, Queued
  <2> QED
    BY <2>3 DEF IInv, IntentKept, Covered, Owed
<1> QED
  BY <1>3, <1>4, <1>5, <1>6 DEF IInv

-----------------------------------------------------------------------------
(* The worker: jobs.                                                       *)

\* The names that are pending are noted.
LEMMA SnapshotStep ==
  ASSUME IInv, Snapshot
  PROVE  IInv'
<1> USE DEF Snapshot, queue, archive, history
<1>1. TypeOK'
  BY JobConstants DEF IInv, TypeOK, Steps, Present
<1>2. VersionsOK' /\ IntentKept'
  BY DEF IInv, VersionsOK, IntentKept, Covered, Active, Present, Owed
<1>3. FilesOK' /\ AnswersOK'
  BY DEF FilesOK, AnswersOK, PromoteSteps, JobSteps
<1> QED
  BY <1>1, <1>2, <1>3 DEF IInv

\* A batch within the limit is listed.
LEMMA ListStep ==
  ASSUME IInv, List
  PROVE  IInv'
<1> USE DEF List, queue, archive, history
<1>1. todo' \subseteq Present("pending") /\ Cardinality(todo') <= left
  BY DEF Listed
<1>2. TypeOK'
  BY <1>1 DEF IInv, TypeOK, Steps, Present
<1>3. VersionsOK' /\ IntentKept'
  BY DEF IInv, VersionsOK, IntentKept, Covered, Active, Present, Owed
<1>4. FilesOK' /\ AnswersOK'
  BY <1>1 DEF FilesOK, AnswersOK, PromoteSteps, JobSteps, Present
<1> QED
  BY <1>2, <1>3, <1>4 DEF IInv

\* The worker is done.
LEMMA EndStep ==
  ASSUME IInv, End
  PROVE  IInv'
<1> USE DEF End, Ended, queue, archive, history
<1>1. TypeOK'
  <2>1. plan' \in [Session -> [queue : Queue \union {"none"},
                              sources : SUBSET (Queue \X Name), merged : Job]]
    BY DEF NoPlan, Job
  <2>2. pc' \in Steps /\ left' \in 0..Limit /\ mem' \in Job /\ base' \in Version
    BY JobConstants DEF Steps, Job, Version
  <2> QED
    BY <2>1, <2>2 DEF IInv, TypeOK
<1>2. VersionsOK' /\ IntentKept'
  BY DEF IInv, VersionsOK, IntentKept, Covered, Active, Present, Owed
<1>3. FilesOK' /\ AnswersOK'
  BY DEF FilesOK, AnswersOK, PromoteSteps, JobSteps
<1> QED
  BY <1>1, <1>2, <1>3 DEF IInv

\* A file is claimed: its job is running instead of pending.
LEMMA ClaimStep ==
  ASSUME IInv, Claim
  PROVE  IInv'
<1> USE DEF Claim, archive, history
<1>1. PICK n \in todo :
        /\ todo' = todo \ {n}
        /\ files' = [files EXCEPT !["pending"][n] = {}]
        /\ running' = [running EXCEPT ![n] = files["pending"][n]]
        /\ mem' = files["pending"][n]
        /\ job' = n
        /\ base' = source[SessionOf(n)]
  OBVIOUS
<1>2. /\ todo \subseteq Present("pending")
      /\ n \in Name /\ files["pending"][n] # {} /\ files["pending"][n] \in Job
  BY DEF IInv, TypeOK, FilesOK, Present, Queue
<1>3. /\ files' \in [Queue -> [Name -> Job]]
      /\ \A p \in Queue : Present(p) \subseteq Present(p)' \union {n}
      /\ \A s \in Session : s # SessionOf(n) /\ Queued(s) => Queued(s)'
  BY <1>1, <1>2, RemoveFacts, "pending" \in Queue DEF IInv, TypeOK, Queue, Put
<1>4. SessionOf(n) \in Session
  BY <1>2, NameFacts
<1>5. /\ running' \in [Name -> Job]
      /\ running'[n] # {}
      /\ \A m \in Name : m # n => running'[m] = running[m]
  BY <1>1, <1>2 DEF IInv, TypeOK
<1>6. TypeOK'
  BY <1>1, <1>2, <1>3, <1>4, <1>5 DEF IInv, TypeOK, Steps
<1>7. VersionsOK'
  BY DEF IInv, VersionsOK
<1>8. FilesOK'
  <2>1. IsFiniteSet(todo)
    BY NamesFinite, FS_Subset DEF IInv, TypeOK
  <2>2. Cardinality(todo') = Cardinality(todo) - 1 /\ Cardinality(todo) \in Nat
    BY <1>1, <2>1, FS_RemoveElement, FS_CardinalityType
  <2>3. Cardinality(todo') < left'
    BY <2>2, JobConstants DEF IInv, TypeOK, FilesOK
  <2>4. todo' \subseteq Present("pending")'
    BY <1>1, <1>2, <1>3 DEF Queue
  <2> QED
    BY <1>1, <1>2, <2>3, <2>4 DEF FilesOK, PromoteSteps, JobSteps
<1>9. AnswersOK'
  <2>1. source[SessionOf(n)] \in Nat
    BY <1>4, JobConstants DEF IInv, TypeOK, Version
  <2> QED
    BY <1>1, <1>4, <2>1 DEF IInv, VersionsOK, AnswersOK, JobSteps, SessionOf
<1>10. IntentKept'
  <2>1. \A s \in Session : Active(s) => Active(s)'
    BY <1>2, <1>3, <1>5 DEF Active, Queued
  <2> QED
    BY <2>1 DEF IInv, IntentKept, Covered, Owed
<1> QED
  BY <1>6, <1>7, <1>8, <1>9, <1>10 DEF IInv

\* The job in hand is a job of a session.
LEMMA JobFacts ==
  ASSUME IInv, pc \in JobSteps
  PROVE  /\ job \in Name /\ mem # {} /\ SessionOf(job) \in Session
         /\ base \in Nat /\ source[SessionOf(job)] \in Nat
         /\ synced[SessionOf(job)] \in Nat /\ failedAt[SessionOf(job)] \in Nat
         /\ \A s \in Session : \A v \in accepted[s] : v \in Nat
BY NameFacts, JobConstants DEF IInv, TypeOK, FilesOK, Version, Job, Signal

\* What the job needs is decided on the transcript as it is now.
LEMMA DecideStep ==
  ASSUME IInv, Decide
  PROVE  IInv'
<1> USE DEF Decide, queue, archive, history
<1>1. pc' \in JobSteps /\ base' = source[SessionOf(job)]
  BY DEF JobSteps
<1>2. SessionOf(job) \in Session /\ source[SessionOf(job)] \in Nat
  BY JobFacts DEF JobSteps
<1>3. TypeOK'
  BY <1>2 DEF IInv, TypeOK, Steps
<1>4. VersionsOK' /\ IntentKept'
  BY DEF IInv, VersionsOK, IntentKept, Covered, Active, Present, Owed
<1>5. FilesOK'
  BY DEF IInv, FilesOK, JobSteps, PromoteSteps, Present
<1>6. AnswersOK'
  BY <1>2 DEF IInv, VersionsOK, AnswersOK, JobSteps, SessionOf
<1> QED
  BY <1>3, <1>4, <1>5, <1>6 DEF IInv

\* The archive is published from what the sync began to read.
LEMMA PublishStep ==
  ASSUME IInv, Publish
  PROVE  IInv'
<1> USE DEF Publish, queue, history
<1>1. /\ SessionOf(job) \in Session
      /\ base \in Nat /\ synced[SessionOf(job)] \in Nat
      /\ base <= source[SessionOf(job)] /\ synced[SessionOf(job)] <= base
      /\ source[SessionOf(job)] \in Nat
  BY JobFacts DEF IInv, AnswersOK, JobSteps
<1>2. /\ synced' \in [Session -> Version]
      /\ synced'[SessionOf(job)] = base
      /\ \A s \in Session : s # SessionOf(job) => synced'[s] = synced[s]
  BY <1>1 DEF IInv, TypeOK
<1>3. TypeOK'
  BY <1>2 DEF IInv, TypeOK, Steps
<1>4. VersionsOK'
  BY <1>1, <1>2 DEF IInv, VersionsOK
<1>5. FilesOK'
  BY DEF IInv, FilesOK, JobSteps, PromoteSteps, Present
<1>6. AnswersOK'
  BY <1>1, <1>2 DEF IInv, AnswersOK, JobSteps, Queued, Present
<1>7. IntentKept'
  <2>1. \A s \in Session : \A v \in accepted[s] :
          v \in Nat /\ synced[s] \in Nat /\ synced'[s] \in Nat
    BY <1>2, JobConstants DEF IInv, TypeOK, Version, Job, Signal
  <2>2. \A s \in Session : synced[s] <= synced'[s]
    BY <1>1, <1>2, JobConstants DEF IInv, TypeOK, Version
  <2> QED
    BY <2>1, <2>2 DEF IInv, IntentKept, Covered, Active, Present, Owed
<1> QED
  BY <1>3, <1>4, <1>5, <1>6, <1>7 DEF IInv

\* Reading or publishing raises.
LEMMA RaiseStep ==
  ASSUME IInv, Raise
  PROVE  IInv'
<1> USE DEF Raise, queue, archive
<1>1. TypeOK'
  BY JobConstants DEF IInv, TypeOK, Steps
<1>2. VersionsOK' /\ IntentKept'
  BY DEF IInv, VersionsOK, IntentKept, Covered, Active, Present, Owed
<1>3. FilesOK'
  BY DEF IInv, FilesOK, JobSteps, PromoteSteps, Present
<1>4. AnswersOK'
  BY DEF IInv, AnswersOK, JobSteps, Queued, Present
<1> QED
  BY <1>1, <1>2, <1>3, <1>4 DEF IInv

\* A job over budget is queued in deferred/.
LEMMA DeferStep ==
  ASSUME IInv, Defer
  PROVE  IInv'
<1> USE DEF Defer, archive, history
<1>1. job \in Name /\ mem # {} /\ mem \in Job /\ SessionOf(job) \in Session
  BY JobFacts DEF JobSteps, IInv, TypeOK
<1>2. /\ files' \in [Queue -> [Name -> Job]]
      /\ \A p \in Queue : Present(p) \subseteq Present(p)'
      /\ \A s \in Session : Queued(s) \/ s = SessionOf(job) => Queued(s)'
  BY <1>1, PutFacts, "deferred" \in Queue DEF IInv, TypeOK, Queue
<1>3. TypeOK'
  BY <1>2 DEF IInv, TypeOK, Steps
<1>4. VersionsOK'
  BY DEF IInv, VersionsOK
<1>5. FilesOK'
  BY <1>2 DEF IInv, FilesOK, JobSteps, PromoteSteps, Queue
<1>6. AnswersOK'
  BY <1>1, <1>2 DEF IInv, AnswersOK, JobSteps, Queued
<1>7. IntentKept'
  <2>1. \A s \in Session : Active(s) => Active(s)'
    BY <1>2 DEF Active, Queued
  <2> QED
    BY <2>1 DEF IInv, IntentKept, Covered, Owed
<1> QED
  BY <1>3, <1>4, <1>5, <1>6, <1>7 DEF IInv

\* The receipt of the job is written.
LEMMA RetireStep ==
  ASSUME IInv, Retire
  PROVE  IInv'
<1> USE DEF Retire, queue, archive
<1> DEFINE s == SessionOf(job)
<1>1. /\ s \in Session /\ base \in Nat /\ failedAt[s] \in Nat
      /\ base <= source[s]
      /\ pc = "fail" => failedAt[s] <= base
      /\ mem \in Job /\ base \in Version
  BY JobFacts DEF IInv, TypeOK, AnswersOK, JobSteps
<1>2. /\ failedAt' \in [Session -> Version]
      /\ \A t \in Session : t # s => failedAt'[t] = failedAt[t]
      /\ failedAt'[s] = IF pc = "fail" THEN base ELSE failedAt[s]
  BY <1>1 DEF IInv, TypeOK
<1>3. TypeOK'
  <2>1. executed' \in [Session -> Job]
    BY <1>1 DEF IInv, TypeOK, Job
  <2> QED
    BY <1>2, <2>1 DEF IInv, TypeOK, Steps
<1>4. VersionsOK'
  BY <1>1, <1>2 DEF IInv, VersionsOK
<1>5. FilesOK'
  BY DEF IInv, FilesOK, JobSteps, PromoteSteps, Present
<1>6. AnswersOK'
  BY <1>1, <1>2 DEF IInv, AnswersOK, JobSteps, Queued, Present, Covered
<1>7. IntentKept'
  <2>1. \A t \in Session : \A v \in accepted[t] :
          v \in Nat /\ failedAt[t] \in Nat /\ failedAt'[t] \in Nat
    BY <1>2, JobConstants DEF IInv, TypeOK, Version, Job, Signal
  <2>2. \A t \in Session : failedAt[t] <= failedAt'[t]
    BY <1>1, <1>2, JobConstants DEF IInv, TypeOK, Version
  <2> QED
    BY <2>1, <2>2 DEF IInv, IntentKept, Covered, Active, Present, Owed
<1> QED
  BY <1>3, <1>4, <1>5, <1>6, <1>7 DEF IInv

\* The job leaves running/: what it answered is covered, the rest is queued.
LEMMA UnlinkStep ==
  ASSUME IInv, Unlink
  PROVE  IInv'
<1> USE DEF Unlink, archive, history
<1>1. SessionOf(job) \in Session
  BY JobFacts DEF JobSteps
<1>2. Cardinality(todo) \in Nat /\ Cardinality(todo) < left /\ left \in 0..Limit
  BY NamesFinite, FS_Subset, FS_CardinalityType DEF IInv, TypeOK, FilesOK, JobSteps
<1>3. TypeOK'
  <2>1. left' \in 0..Limit
    BY <1>2, JobConstants
  <2>2. running' \in [Name -> Job]
    BY DEF IInv, TypeOK, Job
  <2> QED
    BY <2>1, <2>2 DEF IInv, TypeOK, Steps
<1>4. VersionsOK'
  BY DEF IInv, VersionsOK
<1>5. FilesOK' /\ AnswersOK'
  BY <1>2, JobConstants DEF IInv, FilesOK, AnswersOK, JobSteps, PromoteSteps, Present
<1>6. IntentKept'
  <2>1. \A m \in Name : m # job => running'[m] = running[m]
    BY DEF IInv, TypeOK
  <2>2. \A s \in Session : s # SessionOf(job) /\ Active(s) => Active(s)'
    BY <2>1 DEF Active, Present
  <2>3. \A s \in Session : Queued(s) => Active(s)'
    BY DEF Active, Queued, Present
  <2>4. \A v \in accepted[SessionOf(job)] :
          Queued(SessionOf(job)) \/ Covered(SessionOf(job), v)
    BY DEF IInv, AnswersOK, JobSteps
  <2> QED
    BY <1>1, <2>2, <2>3, <2>4 DEF IInv, IntentKept, Covered, Owed
<1> QED
  BY <1>3, <1>4, <1>5, <1>6 DEF IInv

-----------------------------------------------------------------------------

\* Every step of a worker preserves the invariant.
LEMMA WorkerStep ==
  ASSUME IInv, Worker
  PROVE  IInv'
<1>1. CASE RecoverName \/ RecoverMove \/ Recovered
  BY <1>1, RecoverNameStep, RecoverMoveStep, RecoveredStep
<1>2. CASE Group \/ Coalesced
  BY <1>2, GroupStep, CoalescedStep
<1>3. ASSUME NEW s \in Session, Supersede(s) \/ WriteMerged(s)
      PROVE  IInv'
  BY <1>3, SupersedeStep, WriteMergedStep
<1>4. CASE PromoteRead \/ PromoteName \/ PromoteWrite \/ PromoteUnlink
  BY <1>4, PromoteReadStep, PromoteNameStep, PromoteWriteStep, PromoteUnlinkStep
<1>5. CASE Snapshot \/ List \/ Claim \/ End
  BY <1>5, SnapshotStep, ListStep, ClaimStep, EndStep
<1>6. CASE Decide \/ Publish \/ Defer \/ Retire \/ Unlink
  BY <1>6, DecideStep, PublishStep, DeferStep, RetireStep, UnlinkStep
<1> QED
  BY <1>1, <1>2, <1>3, <1>4, <1>5, <1>6 DEF Worker

\* A stuttering step changes nothing the invariant reads.
LEMMA StutterStep ==
  ASSUME IInv, UNCHANGED vars
  PROVE  IInv'
<1> USE DEF vars, queue, archive, worker, history
<1>1. TypeOK'
  BY DEF IInv, TypeOK
<1>2. VersionsOK' /\ FilesOK'
  BY DEF IInv, VersionsOK, FilesOK, Present
<1>3. AnswersOK'
  BY DEF IInv, AnswersOK, Queued, Present, Covered
<1>4. IntentKept'
  BY DEF IInv, IntentKept, Covered, Active, Present, Owed
<1> QED
  BY <1>1, <1>2, <1>3, <1>4 DEF IInv

\* Every step preserves the invariant.
LEMMA NextStep ==
  ASSUME IInv, [Next]_vars
  PROVE  IInv'
<1>1. ASSUME NEW s \in Session, HookLooks(s) \/ SyncElsewhere(s) \/ BudgetAdmits(s)
      PROVE  IInv'
  BY <1>1, HookLooksStep, SyncElsewhereStep, BudgetAdmitsStep
<1>2. CASE Hook
  BY <1>2, HookReadsStep, HookWritesStep DEF Hook
<1>3. CASE StartWorker
  BY <1>3, StartWorkerStep
<1>4. CASE Worker
  BY <1>4, WorkerStep
<1>5. CASE Raise
  BY <1>5, RaiseStep
<1>6. CASE WorkerCrash \/ HookCrash
  BY <1>6, WorkerCrashStep, HookCrashStep
<1>7. CASE UNCHANGED vars
  BY <1>7, StutterStep
<1> QED
  BY <1>1, <1>2, <1>3, <1>4, <1>5, <1>6, <1>7 DEF Next

\* IInv holds in every reachable state.
THEOREM Invariant == Spec => []IInv
<1>1. Init => IInv
  BY InitIInv
<1>2. IInv /\ [Next]_vars => IInv'
  BY NextStep
<1> QED
  BY <1>1, <1>2, PTL DEF Spec

\* Every variable of the job queue stays within its type, and a worker runs no
\* more jobs than its limit.
THEOREM TypeCorrect == Spec => []TypeOK
<1>1. IInv => TypeOK
  BY DEF IInv
<1> QED
  BY <1>1, Invariant, PTL

\* However hooks and the worker race for a job file and whatever dies, a queued
\* signal stays answered by the archive, by a job or by the merge in hand; only
\* a worker that dies in the middle of a merge drops it.
THEOREM IntentSurvives == Spec => []IntentKept
<1>1. IInv => IntentKept
  BY DEF IInv
<1> QED
  BY <1>1, Invariant, PTL

-----------------------------------------------------------------------------
(* How many files a session has.  A promoted or requeued file gets another *)
(* name if the stable one is taken; each worker merges such files before   *)
(* it makes new ones, so that they do not pile up: from one worker to the  *)
(* next there are at most two, among those that a dead worker left in      *)
(* running/ and those in the queues.                                       *)

AtMostOne(S) == \A x, y \in S : x = y
AtMostTwo(S) == \A x, y, z \in S : x = y \/ x = z \/ y = z

\* The files of a session in the queues that do not have its stable name.
Renamed(s) == {e \in Queue \X Name :
                  SessionOf(e[2]) = s /\ e[2] # Stable(s) /\ files[e[1]][e[2]] # {}}

\* The files of a session in running/.
Runs(s) == {e \in {"running"} \X Name : SessionOf(e[2]) = s /\ running[e[2]] # {}}

Extra(s) == Renamed(s) \union Runs(s)

\* Only orphans and the job in hand are in running/.
RunningOK ==
    pc \notin {"off", "recover", "recover_move"} =>
      \A n \in Name : running[n] # {} => pc \in JobSteps /\ n = job

\* Coalescing moves every renamed file away.
MergingOK == pc = "coalesce" => \A s \in Session : Renamed(s) \subseteq plan[s].sources

\* The deferred job of a session is promoted at most once, and takes a new name
\* only where no other file has one.
PromotingOK ==
    pc \in {"promote"} \union PromoteSteps =>
      /\ \A n \in todo : n = Stable(SessionOf(n))
      /\ pc \in {"promote_name", "promote_write"} => job = Stable(SessionOf(job))
      /\ \A s \in Session :
           /\ AtMostOne(Renamed(s))
           /\ Stable(s) \in todo => Renamed(s) = {}
           /\ pc \in {"promote_name", "promote_write"} /\ SessionOf(job) = s => Renamed(s) = {}

\* A job under another name is the only file of its session that has one.
ClaimingOK ==
    /\ pc \in {"list", "claim"} \union JobSteps => \A s \in Session : AtMostOne(Renamed(s))
    /\ pc \in JobSteps /\ job # Stable(SessionOf(job)) =>
         Renamed(SessionOf(job)) \subseteq {<<"deferred", job>>}

CountOK == \A s \in Session : AtMostTwo(Extra(s))

BInv == RunningOK /\ MergingOK /\ PromotingOK /\ ClaimingOK /\ CountOK


-----------------------------------------------------------------------------

\* Fewer files are still at most one or two.
LEMMA Fewer ==
  ASSUME NEW S, NEW T, S \subseteq T
  PROVE  /\ AtMostOne(T) => AtMostOne(S)
         /\ AtMostTwo(T) => AtMostTwo(S)
BY DEF AtMostOne, AtMostTwo

\* One file in the queues and one in running/ are at most two.
LEMMA OneAndOne ==
  ASSUME NEW S, NEW T, AtMostOne(S), AtMostOne(T)
  PROVE  AtMostTwo(S \union T)
BY DEF AtMostOne, AtMostTwo

\* A file that moves is still one.
LEMMA OneMoves ==
  ASSUME NEW S, NEW a \in S, NEW b, NEW T, T \subseteq (S \ {a}) \union {b}, AtMostTwo(S)
  PROVE  AtMostTwo(T)
BY DEF AtMostTwo

\* The files of a session are the stable ones and the renamed ones.
LEMMA EntriesAreFew ==
  ASSUME NEW s \in Session, AtMostTwo(Renamed(s))
  PROVE  Cardinality(Entries(s)) <= 4
<1> DEFINE St == {<<"pending", Stable(s)>>, <<"deferred", Stable(s)>>}
<1>1. Entries(s) \subseteq St \union Renamed(s)
  BY DEF Entries, Renamed, Queue
<1>2. PICK a, b : Renamed(s) \subseteq {a, b}
  BY DEF AtMostTwo
<1> DEFINE p == <<"pending", Stable(s)>>
           d == <<"deferred", Stable(s)>>
<1>3. Entries(s) \subseteq {p, d} \union {a, b}
  BY <1>1, <1>2
<1> HIDE DEF p, d
<1>4. \A x, y : /\ IsFiniteSet({x, y})
                /\ Cardinality({x, y}) \in Nat /\ Cardinality({x, y}) <= 2
  <2> TAKE x, y
  <2>1. IsFiniteSet({}) /\ Cardinality({}) = 0
    BY FS_EmptySet
  <2>2. /\ IsFiniteSet({} \union {x})
        /\ Cardinality({} \union {x}) = 1
    BY <2>1, FS_AddElement
  <2>3. {} \union {x} = {x} /\ {x} \union {y} = {x, y}
    OBVIOUS
  <2>4. /\ IsFiniteSet({x} \union {y})
        /\ Cardinality({x} \union {y}) = 1 \/ Cardinality({x} \union {y}) = 2
    BY <2>2, <2>3, FS_AddElement
  <2> QED
    BY <2>3, <2>4
<1>5. /\ IsFiniteSet({p, d} \union {a, b})
      /\ Cardinality({p, d} \union {a, b}) <= 4
  <2> DEFINE A == {p, d}
             B == {a, b}
  <2>1. /\ IsFiniteSet(A) /\ Cardinality(A) \in Nat /\ Cardinality(A) <= 2
        /\ IsFiniteSet(B) /\ Cardinality(B) \in Nat /\ Cardinality(B) <= 2
    BY <1>4
  <2> HIDE DEF A, B
  <2>2. /\ IsFiniteSet(A \union B) /\ IsFiniteSet(A \intersect B)
        /\ Cardinality(A \union B) = Cardinality(A) + Cardinality(B) - Cardinality(A \intersect B)
    BY <2>1, FS_Union, FS_Intersection
  <2>3. Cardinality(A \intersect B) \in Nat
    BY <2>2, FS_CardinalityType
  <2>4. Cardinality(A \union B) <= 4
    BY <2>1, <2>2, <2>3
  <2> QED
    BY <2>2, <2>4 DEF A, B
<1> QED
  BY <1>3, <1>5, FS_Subset, FS_CardinalityType

\* What a write does to the renamed files of each session.
LEMMA PutRenamed ==
  ASSUME files \in [Queue -> [Name -> Job]],
         NEW q \in Queue, NEW n \in Name, NEW S, Put(q, n, S), NEW s \in Session
  PROVE  /\ Renamed(s)' \subseteq Renamed(s) \union {<<q, n>>}
         /\ n = Stable(s) \/ s # SessionOf(n) \/ S = {} => Renamed(s)' \subseteq Renamed(s)
         /\ S = {} => <<q, n>> \notin Renamed(s)'
<1>1. \A p \in Queue, m \in Name :
        files'[p][m] = IF p = q /\ m = n THEN S ELSE files[p][m]
  BY DEF Put
<1>2. ASSUME NEW p \in Queue, NEW m \in Name, p # q \/ m # n
      PROVE  files'[p][m] = files[p][m]
  BY <1>1, <1>2
<1>3. files'[q][n] = S
  BY <1>1
<1> QED
  BY <1>2, <1>3 DEF Renamed

\* Where no file changes, none is renamed and none starts to run.
LEMMA SameFiles ==
  ASSUME UNCHANGED <<files, running>>, NEW s
  PROVE  Renamed(s)' = Renamed(s) /\ Runs(s)' = Runs(s) /\ Extra(s)' = Extra(s)
BY DEF Renamed, Runs, Extra

\* What is in running/ stays a job of its session.
LEMMA SameRuns ==
  ASSUME UNCHANGED running, NEW s
  PROVE  Runs(s)' = Runs(s)
BY DEF Runs

\* After recovery a session has at most one running job, the one in hand.
LEMMA RunsAreOne ==
  ASSUME RunningOK, pc \notin {"off", "recover", "recover_move"}, NEW s
  PROVE  AtMostOne(Runs(s)) /\ (pc \notin JobSteps => Runs(s) = {})
BY DEF RunningOK, Runs, AtMostOne

LEMMA InitBInv ==
  ASSUME Init
  PROVE  BInv
<1>1. pc = "off" /\ running = [n \in Name |-> {}]
  BY DEF Init
<1>2. PICK S \in SUBSET Session, q \in Queue :
        files = [p \in Queue |-> [n \in Name |->
           IF p = q /\ SessionOf(n) \in S /\ n[2] = 1 THEN {1} ELSE {}]]
  BY DEF Init
<1>3. ASSUME NEW s \in Session PROVE AtMostTwo(Extra(s))
  <2>1. Runs(s) = {}
    BY <1>1 DEF Runs
  <2>2. \A e \in Renamed(s) : e = <<q, <<s, 1>> >>
    BY <1>2 DEF Renamed, Name, SessionOf
  <2> QED
    BY <2>1, <2>2 DEF AtMostTwo, Extra
<1> QED
  BY <1>1, <1>3 DEF BInv, RunningOK, MergingOK, PromotingOK, ClaimingOK, CountOK,
    PromoteSteps, JobSteps

\* Steps of hooks and of the world do not rename files.
LEMMA OthersKeepBInv ==
  ASSUME IInv, BInv, UNCHANGED <<running, worker>>,
         \A s \in Session : Renamed(s)' \subseteq Renamed(s)
  PROVE  BInv'
<1>1. \A s \in Session : Runs(s)' = Runs(s)
  BY SameRuns
<1>2. \A s \in Session : /\ Extra(s)' \subseteq Extra(s)
                         /\ AtMostOne(Renamed(s)) => AtMostOne(Renamed(s))'
  BY <1>1 DEF Extra, AtMostOne
<1>3. CountOK'
  BY <1>2, Fewer DEF BInv, CountOK, AtMostTwo
<1>4. RunningOK'
  BY DEF BInv, RunningOK, worker
<1>5. MergingOK'
  BY DEF BInv, MergingOK, worker
<1>6. PromotingOK'
  BY <1>2 DEF BInv, PromotingOK, worker, Stable, SessionOf
<1>7. ClaimingOK'
  <2>1. pc \in JobSteps => SessionOf(job) \in Session
    BY JobFacts
  <2>2. pc \in JobSteps => Renamed(SessionOf(job))' \subseteq Renamed(SessionOf(job))
    <3> SUFFICES ASSUME pc \in JobSteps
                 PROVE  Renamed(SessionOf(job))' \subseteq Renamed(SessionOf(job))
      OBVIOUS
    <3>1. PICK t \in Session : t = SessionOf(job)
      BY <2>1
    <3>2. Renamed(t)' \subseteq Renamed(t)
      OBVIOUS
    <3> QED
      BY <3>1, <3>2 DEF Renamed, SessionOf, Stable, worker
  <2> QED
    BY <1>2, <2>2 DEF BInv, ClaimingOK, worker, Stable, SessionOf
<1> QED
  BY <1>3, <1>4, <1>5, <1>6, <1>7 DEF BInv

LEMMA HookKeepsBInv ==
  ASSUME IInv, BInv, HookWrites
  PROVE  BInv'
<1>1. /\ UNCHANGED <<running, worker>>
      /\ Put(hook.queue, Stable(hook.session), hook.merged)
  BY DEF HookWrites
<1>2. hook.queue \in Queue /\ hook.session \in Session
  BY DEF IInv, TypeOK, NoHook, HookWrites
<1>3. Stable(hook.session) \in Name /\ SessionOf(Stable(hook.session)) = hook.session
  BY <1>2, NameFacts
<1>4. ASSUME NEW s \in Session PROVE Renamed(s)' \subseteq Renamed(s)
  <2>1. Stable(hook.session) = Stable(s) \/ s # SessionOf(Stable(hook.session))
    BY <1>3
  <2> QED
    BY <1>1, <1>2, <1>3, <2>1, PutRenamed DEF IInv, TypeOK
<1> QED
  BY <1>1, <1>4, OthersKeepBInv


\* Steps of the worker that change no file.
LEMMA QuietCount ==
  ASSUME BInv, UNCHANGED <<files, running>>
  PROVE  /\ CountOK'
         /\ \A s \in Session : Renamed(s)' = Renamed(s)
<1>1. \A s \in Session : Renamed(s)' = Renamed(s) /\ Extra(s)' = Extra(s)
  BY SameFiles
<1> QED
  BY <1>1 DEF BInv, CountOK, AtMostTwo

\* The worker starts, names an orphan, ends, or dies: it counts on nothing.
LEMMA OffKeepsBInv ==
  ASSUME BInv, UNCHANGED <<files, running>>, pc' \in {"off", "recover", "recover_move"}
  PROVE  BInv'
BY QuietCount DEF BInv, RunningOK, MergingOK, PromotingOK, ClaimingOK, PromoteSteps, JobSteps

LEMMA RecoveredKeepsBInv ==
  ASSUME BInv, Recovered
  PROVE  BInv'
<1>1. UNCHANGED <<files, running>> /\ pc' = "group"
  BY DEF Recovered, queue
<1>2. RunningOK'
  BY DEF Recovered, RunningOK, queue
<1> QED
  BY <1>1, <1>2, QuietCount
  DEF BInv, MergingOK, PromotingOK, ClaimingOK, PromoteSteps, JobSteps

LEMMA GroupKeepsBInv ==
  ASSUME BInv, Group
  PROVE  BInv'
<1>1. UNCHANGED <<files, running>> /\ pc = "group" /\ pc' = "coalesce"
      /\ plan' = [s \in Session |-> PlanFor(s)]
  BY DEF Group, queue
<1>2. ASSUME NEW s \in Session PROVE Renamed(s) \subseteq PlanFor(s).sources
  <2> DEFINE q == IF \E e \in Entries(s) : e[1] = "pending" THEN "pending" ELSE "deferred"
             merged == UNION {files[e[1]][e[2]] : e \in Entries(s)}
  <2>1. PlanFor(s) = IF Entries(s) \subseteq {<<q, Stable(s)>>} THEN NoPlan
                     ELSE [queue |-> q, sources |-> Entries(s) \ {<<q, Stable(s)>>},
                           merged |-> merged]
    BY DEF PlanFor
  <2> HIDE DEF q, merged
  <2>2. Renamed(s) \subseteq Entries(s) \ {<<q, Stable(s)>>}
    BY DEF Renamed, Entries
  <2>3. CASE Entries(s) \subseteq {<<q, Stable(s)>>}
    BY <2>2, <2>3
  <2>4. CASE ~(Entries(s) \subseteq {<<q, Stable(s)>>})
    BY <2>1, <2>2, <2>4
  <2> QED
    BY <2>3, <2>4
<1>3. MergingOK'
  BY <1>1, <1>2, QuietCount DEF MergingOK
<1>4. RunningOK'
  BY <1>1 DEF BInv, RunningOK, JobSteps
<1> QED
  BY <1>1, <1>3, <1>4, QuietCount
  DEF BInv, PromotingOK, ClaimingOK, PromoteSteps, JobSteps

LEMMA CoalescedKeepsBInv ==
  ASSUME BInv, Coalesced
  PROVE  BInv'
<1>1. /\ UNCHANGED <<files, running>> /\ pc = "coalesce" /\ pc' = "promote"
      /\ \A s \in Session : plan[s] = NoPlan
      /\ todo' = Present("deferred")
  BY DEF Coalesced, queue
<1>2. \A s \in Session : Renamed(s) = {}
  BY <1>1 DEF BInv, MergingOK, NoPlan
<1>3. \A s \in Session : Renamed(s)' = {}
  BY <1>1, <1>2, QuietCount
<1>4. \A n \in todo' : n = Stable(SessionOf(n))
  <2> SUFFICES ASSUME NEW n \in Name, files["deferred"][n] # {}, n # Stable(SessionOf(n))
               PROVE  FALSE
    BY <1>1 DEF Present
  <2>1. <<"deferred", n>> \in Renamed(SessionOf(n))
    BY DEF Renamed, Queue
  <2> QED
    BY <1>2, <2>1, NameFacts
<1>5. PromotingOK'
  BY <1>1, <1>3, <1>4 DEF PromotingOK, AtMostOne
<1>6. RunningOK'
  BY <1>1 DEF BInv, RunningOK, JobSteps
<1> QED
  BY <1>1, <1>5, <1>6, QuietCount DEF BInv, MergingOK, ClaimingOK, JobSteps

LEMMA PromoteReadKeepsBInv ==
  ASSUME IInv, BInv, PromoteRead
  PROVE  BInv'
<1>1. PICK n \in todo :
        /\ todo' = todo \ {n}
        /\ \/ pc' = "promote"
           \/ job' = n /\ pc' = "promote_name"
  BY DEF PromoteRead
<1>2. UNCHANGED <<files, running>> /\ pc = "promote"
  BY DEF PromoteRead, queue
<1>3. n \in Name /\ n = Stable(SessionOf(n)) /\ SessionOf(n) \in Session
  BY <1>2, NameFacts DEF IInv, TypeOK, BInv, PromotingOK
<1>4. Renamed(SessionOf(n)) = {}
  BY <1>2, <1>3 DEF BInv, PromotingOK
<1>5. \A s \in Session : Renamed(s)' = Renamed(s)
  BY <1>2, QuietCount
<1>6. PromotingOK'
  BY <1>1, <1>2, <1>3, <1>4, <1>5 DEF BInv, PromotingOK, PromoteSteps, Stable, SessionOf
<1>7. RunningOK'
  BY <1>1, <1>2 DEF BInv, RunningOK, JobSteps
<1> QED
  BY <1>1, <1>2, <1>6, <1>7, QuietCount DEF BInv, MergingOK, ClaimingOK, JobSteps

LEMMA PromoteNameKeepsBInv ==
  ASSUME BInv, PromoteName
  PROVE  BInv'
<1>1. /\ UNCHANGED <<files, running, job, todo>>
      /\ pc = "promote_name" /\ pc' = "promote_write"
  BY DEF PromoteName, queue
<1>2. PromotingOK'
  BY <1>1, QuietCount DEF BInv, PromotingOK, PromoteSteps
<1>3. RunningOK'
  BY <1>1 DEF BInv, RunningOK, JobSteps
<1> QED
  BY <1>1, <1>2, <1>3, QuietCount DEF BInv, MergingOK, ClaimingOK, JobSteps

LEMMA ListingKeepsBInv ==
  ASSUME BInv, Snapshot \/ List
  PROVE  BInv'
<1>1. UNCHANGED <<files, running>> /\ pc \in {"promote", "list"} /\ pc' \in {"list", "claim"}
  BY DEF Snapshot, List, queue
<1>2. \A s \in Session : AtMostOne(Renamed(s))
  BY <1>1 DEF BInv, PromotingOK, ClaimingOK
<1>3. ClaimingOK'
  BY <1>1, <1>2, QuietCount DEF ClaimingOK, JobSteps
<1>4. RunningOK'
  BY <1>1 DEF BInv, RunningOK, JobSteps
<1> QED
  BY <1>1, <1>3, <1>4, QuietCount DEF BInv, MergingOK, PromotingOK, PromoteSteps

LEMMA DecidingKeepsBInv ==
  ASSUME IInv, BInv, Decide \/ Publish \/ Raise \/ Retire
  PROVE  BInv'
<1>1. UNCHANGED <<files, running, job>> /\ pc \in JobSteps /\ pc' \in JobSteps
  BY DEF Decide, Publish, Raise, Retire, queue, JobSteps
<1>2. SessionOf(job) \in Session
  BY <1>1, JobFacts
<1>3. ClaimingOK'
  BY <1>1, <1>2, QuietCount DEF BInv, ClaimingOK, SessionOf, Stable
<1>4. RunningOK'
  BY <1>1 DEF BInv, RunningOK, JobSteps
<1> QED
  BY <1>1, <1>3, <1>4, QuietCount DEF BInv, MergingOK, PromotingOK, PromoteSteps, JobSteps


\* Where no file is renamed and none starts to run, there are no more of them.
LEMMA FewerCount ==
  ASSUME BInv, \A s \in Session : Renamed(s)' \subseteq Renamed(s) /\ Runs(s)' \subseteq Runs(s)
  PROVE  CountOK'
<1>1. \A s \in Session : Extra(s)' \subseteq Extra(s)
  BY DEF Extra
<1> QED
  BY <1>1 DEF BInv, CountOK, AtMostTwo

\* After recovery the renamed files decide, as at most one job is running.
LEMMA CountAfterRecovery ==
  ASSUME RunningOK', pc' \notin {"off", "recover", "recover_move"},
         \A s \in Session : AtMostOne(Renamed(s)')
  PROVE  CountOK'
<1>1. ASSUME NEW s \in Session PROVE AtMostTwo(Extra(s))'
  <2>1. AtMostOne(Runs(s)')
    BY DEF RunningOK, Runs, AtMostOne
  <2>2. AtMostTwo(Renamed(s)' \union Runs(s)')
    BY <2>1, OneAndOne
  <2> QED
    BY <2>2 DEF Extra, AtMostTwo
<1> QED
  BY <1>1 DEF CountOK

LEMMA RecoverMoveKeepsBInv ==
  ASSUME IInv, BInv, RecoverMove
  PROVE  BInv'
<1>1. /\ pc = "recover_move" /\ pc' = "recover"
      /\ Put("pending", dest, running[job])
      /\ running' = [running EXCEPT ![job] = {}]
  BY DEF RecoverMove
<1>2. /\ job \in Name /\ dest \in Name /\ SessionOf(dest) = SessionOf(job)
      /\ running[job] # {} /\ "pending" \in Queue
  BY <1>1 DEF IInv, FilesOK, Queue
<1>3. \A s \in Session :
        /\ Renamed(s)' \subseteq Renamed(s) \union {<<"pending", dest>>}
        /\ s # SessionOf(job) => Renamed(s)' \subseteq Renamed(s)
  BY <1>1, <1>2, PutRenamed DEF IInv, TypeOK
<1>4. \A n \in Name : running'[n] = IF n = job THEN {} ELSE running[n]
  BY <1>1 DEF IInv, TypeOK
<1>5. \A s \in Session : Runs(s)' \subseteq Runs(s) \ {<<"running", job>>}
  BY <1>2, <1>4 DEF Runs
<1>6. ASSUME NEW s \in Session PROVE AtMostTwo(Extra(s)')
  <2>1. AtMostTwo(Extra(s))
    BY DEF BInv, CountOK
  <2>2. CASE s = SessionOf(job)
    <3>1. <<"running", job>> \in Extra(s)
      BY <1>2, <2>2 DEF Extra, Runs
    <3>2. Extra(s)' \subseteq (Extra(s) \ {<<"running", job>>}) \union {<<"pending", dest>>}
      BY <1>3, <1>5 DEF Extra, Renamed, Queue
    <3> QED
      BY <2>1, <3>1, <3>2, OneMoves
  <2>3. CASE s # SessionOf(job)
    <3>1. Extra(s)' \subseteq Extra(s)
      BY <1>3, <1>5, <2>3 DEF Extra
    <3> QED
      BY <2>1, <3>1, Fewer
  <2> QED
    BY <2>2, <2>3
<1>7. CountOK'
  BY <1>6 DEF CountOK, AtMostTwo
<1> QED
  BY <1>1, <1>7 DEF BInv, RunningOK, MergingOK, PromotingOK, ClaimingOK, PromoteSteps, JobSteps

LEMMA SupersedeKeepsBInv ==
  ASSUME IInv, BInv, NEW s \in Session, Supersede(s)
  PROVE  BInv'
<1>1. PICK e \in plan[s].sources :
        /\ Put(e[1], e[2], {})
        /\ plan' = [plan EXCEPT ![s].sources = @ \ {e}]
  BY DEF Supersede
<1>2. UNCHANGED running /\ pc = "coalesce" /\ pc' = "coalesce"
  BY DEF Supersede
<1>3. plan[s] \in [queue : Queue \union {"none"},
                   sources : SUBSET (Queue \X Name), merged : Job]
  BY DEF IInv, TypeOK
<1>4. e[1] \in Queue /\ e[2] \in Name /\ e = <<e[1], e[2]>>
  BY <1>3
<1>5. \A t \in Session : Renamed(t)' \subseteq Renamed(t) /\ e \notin Renamed(t)'
  BY <1>1, <1>4, PutRenamed DEF IInv, TypeOK
<1>6. \A t \in Session : plan'[t].sources = IF t = s THEN plan[t].sources \ {e} ELSE plan[t].sources
  BY <1>1, <1>3 DEF IInv, TypeOK
<1>7. MergingOK'
  BY <1>2, <1>5, <1>6 DEF BInv, MergingOK
<1>8. CountOK'
  BY <1>2, <1>5, SameRuns, FewerCount
<1>9. RunningOK'
  BY <1>2 DEF BInv, RunningOK, JobSteps
<1> QED
  BY <1>2, <1>7, <1>8, <1>9 DEF BInv, PromotingOK, ClaimingOK, PromoteSteps, JobSteps

LEMMA WriteMergedKeepsBInv ==
  ASSUME IInv, BInv, NEW s \in Session, WriteMerged(s)
  PROVE  BInv'
<1>1. /\ UNCHANGED running /\ pc = "coalesce" /\ pc' = "coalesce"
      /\ plan[s] # NoPlan /\ plan[s].sources = {}
      /\ Put(plan[s].queue, Stable(s), plan[s].merged)
      /\ plan' = [plan EXCEPT ![s] = NoPlan]
  BY DEF WriteMerged
<1>2. plan[s].queue \in Queue /\ Stable(s) \in Name /\ SessionOf(Stable(s)) = s
  BY <1>1, NameFacts DEF IInv, FilesOK
<1>3. \A t \in Session : Renamed(t)' \subseteq Renamed(t)
  <2> TAKE t \in Session
  <2>1. Stable(s) = Stable(t) \/ t # SessionOf(Stable(s))
    BY <1>2
  <2> QED
    BY <1>1, <1>2, <2>1, PutRenamed DEF IInv, TypeOK
<1>4. \A t \in Session : plan'[t].sources = plan[t].sources
  BY <1>1 DEF IInv, TypeOK, NoPlan
<1>5. MergingOK'
  BY <1>1, <1>3, <1>4 DEF BInv, MergingOK
<1>6. CountOK'
  BY <1>1, <1>3, SameRuns, FewerCount
<1>7. RunningOK'
  BY <1>1 DEF BInv, RunningOK, JobSteps
<1> QED
  BY <1>1, <1>5, <1>6, <1>7 DEF BInv, PromotingOK, ClaimingOK, PromoteSteps, JobSteps

LEMMA PromoteWriteKeepsBInv ==
  ASSUME IInv, BInv, PromoteWrite
  PROVE  BInv'
<1>1. /\ UNCHANGED <<running, job, todo>> /\ pc = "promote_write" /\ pc' = "promote_unlink"
      /\ Put("pending", dest, mem)
  BY DEF PromoteWrite
<1>2. /\ job \in Name \ todo /\ dest \in Name /\ SessionOf(dest) = SessionOf(job)
      /\ "pending" \in Queue /\ SessionOf(job) \in Session
  BY <1>1, NameFacts DEF IInv, FilesOK, Queue, PromoteSteps
<1>3. /\ job = Stable(SessionOf(job))
      /\ \A n \in todo : n = Stable(SessionOf(n))
      /\ Renamed(SessionOf(job)) = {}
  BY <1>1, <1>2 DEF BInv, PromotingOK, PromoteSteps
<1>4. \A s \in Session :
        /\ Renamed(s)' \subseteq Renamed(s) \union {<<"pending", dest>>}
        /\ s # SessionOf(job) => Renamed(s)' \subseteq Renamed(s)
  BY <1>1, <1>2, PutRenamed DEF IInv, TypeOK
<1>5. ASSUME NEW s \in Session
      PROVE  AtMostOne(Renamed(s)') /\ (Stable(s) \in todo => Renamed(s)' = {})
  <2>1. CASE s = SessionOf(job)
    BY <1>2, <1>3, <1>4, <2>1 DEF AtMostOne
  <2>2. CASE s # SessionOf(job)
    <3>1. AtMostOne(Renamed(s)) /\ (Stable(s) \in todo => Renamed(s) = {})
      BY <1>1 DEF BInv, PromotingOK, PromoteSteps
    <3>2. Renamed(s)' \subseteq Renamed(s)
      BY <1>4, <2>2
    <3> QED
      BY <3>1, <3>2 DEF AtMostOne
  <2> QED
    BY <2>1, <2>2
<1>6. PromotingOK'
  BY <1>1, <1>3, <1>5 DEF PromotingOK, AtMostOne, Stable, SessionOf
<1>7. RunningOK'
  BY <1>1 DEF BInv, RunningOK, JobSteps
<1>8. CountOK'
  BY <1>1, <1>5, <1>7, CountAfterRecovery
<1> QED
  BY <1>1, <1>6, <1>7, <1>8 DEF BInv, MergingOK, ClaimingOK, JobSteps

LEMMA PromoteUnlinkKeepsBInv ==
  ASSUME IInv, BInv, PromoteUnlink
  PROVE  BInv'
<1>1. /\ UNCHANGED <<running, job, todo>> /\ pc = "promote_unlink" /\ pc' = "promote"
      /\ Put("deferred", job, {})
  BY DEF PromoteUnlink
<1>2. job \in Name /\ "deferred" \in Queue
  BY <1>1 DEF IInv, FilesOK, Queue, PromoteSteps
<1>3. \A s \in Session : Renamed(s)' \subseteq Renamed(s)
  BY <1>1, <1>2, PutRenamed DEF IInv, TypeOK
<1>4. PromotingOK'
  BY <1>1, <1>3 DEF BInv, PromotingOK, PromoteSteps, AtMostOne
<1>5. RunningOK'
  BY <1>1 DEF BInv, RunningOK, JobSteps
<1>6. CountOK'
  BY <1>1, <1>3, SameRuns, FewerCount
<1> QED
  BY <1>1, <1>4, <1>5, <1>6 DEF BInv, MergingOK, ClaimingOK, JobSteps

LEMMA ClaimKeepsBInv ==
  ASSUME IInv, BInv, Claim
  PROVE  BInv'
<1>1. PICK n \in todo :
        /\ files' = [files EXCEPT !["pending"][n] = {}]
        /\ running' = [running EXCEPT ![n] = files["pending"][n]]
        /\ job' = n
  BY DEF Claim
<1>2. pc = "claim" /\ pc' = "decide"
  BY DEF Claim
<1>3. n \in Name /\ files["pending"][n] # {} /\ "pending" \in Queue
      /\ SessionOf(n) \in Session
  BY <1>2, NameFacts DEF IInv, TypeOK, FilesOK, Present, Queue
<1>4. Put("pending", n, {})
  BY <1>1 DEF Put
<1>5. \A s \in Session : Renamed(s)' \subseteq Renamed(s) /\ <<"pending", n>> \notin Renamed(s)'
  BY <1>3, <1>4, PutRenamed DEF IInv, TypeOK
<1>6. \A s \in Session : AtMostOne(Renamed(s)) /\ AtMostOne(Renamed(s)')
  BY <1>2, <1>5 DEF BInv, ClaimingOK, AtMostOne
<1>7. n # Stable(SessionOf(n)) => Renamed(SessionOf(n))' = {}
  <2> SUFFICES ASSUME n # Stable(SessionOf(n)) PROVE Renamed(SessionOf(n))' = {}
    OBVIOUS
  <2>1. <<"pending", n>> \in Renamed(SessionOf(n))
    BY <1>3 DEF Renamed
  <2> QED
    BY <1>3, <1>5, <1>6, <2>1 DEF AtMostOne
<1>8. ClaimingOK'
  <2>1. \A s \in Session : AtMostOne(Renamed(s))'
    BY <1>6 DEF AtMostOne
  <2>2. job' # Stable(SessionOf(n)) => Renamed(SessionOf(n))' = {}
    BY <1>1, <1>7
  <2>3. SessionOf(job)' = SessionOf(n) /\ Stable(SessionOf(job))' = Stable(SessionOf(n))
    BY <1>1 DEF SessionOf, Stable
  <2>4. Renamed(SessionOf(job))' = Renamed(SessionOf(n))'
    BY <1>1 DEF SessionOf, Stable, Renamed
  <2> QED
    BY <2>1, <2>2, <2>3, <2>4 DEF ClaimingOK
<1>9. RunningOK'
  <2>1. \A m \in Name : running[m] = {}
    BY <1>2 DEF BInv, RunningOK, JobSteps
  <2>2. \A m \in Name : m # n => running'[m] = running[m]
    BY <1>1 DEF IInv, TypeOK
  <2> QED
    BY <1>1, <1>2, <2>1, <2>2 DEF RunningOK, JobSteps
<1>10. CountOK'
  BY <1>2, <1>6, <1>9, CountAfterRecovery
<1> QED
  BY <1>2, <1>8, <1>9, <1>10 DEF BInv, MergingOK, PromotingOK, PromoteSteps

LEMMA DeferKeepsBInv ==
  ASSUME IInv, BInv, Defer
  PROVE  BInv'
<1>1. /\ UNCHANGED <<running, job>> /\ pc = "defer" /\ pc' = "unlink"
      /\ Put("deferred", job, mem)
  BY DEF Defer
<1>2. job \in Name /\ SessionOf(job) \in Session /\ "deferred" \in Queue
  BY <1>1, JobFacts DEF JobSteps, Queue
<1>3. \A s \in Session :
        /\ Renamed(s)' \subseteq Renamed(s) \union {<<"deferred", job>>}
        /\ s # SessionOf(job) \/ job = Stable(s) => Renamed(s)' \subseteq Renamed(s)
  BY <1>1, <1>2, PutRenamed DEF IInv, TypeOK
<1>4. /\ \A s \in Session : AtMostOne(Renamed(s))
      /\ job # Stable(SessionOf(job)) => Renamed(SessionOf(job)) \subseteq {<<"deferred", job>>}
  BY <1>1 DEF BInv, ClaimingOK, JobSteps
<1>5. PICK t \in Session : t = SessionOf(job)
  BY <1>2
<1>6. job # Stable(t) => Renamed(t)' \subseteq {<<"deferred", job>>}
  BY <1>3, <1>4, <1>5
<1>7. ASSUME NEW s \in Session PROVE AtMostOne(Renamed(s)')
  <2>1. CASE s # t \/ job = Stable(s)
    BY <1>3, <1>4, <1>5, <2>1 DEF AtMostOne
  <2>2. CASE s = t /\ job # Stable(s)
    BY <1>6, <2>2 DEF AtMostOne
  <2> QED
    BY <2>1, <2>2
<1>8. ClaimingOK'
  <2>1. Renamed(SessionOf(job))' = Renamed(t)'
    BY <1>1, <1>5 DEF Renamed, SessionOf, Stable
  <2> QED
    BY <1>1, <1>5, <1>6, <1>7, <2>1 DEF ClaimingOK, AtMostOne, SessionOf, Stable
<1>9. RunningOK'
  BY <1>1 DEF BInv, RunningOK, JobSteps
<1>10. CountOK'
  BY <1>1, <1>7, <1>9, CountAfterRecovery
<1> QED
  BY <1>1, <1>8, <1>9, <1>10 DEF BInv, MergingOK, PromotingOK, PromoteSteps

LEMMA UnlinkKeepsBInv ==
  ASSUME IInv, BInv, Unlink
  PROVE  BInv'
<1>1. /\ UNCHANGED files /\ pc = "unlink" /\ pc' \in {"list", "claim"}
      /\ running' = [running EXCEPT ![job] = {}]
  BY DEF Unlink
<1>2. job \in Name
  BY <1>1, JobFacts DEF JobSteps
<1>3. \A s \in Session : Renamed(s)' = Renamed(s)
  BY <1>1 DEF Renamed
<1>4. \A n \in Name : running'[n] = {}
  <2>1. \A n \in Name : running'[n] = IF n = job THEN {} ELSE running[n]
    BY <1>1 DEF IInv, TypeOK
  <2> QED
    BY <1>1, <2>1 DEF BInv, RunningOK
<1>5. \A s \in Session : AtMostOne(Renamed(s)')
  BY <1>1, <1>3 DEF BInv, ClaimingOK, JobSteps
<1>6. RunningOK'
  BY <1>4 DEF RunningOK
<1>7. CountOK'
  BY <1>1, <1>5, <1>6, CountAfterRecovery
<1>8. ClaimingOK'
  BY <1>1, <1>5 DEF ClaimingOK, JobSteps, AtMostOne
<1> QED
  BY <1>1, <1>6, <1>7, <1>8 DEF BInv, MergingOK, PromotingOK, PromoteSteps


\* Every step keeps the files of each session few.
LEMMA NextKeepsBInv ==
  ASSUME IInv, BInv, [Next]_vars
  PROVE  BInv'
<1>1. CASE UNCHANGED <<files, running, worker>>
  <2>1. \A s \in Session : Renamed(s)' \subseteq Renamed(s)
    BY <1>1, SameFiles
  <2> QED
    BY <1>1, <2>1, OthersKeepBInv
<1>2. ASSUME NEW s \in Session, HookLooks(s) \/ SyncElsewhere(s) \/ BudgetAdmits(s)
      PROVE  BInv'
  BY <1>1, <1>2 DEF HookLooks, SyncElsewhere, BudgetAdmits, queue
<1>3. CASE Hook
  BY <1>1, <1>3, HookKeepsBInv DEF Hook, HookReads, queue
<1>4. CASE StartWorker \/ WorkerCrash
  BY <1>4, OffKeepsBInv DEF StartWorker, WorkerCrash, Ended, queue
<1>5. CASE Worker
  <2>1. ASSUME NEW s \in Session, Supersede(s) \/ WriteMerged(s)
        PROVE  BInv'
    BY <2>1, SupersedeKeepsBInv, WriteMergedKeepsBInv
  <2>2. CASE RecoverName \/ RecoverMove \/ Recovered
    BY <2>2, OffKeepsBInv, RecoverMoveKeepsBInv, RecoveredKeepsBInv DEF RecoverName, queue
  <2>3. CASE Group \/ Coalesced
    BY <2>3, GroupKeepsBInv, CoalescedKeepsBInv
  <2>4. CASE PromoteRead \/ PromoteName \/ PromoteWrite \/ PromoteUnlink
    BY <2>4, PromoteReadKeepsBInv, PromoteNameKeepsBInv, PromoteWriteKeepsBInv,
       PromoteUnlinkKeepsBInv
  <2>5. CASE Snapshot \/ List \/ Claim
    BY <2>5, ListingKeepsBInv, ClaimKeepsBInv
  <2>6. CASE End
    BY <2>6, OffKeepsBInv DEF End, Ended, queue
  <2>7. CASE Decide \/ Publish \/ Retire
    BY <2>7, DecidingKeepsBInv
  <2>8. CASE Defer \/ Unlink
    BY <2>8, DeferKeepsBInv, UnlinkKeepsBInv
  <2> QED
    BY <1>5, <2>1, <2>2, <2>3, <2>4, <2>5, <2>6, <2>7, <2>8 DEF Worker
<1>6. CASE Raise
  BY <1>6, DecidingKeepsBInv
<1>7. CASE HookCrash
  BY <1>1, <1>7 DEF HookCrash, queue
<1>8. CASE UNCHANGED vars
  BY <1>1, <1>8 DEF vars, queue
<1> QED
  BY <1>2, <1>3, <1>4, <1>5, <1>6, <1>7, <1>8 DEF Next

\* BInv holds in every reachable state: what is renamed, and what runs, of each
\* session at each step of a worker (recover_orphaned_running_hook_jobs,
\* coalesce_hook_sync_jobs, promote_deferred_hook_jobs, run_hook_worker).
THEOREM CountInvariant == Spec => []BInv
<1>1. Init => BInv
  BY InitBInv
<1>2. IInv /\ BInv /\ [Next]_vars => BInv'
  BY NextKeepsBInv
<1> QED
  BY <1>1, <1>2, Invariant, PTL DEF Spec

\* However often hooks fire, workers die and jobs are promoted, a session has
\* at most four job files in the queues, whatever number of names there is: a
\* dead worker leaves at most two under other names, and the next one merges
\* them before it makes another.
THEOREM FilesStayFew == Spec => []FilesBounded
<1>1. BInv => FilesBounded
  <2> SUFFICES ASSUME BInv, NEW s \in Session PROVE Cardinality(Entries(s)) <= 4
    BY DEF FilesBounded
  <2>1. Renamed(s) \subseteq Extra(s) /\ AtMostTwo(Extra(s))
    BY DEF BInv, CountOK, Extra
  <2> QED
    BY <2>1, Fewer, EntriesAreFew
<1> QED
  BY <1>1, CountInvariant, PTL


\* There is a name for every file that needs one.
NamesLeft == \A n \in Name : FreeName(n) # {}

\* Three names besides the stable one are enough for any number of sessions,
\* signals, crashes and workers: the bound MaxCopies of the model never keeps
\* the worker from a step that the code can take.
THEOREM NamesSuffice ==
  ASSUME MaxCopies >= 3
  PROVE  Spec => []NamesLeft
<1>1. BInv => NamesLeft
  <2> SUFFICES ASSUME BInv, NEW n \in Name, FreeName(n) = {}
               PROVE  FALSE
    BY DEF NamesLeft
  <2>1. PICK s \in Session : s = SessionOf(n)
    BY NameFacts
  <2>2. AtMostTwo(Extra(s))
    BY DEF BInv, CountOK
  <2>3. ASSUME NEW i \in 1..3
        PROVE  \E e \in Extra(s) : e[2] = <<s, i>>
    <3>1. <<s, i>> \in Name /\ SessionOf(<<s, i>>) = s /\ <<s, i>> # Stable(s)
      BY JobConstants DEF Name, SessionOf, Stable
    <3>2. (\E q \in Queue : files[q][<<s, i>>] # {}) \/ running[<<s, i>>] # {}
      BY <2>1, <3>1 DEF FreeName
    <3>3. ASSUME NEW q \in Queue, files[q][<<s, i>>] # {}
          PROVE  <<q, <<s, i>> >> \in Extra(s)
      BY <3>1, <3>3 DEF Extra, Renamed
    <3>4. running[<<s, i>>] # {} => <<"running", <<s, i>> >> \in Extra(s)
      BY <3>1 DEF Extra, Runs
    <3> QED
      BY <3>2, <3>3, <3>4
  <2>4. PICK x \in Extra(s) : x[2] = <<s, 1>>
    BY <2>3
  <2>5. PICK y \in Extra(s) : y[2] = <<s, 2>>
    BY <2>3
  <2>6. PICK z \in Extra(s) : z[2] = <<s, 3>>
    BY <2>3
  <2> QED
    BY <2>2, <2>4, <2>5, <2>6 DEF AtMostTwo
<1> QED
  BY <1>1, CountInvariant, PTL
=============================================================================
