------------------------------- MODULE HookJobs -------------------------------
(***************************************************************************)
(* The hook job queue.  Hooks merge every lifecycle signal of a session    *)
(* into one sync job file, in pending/ or deferred/, under enqueue.lock;   *)
(* the worker recovers, coalesces, promotes, claims and retires job files  *)
(* without that lock, a session's archive being what it publishes.         *)
(*                                                                         *)
(* Source: scripts/aoa_session_memory.py (enqueue_hook_sync_job,           *)
(* merge_hook_sync_job_payloads, recover_orphaned_running_hook_jobs,       *)
(* coalesce_hook_sync_jobs, promote_deferred_hook_jobs, run_hook_worker).  *)
(*                                                                         *)
(* A signal is the transcript version it reports.  A job is the set of     *)
(* signals it accounts for (its counts, names, reasons and times), {}      *)
(* meaning no file.  A file is named by its session and a copy: copy 0 is  *)
(* the stable name, the others are legacy names and the names given to     *)
(* recovered and promoted files whose stable name is taken.  The order of  *)
(* the file names is left open.  Only sync jobs are modelled.              *)
(***************************************************************************)
EXTENDS Integers, FiniteSets

CONSTANTS
    Session,
    MaxCopies,   \* bound on the names of one session besides the stable one
    MaxSignals,  \* bound on the signals of one session
    Limit,       \* jobs one worker run processes at most (5 in the code)
    MaxFaults    \* bound on crashes and failing jobs

ASSUME JobConstants ==
    /\ IsFiniteSet(Session)
    /\ {MaxCopies, MaxSignals} \subseteq Nat \ {0}
    /\ {Limit, MaxFaults} \subseteq Nat

Version == 0..MaxSignals
Signal == 1..MaxSignals
Name == Session \X (0..MaxCopies)
Queue == {"pending", "deferred"}

Stable(s) == <<s, 0>>
SessionOf(n) == n[1]

VARIABLES
    files,      \* the jobs in pending/ and deferred/
    running,    \* the jobs in running/
    source,     \* version of each session's transcript
    synced,     \* version its archive was published from
    over,       \* sessions whose transcript exceeds the worker's budget
    hook,       \* the hook process that holds enqueue.lock
    pc,         \* the worker's next step
    plan,       \* per session, what coalescing has still to do
    todo,       \* deferred files still to promote, or pending ones to claim
    names,      \* pending names when the worker began to claim
    left,       \* jobs it may still process
    job,        \* the file it works on
    dest,       \* the file in pending/ it is to become
    mem,        \* its content, as the worker read it
    base,       \* transcript version a sync works from
    accepted,   \* history: signals a hook has queued, per session
    executed,   \* history: signals of jobs that were completed or failed
    superseded, \* signals of the receipts in superseded/
    failedAt,   \* history: transcript version when a job last failed
    dropped,    \* history: signals that only a merge accounted for whose worker died
    faults      \* history: crashes and failing jobs

queue == <<files, running, superseded>>
archive == <<source, synced, over>>
worker == <<pc, plan, todo, names, left, job, dest, mem, base>>
history == <<accepted, executed, failedAt, dropped, faults>>
vars == <<queue, archive, hook, worker, history>>

NoName == <<>>
NoHook == [pc |-> "none"]
NoPlan == [queue |-> "none", sources |-> {}, merged |-> {}]

Steps == {"off", "recover", "recover_move", "group", "coalesce", "promote",
          "promote_name", "promote_write", "promote_unlink", "list", "claim",
          "decide", "defer", "publish", "done", "fail", "unlink"}

Present(q) == {n \in Name : files[q][n] # {}}
Active(s) == \/ \E q \in Queue : \E n \in Present(q) : SessionOf(n) = s
             \/ \E n \in Name : SessionOf(n) = s /\ running[n] # {}

Put(q, n, signals) == files' = [files EXCEPT ![q][n] = signals]

\* The name a file gets in pending/: its own, or a new one if that is taken.
FreeName(n) ==
    IF files["pending"][n] = {} THEN {n}
    ELSE {m \in Name : /\ SessionOf(m) = SessionOf(n)
                       /\ m # Stable(SessionOf(m))
                       /\ \A q \in Queue : files[q][m] = {}
                       /\ running[m] = {}}

\* The queue may begin with a job under a legacy name.
Init ==
    /\ \E S \in SUBSET Session, q \in Queue :
        /\ files = [p \in Queue |-> [n \in Name |->
               IF p = q /\ SessionOf(n) \in S /\ n[2] = 1 THEN {1} ELSE {}]]
        /\ source = [s \in Session |-> IF s \in S THEN 1 ELSE 0]
        /\ accepted = [s \in Session |-> IF s \in S THEN {1} ELSE {}]
    /\ running = [n \in Name |-> {}]
    /\ synced = [s \in Session |-> 0]
    /\ over \in SUBSET Session
    /\ hook = NoHook
    /\ pc = "off"
    /\ plan = [s \in Session |-> NoPlan]
    /\ todo = {}
    /\ names = {}
    /\ left = 0
    /\ job = NoName
    /\ dest = NoName
    /\ mem = {}
    /\ base = 0
    /\ executed = [s \in Session |-> {}]
    /\ superseded = [s \in Session |-> {}]
    /\ failedAt = [s \in Session |-> 0]
    /\ dropped = [s \in Session |-> {}]
    /\ faults = 0

-----------------------------------------------------------------------------
(* A hook: under enqueue.lock, which only hooks take, it looks for a job,  *)
(* reads it and writes the merged one.                                     *)

\* The transcript has grown, perhaps past the budget; a pending job is
\* preferred to a deferred one, and without either a new one is pending.
HookLooks(s) ==
    /\ hook = NoHook
    /\ source[s] < MaxSignals
    /\ source' = [source EXCEPT ![s] = @ + 1]
    /\ over' \in {over, over \union {s}}
    /\ LET found == {q \in Queue : files[q][Stable(s)] # {}}
       IN hook' = [pc |-> "read", session |-> s, found |-> found # {},
                   queue |-> IF found = {"deferred"} THEN "deferred" ELSE "pending",
                   merged |-> {source[s] + 1}]
    /\ UNCHANGED <<queue, synced, worker, history>>

\* A file that is gone by now reads as no job.
HookReads ==
    /\ hook.pc = "read"
    /\ LET existing == IF hook.found THEN files[hook.queue][Stable(hook.session)] ELSE {}
       IN hook' = [hook EXCEPT !.pc = "write", !.merged = @ \union existing]
    /\ UNCHANGED <<queue, archive, worker, history>>

\* The merged job replaces the file, or creates it.
HookWrites ==
    /\ hook.pc = "write"
    /\ Put(hook.queue, Stable(hook.session), hook.merged)
    /\ accepted' = [accepted EXCEPT ![hook.session] = @ \union {source[hook.session]}]
    /\ hook' = NoHook
    /\ UNCHANGED <<running, superseded, archive, worker, executed, failedAt, dropped, faults>>

-----------------------------------------------------------------------------
(* The worker, under the maintenance lock and worker.lock: it requeues     *)
(* what a dead worker left in running/, ...                                *)

StartWorker ==
    /\ pc = "off"
    /\ pc' = "recover"
    /\ UNCHANGED <<queue, archive, hook, plan, todo, names, left, job, dest, mem, base, history>>

\* Choosing the name and moving the file are two steps.
RecoverName ==
    /\ pc = "recover"
    /\ \E n \in Name :
        /\ running[n] # {}
        /\ job' = n
        /\ dest' \in FreeName(n)
    /\ pc' = "recover_move"
    /\ UNCHANGED <<queue, archive, hook, plan, todo, names, left, mem, base, history>>

RecoverMove ==
    /\ pc = "recover_move"
    /\ Put("pending", dest, running[job])
    /\ running' = [running EXCEPT ![job] = {}]
    /\ pc' = "recover"
    /\ UNCHANGED <<superseded, archive, hook, plan, todo, names, left, job, dest, mem, base, history>>

\* Mutant: the worker begins without requeueing orphans.
RecoveredNothing ==
    /\ pc = "recover"
    /\ pc' = "group"
    /\ UNCHANGED <<queue, archive, hook, plan, todo, names, left, job, dest, mem, base, history>>

Recovered ==
    /\ pc = "recover"
    /\ \A n \in Name : running[n] = {}
    /\ pc' = "group"
    /\ UNCHANGED <<queue, archive, hook, plan, todo, names, left, job, dest, mem, base, history>>

(* ... merges every session's files into one under the stable name, ...    *)

Entries(s) == {e \in Queue \X Name : SessionOf(e[2]) = s /\ files[e[1]][e[2]] # {}}

\* Mutant: duplicates are left alone.
PlanForNothing(s) == NoPlan

\* One file under the stable name, in pending/ if any of them is there.
PlanFor(s) ==
    LET q == IF \E e \in Entries(s) : e[1] = "pending" THEN "pending" ELSE "deferred"
    IN IF Entries(s) \subseteq {<<q, Stable(s)>>} THEN NoPlan
       ELSE [queue   |-> q,
             sources |-> Entries(s) \ {<<q, Stable(s)>>},
             merged  |-> UNION {files[e[1]][e[2]] : e \in Entries(s)}]

Group ==
    /\ pc = "group"
    /\ plan' = [s \in Session |-> PlanFor(s)]
    /\ pc' = "coalesce"
    /\ UNCHANGED <<queue, archive, hook, todo, names, left, job, dest, mem, base, history>>

\* A source moves to superseded/ with what is in it by now.
Supersede(s) ==
    /\ pc = "coalesce"
    /\ \E e \in plan[s].sources :
        /\ superseded' = [superseded EXCEPT ![s] = @ \union files[e[1]][e[2]]]
        /\ Put(e[1], e[2], {})
        /\ plan' = [plan EXCEPT ![s].sources = @ \ {e}]
    /\ UNCHANGED <<running, archive, hook, pc, todo, names, left, job, dest, mem, base, history>>

WriteMerged(s) ==
    /\ pc = "coalesce"
    /\ plan[s] # NoPlan
    /\ plan[s].sources = {}
    /\ Put(plan[s].queue, Stable(s), plan[s].merged)
    /\ plan' = [plan EXCEPT ![s] = NoPlan]
    /\ UNCHANGED <<running, superseded, archive, hook, pc, todo, names, left, job, dest, mem, base, history>>

Coalesced ==
    /\ pc = "coalesce"
    /\ \A s \in Session : plan[s] = NoPlan
    /\ todo' = Present("deferred")
    /\ pc' = "promote"
    /\ UNCHANGED <<queue, archive, hook, plan, names, left, job, dest, mem, base, history>>

(* ... promotes the deferred jobs the budget admits by now, ...            *)

\* A deferred job stays if it is neither current nor within the budget.
PromoteRead ==
    /\ pc = "promote"
    /\ \E n \in todo :
        /\ todo' = todo \ {n}
        /\ IF SessionOf(n) \in over /\ synced[SessionOf(n)] # source[SessionOf(n)]
           THEN UNCHANGED <<job, mem, pc>>
           ELSE /\ job' = n
                /\ mem' = files["deferred"][n]
                /\ pc' = "promote_name"
    /\ UNCHANGED <<queue, archive, hook, plan, names, left, dest, base, history>>

PromoteName ==
    /\ pc = "promote_name"
    /\ dest' \in FreeName(job)
    /\ pc' = "promote_write"
    /\ UNCHANGED <<queue, archive, hook, plan, todo, names, left, job, mem, base, history>>

PromoteWrite ==
    /\ pc = "promote_write"
    /\ Put("pending", dest, mem)
    /\ pc' = "promote_unlink"
    /\ UNCHANGED <<running, superseded, archive, hook, plan, todo, names, left, job, dest, mem, base, history>>

PromoteUnlink ==
    /\ pc = "promote_unlink"
    /\ Put("deferred", job, {})
    /\ pc' = "promote"
    /\ UNCHANGED <<running, superseded, archive, hook, plan, todo, names, left, job, dest, mem, base, history>>

(* ... and runs jobs whose names were pending when it began to, at most    *)
(* Limit of them; a name that is queued again meanwhile counts again.      *)

Snapshot ==
    /\ pc = "promote"
    /\ todo = {}
    /\ names' = Present("pending")
    /\ left' = Limit
    /\ pc' = "list"
    /\ UNCHANGED <<queue, archive, hook, plan, todo, job, dest, mem, base, history>>

Listed == Present("pending") \intersect names

List ==
    /\ pc = "list"
    /\ left > 0
    /\ Listed # {}
    /\ todo' \in {T \in SUBSET Listed : Cardinality(T) <= left /\ (Cardinality(T) < left => T = Listed)}
    /\ pc' = "claim"
    /\ UNCHANGED <<queue, archive, hook, plan, names, left, job, dest, mem, base, history>>

Ended ==
    /\ pc' = "off"
    /\ plan' = [s \in Session |-> NoPlan]
    /\ todo' = {}
    /\ names' = {}
    /\ left' = 0
    /\ job' = NoName
    /\ dest' = NoName
    /\ mem' = {}
    /\ base' = 0

End ==
    /\ pc = "list"
    /\ left = 0 \/ Listed = {}
    /\ Ended
    /\ UNCHANGED <<queue, archive, hook, history>>

\* The file is moved before it is read, so that no hook changes what is read.
Claim ==
    /\ pc = "claim"
    /\ \E n \in todo :
        /\ todo' = todo \ {n}
        /\ files' = [files EXCEPT !["pending"][n] = {}]
        /\ running' = [running EXCEPT ![n] = files["pending"][n]]
        /\ mem' = files["pending"][n]
        /\ job' = n
        /\ base' = source[SessionOf(n)]
    /\ pc' = "decide"
    /\ UNCHANGED <<superseded, archive, hook, plan, names, left, dest, history>>

\* A current archive needs no sync, one over budget is deferred, and any other
\* is rebuilt from the transcript as it is when the sync begins to read it.
Decide ==
    /\ pc = "decide"
    /\ LET s == SessionOf(job)
       IN /\ pc' = IF synced[s] = source[s] THEN "done"
                   ELSE IF s \in over THEN "defer" ELSE "publish"
          /\ base' = source[s]
    /\ UNCHANGED <<queue, archive, hook, plan, todo, names, left, job, dest, mem, history>>

\* The transcript may have grown since; the job is done all the same.
Publish ==
    /\ pc = "publish"
    /\ synced' = [synced EXCEPT ![SessionOf(job)] = base]
    /\ pc' = "done"
    /\ UNCHANGED <<queue, source, over, hook, plan, todo, names, left, job, dest, mem, base, history>>

\* Reading, checking or publishing raises.
Raise ==
    /\ pc \in {"decide", "publish"}
    /\ faults < MaxFaults
    /\ faults' = faults + 1
    /\ pc' = "fail"
    /\ UNCHANGED <<queue, archive, hook, plan, todo, names, left, job, dest, mem, base,
                   accepted, executed, failedAt, dropped>>

\* Mutant: a job over budget is dropped.
DeferNothing ==
    /\ pc = "defer"
    /\ pc' = "unlink"
    /\ UNCHANGED <<queue, archive, hook, plan, todo, names, left, job, dest, mem, base, history>>

\* The deferred file is written whole, whatever it held.
Defer ==
    /\ pc = "defer"
    /\ Put("deferred", job, mem)
    /\ pc' = "unlink"
    /\ UNCHANGED <<running, superseded, archive, hook, plan, todo, names, left, job, dest, mem, base, history>>

\* The done or failed receipt is written.
Retire ==
    /\ pc \in {"done", "fail"}
    /\ executed' = [executed EXCEPT ![SessionOf(job)] = @ \union mem]
    /\ failedAt' = IF pc = "fail" THEN [failedAt EXCEPT ![SessionOf(job)] = base] ELSE failedAt
    /\ pc' = "unlink"
    /\ UNCHANGED <<queue, archive, hook, plan, todo, names, left, job, dest, mem, base, accepted, dropped, faults>>

\* Mutant: a job counts twice against the limit.
UnlinkCountingTwice ==
    /\ pc = "unlink"
    /\ running' = [running EXCEPT ![job] = {}]
    /\ left' = left - 2
    /\ pc' = IF todo = {} THEN "list" ELSE "claim"
    /\ UNCHANGED <<files, superseded, archive, hook, plan, todo, names, job, dest, mem, base, history>>

Unlink ==
    /\ pc = "unlink"
    /\ running' = [running EXCEPT ![job] = {}]
    /\ left' = left - 1
    /\ pc' = IF todo = {} THEN "list" ELSE "claim"
    /\ UNCHANGED <<files, superseded, archive, hook, plan, todo, names, job, dest, mem, base, history>>

-----------------------------------------------------------------------------
(* The world around them.                                                  *)

\* Maintenance that holds the lock instead of the worker brings it up to date.
SyncElsewhere(s) ==
    /\ pc = "off"
    /\ synced[s] < source[s]
    /\ synced' = [synced EXCEPT ![s] = source[s]]
    /\ UNCHANGED <<queue, source, over, hook, worker, history>>

\* The budget is raised.
BudgetAdmits(s) ==
    /\ s \in over
    /\ over' = over \ {s}
    /\ UNCHANGED <<queue, source, synced, hook, worker, history>>

\* What coalescing owes a session whose sources it has moved away already.
Owed(s) == pc = "coalesce" /\ plan[s] # NoPlan

WorkerCrash ==
    /\ pc # "off"
    /\ faults < MaxFaults
    /\ faults' = faults + 1
    /\ dropped' = [s \in Session |->
           IF Owed(s) /\ ~Active(s) THEN dropped[s] \union accepted[s] ELSE dropped[s]]
    /\ Ended
    /\ UNCHANGED <<queue, archive, hook, accepted, executed, failedAt>>

HookCrash ==
    /\ hook # NoHook
    /\ faults < MaxFaults
    /\ faults' = faults + 1
    /\ hook' = NoHook
    /\ UNCHANGED <<queue, archive, worker, accepted, executed, failedAt, dropped>>

Hook == HookReads \/ HookWrites

Worker ==
    \/ RecoverName \/ RecoverMove \/ Recovered
    \/ Group \/ (\E s \in Session : Supersede(s) \/ WriteMerged(s)) \/ Coalesced
    \/ PromoteRead \/ PromoteName \/ PromoteWrite \/ PromoteUnlink
    \/ Snapshot \/ List \/ Claim \/ Decide \/ Publish \/ Defer \/ Retire \/ Unlink \/ End

Next ==
    \/ \E s \in Session : HookLooks(s) \/ SyncElsewhere(s) \/ BudgetAdmits(s)
    \/ Hook
    \/ StartWorker
    \/ Worker
    \/ Raise
    \/ WorkerCrash
    \/ HookCrash

Spec == Init /\ [][Next]_vars

\* The scheduled retry starts a worker when a job is pending or running; it
\* does not look at deferred/.
Waiting == Present("pending") # {} \/ \E n \in Name : running[n] # {}

Fairness ==
    /\ WF_vars(Hook)
    /\ WF_vars(Worker)
    /\ WF_vars(Waiting /\ StartWorker)

FairSpec == Spec /\ Fairness

-----------------------------------------------------------------------------
(* Properties.                                                             *)

Job == SUBSET Signal

\* Every variable of the job queue stays within its type; in particular a
\* session never needs more than MaxCopies names besides the stable one.
TypeOK ==
    /\ files \in [Queue -> [Name -> Job]]
    /\ running \in [Name -> Job]
    /\ superseded \in [Session -> Job]
    /\ source \in [Session -> Version]
    /\ synced \in [Session -> Version]
    /\ over \subseteq Session
    /\ hook \in [pc : {"read", "write"}, session : Session, found : BOOLEAN,
                 queue : Queue, merged : Job] \union {NoHook}
    /\ pc \in Steps
    /\ plan \in [Session -> [queue : Queue \union {"none"},
                             sources : SUBSET (Queue \X Name), merged : Job]]
    /\ todo \subseteq Name
    /\ names \subseteq Name
    /\ left \in 0..Limit
    /\ job \in Name \union {NoName}
    /\ dest \in Name \union {NoName}
    /\ mem \in Job
    /\ base \in Version
    /\ accepted \in [Session -> Job]
    /\ executed \in [Session -> Job]
    /\ failedAt \in [Session -> Version]
    /\ dropped \in [Session -> Job]
    /\ faults \in 0..MaxFaults

\* A queued signal that the archive does not cover yet still has an active job,
\* or a job that was tried after it failed, or the worker is about to write the
\* merged job: no race between hooks, renames, promotion and crashes leaves it
\* unanswered, but a worker that dies between moving a session's last file to
\* superseded/ and writing the merged one.
Covered(s, v) == v <= synced[s] \/ v <= failedAt[s]

IntentKept ==
    \A s \in Session : \A v \in accepted[s] :
        Covered(s, v) \/ Active(s) \/ Owed(s) \/ v \in dropped[s]

\* The worker "executes one canonical intent": a queued signal stays covered
\* by an active job until the archive covers it or a job has failed.
IntentActive ==
    \A s \in Session : \A v \in accepted[s] : Covered(s, v) \/ Active(s) \/ Owed(s)

\* Merging accounts for every signal: each is in an active job, was in a
\* retired one, or is in a receipt in superseded/.
Accounted(s) ==
    UNION {files[q][n] : q \in Queue, n \in {m \in Name : SessionOf(m) = s}}
    \union UNION {running[n] : n \in {m \in Name : SessionOf(m) = s}}
    \union executed[s] \union superseded[s]

SignalsAccounted == \A s \in Session : accepted[s] \subseteq Accounted(s)

\* Hooks that fire again and again, orphans and promotions do not multiply
\* files: a session has at most the stable name in both queues and two renamed
\* files beside them, which the next worker merges.
FilesBounded == \A s \in Session : Cardinality(Entries(s)) <= 4

\* Every queued signal is answered in the end: the archive covers it, a job
\* failed after it, or its job waits in deferred/ or was lost by a crash.
SignalAnswered ==
    \A s \in Session : \A v \in Signal :
        v \in accepted[s] ~> \/ Covered(s, v)
                             \/ v \in dropped[s]
                             \/ \E n \in Present("deferred") : SessionOf(n) = s
=============================================================================
