-------------------------- MODULE OutboxReconcile --------------------------
(***************************************************************************)
(* From an outbox record to its retirement: the targeted reconcile route   *)
(* completes the consumers of a session's current publication one by one   *)
(* and retires the record when all of them are complete.                   *)
(*                                                                         *)
(* Source: scripts/aoa_session_memory.py                                   *)
(*   reconcile_projection_outbox_consumer            (processes Procs)     *)
(*   write_projection_outbox_consumer_state          (every state write)   *)
(*   _projection_outbox_consumer_retirement_recheck  (targeted retirement) *)
(*   complete_projection_outbox_consumers_for_session,                     *)
(*   route_projection_outbox_record                  (progress writers)    *)
(*   reconcile_projection_outbox_retirements         (retirement sweep)    *)
(*   projection_outbox_retirement_status             (what readiness asks) *)
(*                                                                         *)
(* One session; publication r has the outbox record r, and SessionPublish  *)
(* makes a publication one step under the publication fence.  An operation *)
(* is keyed by the record, the consumer and the attempt number.  A         *)
(* completion receipt is reduced to the attempt that committed it.         *)
(***************************************************************************)
EXTENDS Integers, FiniteSets

CONSTANTS
    Procs,       \* processes that run the targeted reconcile route
    Consumers,   \* consumers the records require
    Dependency,  \* the consumers each of them needs complete before it
    MaxAttempts, \* attempts a record's retry policy grants per consumer
    MaxPub,      \* bound on the number of publications
    MaxProgress, \* bound on the number of progress writes
    MaxCrashes,  \* bound on crashes of a reconciling process
    Sweeping     \* whether the retirement sweep runs

NoOne == "no one"

ASSUME ReconcileConstants ==
    /\ NoOne \notin Procs
    /\ Dependency \in [Consumers -> SUBSET Consumers]
    /\ MaxAttempts \in Nat \ {0}
    /\ MaxPub \in Nat \ {0}
    /\ MaxProgress \in Nat
    /\ MaxCrashes \in Nat
    /\ Sweeping \in BOOLEAN

VARIABLES
    pub,      \* the session's current publication
    state,    \* consumer state files, per record and consumer
    receipts, \* operations whose handler committed its receipt
    journals, \* operations with a committed operation journal
    retired,  \* retirement file of each record
    lock,     \* holder of the reconcile lock
    fence,    \* reconciling process that holds the publication fence
    task,     \* what each reconciling process does
    progress, \* what the progress writer does
    sweep,    \* what the retirement sweep does
    runs,     \* history: committed handler executions, per record and consumer
    written,  \* history: progress writes begun
    crashes   \* history: crashes

files == <<state, receipts, journals, retired>>
history == <<runs, written, crashes>>
vars == <<pub, files, lock, fence, task, progress, sweep, history>>

Records == 1..MaxPub

\* attempts counts the writes of the file; receipt is the attempt whose
\* completion receipt it holds.  Progress writes and the reconcile route share
\* the counter, so only the bounds of the model bound it.
States ==
    [status : {"missing", "progress", "failed_retryable", "complete"},
     attempts : 0..(MaxAttempts + MaxProgress),
     receipt : 0..MaxAttempts]

Missing == [status |-> "missing", attempts |-> 0, receipt |-> 0]

Operations == Records \X Consumers \X (1..MaxAttempts)

\* One path, two writers, two artifact types.
Retirements ==
    [form : {"targeted", "terminal"}, by : [Consumers -> 0..MaxAttempts]]

NotRetired == [form |-> "none"]

Complete(r, c) == state[r][c].status = "complete"
AllComplete(r) == \A c \in Consumers : Complete(r, c)
Receipts(r) == [c \in Consumers |-> state[r][c].receipt]

TaskSteps == {"idle", "admit", "locked", "handle", "fail", "fail_write",
              "journal", "fence", "read", "write", "verify", "recheck", "retire"}

Idle == [at |-> "idle"]

Init ==
    /\ pub = 1
    /\ state = [r \in Records |-> [c \in Consumers |-> Missing]]
    /\ receipts = {}
    /\ journals = {}
    /\ retired = [r \in Records |-> NotRetired]
    /\ lock = NoOne
    /\ fence = NoOne
    /\ task = [p \in Procs |-> Idle]
    /\ progress = Idle
    /\ sweep = Idle
    /\ runs = [r \in Records |-> [c \in Consumers |-> 0]]
    /\ written = 0
    /\ crashes = 0

-----------------------------------------------------------------------------
(* The session's publisher.                                                *)

Publish ==
    /\ pub < MaxPub
    /\ fence = NoOne
    /\ pub' = pub + 1
    /\ UNCHANGED <<files, lock, fence, task, progress, sweep, history>>

-----------------------------------------------------------------------------
(* reconcile_projection_outbox_consumer.                                   *)

At(p, step) == task[p].at = step

Goto(p, step) == task' = [task EXCEPT ![p].at = step]

Operation(t) == <<t.r, t.c, t.a>>

\* The call returns or its process dies: its locks are released.
Release(p) ==
    /\ task' = [task EXCEPT ![p] = Idle]
    /\ lock' = IF lock = p THEN NoOne ELSE lock
    /\ fence' = IF fence = p THEN NoOne ELSE fence

\* Mutant: the predecessors are not looked at.
PlanUnordered(p, c) ==
    /\ At(p, "idle")
    /\ IF Complete(pub, c)
       THEN AllComplete(pub) /\ retired[pub] = NotRetired
       ELSE state[pub][c].attempts < MaxAttempts
    /\ task' = [task EXCEPT ![p] =
                  [at |-> "admit",
                   completes |-> ~Complete(pub, c),
                   r |-> pub,
                   c |-> c,
                   a |-> IF Complete(pub, c) THEN state[pub][c].receipt
                         ELSE state[pub][c].attempts + 1,
                   seen |-> Missing,
                   prior |-> Missing,
                   by |-> Receipts(pub)]]
    /\ UNCHANGED <<pub, files, lock, fence, progress, sweep, history>>

\* Mutant: a complete consumer needs no call.
PlanIncomplete(p, c) ==
    /\ At(p, "idle")
    /\ ~Complete(pub, c)
    /\ \A d \in Dependency[c] : Complete(pub, d)
    /\ state[pub][c].attempts < MaxAttempts
    /\ task' = [task EXCEPT ![p] =
                  [at |-> "admit",
                   completes |-> ~Complete(pub, c),
                   r |-> pub,
                   c |-> c,
                   a |-> IF Complete(pub, c) THEN state[pub][c].receipt
                         ELSE state[pub][c].attempts + 1,
                   seen |-> Missing,
                   prior |-> Missing,
                   by |-> Receipts(pub)]]
    /\ UNCHANGED <<pub, files, lock, fence, progress, sweep, history>>

\* Before any lock: the record is the current publication's, the predecessors
\* are complete and an attempt is left; or there is only the retirement to do.
Plan(p, c) ==
    /\ At(p, "idle")
    /\ IF Complete(pub, c)
       THEN AllComplete(pub) /\ retired[pub] = NotRetired
       ELSE /\ \A d \in Dependency[c] : Complete(pub, d)
            /\ state[pub][c].attempts < MaxAttempts
    /\ task' = [task EXCEPT ![p] =
                  [at |-> "admit",
                   completes |-> ~Complete(pub, c),
                   r |-> pub,
                   c |-> c,
                   a |-> IF Complete(pub, c) THEN state[pub][c].receipt
                         ELSE state[pub][c].attempts + 1,
                   seen |-> Missing,
                   prior |-> Missing,
                   by |-> Receipts(pub)]]
    /\ UNCHANGED <<pub, files, lock, fence, progress, sweep, history>>

\* The reconcile lock is tried once.
Admit(p) ==
    /\ At(p, "admit")
    /\ lock = NoOne
    /\ lock' = p
    /\ Goto(p, IF task[p].completes THEN "locked" ELSE "fence")
    /\ UNCHANGED <<pub, files, fence, progress, sweep, history>>

Denied(p) ==
    /\ At(p, "admit")
    /\ lock # NoOne
    /\ Release(p)
    /\ UNCHANGED <<pub, files, progress, sweep, history>>

\* Mutant: only the journal shows that an operation has committed.
LockedTrustingJournal(p) ==
    LET t == task[p]
        s == state[t.r][t.c]
    IN  /\ At(p, "locked")
        /\ IF t.r # pub \/ s.status = "complete" \/ s.attempts + 1 # t.a
           THEN Release(p)
           ELSE /\ Goto(p, IF Operation(t) \in journals
                           THEN "journal"
                           ELSE "handle")
                /\ UNCHANGED <<lock, fence>>
        /\ UNCHANGED <<pub, files, progress, sweep, history>>

\* Under the lock the identity, the state and the attempt are checked again
\* (the predecessors are not), then a committed operation is looked for.
Locked(p) ==
    LET t == task[p]
        s == state[t.r][t.c]
    IN  /\ At(p, "locked")
        /\ IF t.r # pub \/ s.status = "complete" \/ s.attempts + 1 # t.a
           THEN Release(p)
           ELSE /\ Goto(p, IF Operation(t) \in journals \union receipts
                           THEN "journal"
                           ELSE "handle")
                /\ UNCHANGED <<lock, fence>>
        /\ UNCHANGED <<pub, files, progress, sweep, history>>

\* The handler commits its effect and its receipt - and a handler that raises
\* after that is found to have committed - or it fails.
HandlerCommits(p) ==
    LET t == task[p]
    IN  /\ At(p, "handle")
        /\ receipts' = receipts \union {Operation(t)}
        /\ runs' = [runs EXCEPT ![t.r][t.c] = @ + 1]
        /\ Goto(p, "journal")
        /\ UNCHANGED <<pub, state, journals, retired, lock, fence, progress,
                       sweep, written, crashes>>

HandlerFails(p) ==
    /\ At(p, "handle")
    /\ Goto(p, "fail")
    /\ UNCHANGED <<pub, files, lock, fence, progress, sweep, history>>

(* write_projection_outbox_consumer_state reads the file, then replaces it. *)

\* What it writes over the state it has read: a complete state stays.
Rewritten(seen, status, receipt) ==
    IF seen.status = "complete" THEN seen
    ELSE [status |-> status, attempts |-> seen.attempts + 1, receipt |-> receipt]

ReadState(p) ==
    LET t == task[p]
    IN  /\ t.at \in {"fail", "read"}
        /\ task' = [task EXCEPT ![p].seen = state[t.r][t.c],
                                ![p].at = IF @ = "fail" THEN "fail_write" ELSE "write"]
        /\ UNCHANGED <<pub, files, lock, fence, progress, sweep, history>>

WriteFailed(p) ==
    LET t == task[p]
    IN  /\ At(p, "fail_write")
        /\ state' = [state EXCEPT ![t.r][t.c] =
                       Rewritten(t.seen, "failed_retryable", 0)]
        /\ Release(p)
        /\ UNCHANGED <<pub, receipts, journals, retired, progress, sweep, history>>

\* Mutant: the semantic state is written without the journal.
PersistNoJournal(p) ==
    LET t == task[p]
    IN  /\ At(p, "journal")
        /\ IF t.r # pub
           THEN Release(p)
           ELSE Goto(p, "fence") /\ UNCHANGED <<lock, fence>>
        /\ UNCHANGED <<pub, files, progress, sweep, history>>

\* The operation journal is persisted if the publication is still current.
PersistJournal(p) ==
    LET t == task[p]
    IN  /\ At(p, "journal")
        /\ IF t.r # pub
           THEN Release(p) /\ UNCHANGED journals
           ELSE /\ journals' = journals \union {Operation(t)}
                /\ Goto(p, "fence")
                /\ UNCHANGED <<lock, fence>>
        /\ UNCHANGED <<pub, state, receipts, retired, progress, sweep, history>>

\* Mutant: the identity is not checked again under the fence.
TakeFenceUnchecked(p) ==
    LET t == task[p]
    IN  /\ At(p, "fence")
        /\ fence = NoOne
        /\ fence' = p
        /\ task' = [task EXCEPT ![p].prior = state[t.r][t.c],
                                ![p].at = IF t.completes THEN "read" ELSE "recheck"]
        /\ UNCHANGED <<pub, lock, files, progress, sweep, history>>

\* The publication fence is waited for.  With it the prior state is read and the
\* identity checked again.
TakeFence(p) ==
    LET t == task[p]
    IN  /\ At(p, "fence")
        /\ fence = NoOne
        /\ IF t.r # pub
           THEN Release(p)
           ELSE /\ fence' = p
                /\ task' = [task EXCEPT
                              ![p].prior = state[t.r][t.c],
                              ![p].at = IF t.completes THEN "read" ELSE "recheck"]
                /\ UNCHANGED lock
        /\ UNCHANGED <<pub, files, progress, sweep, history>>

WriteComplete(p) ==
    LET t == task[p]
    IN  /\ At(p, "write")
        /\ state' = [state EXCEPT ![t.r][t.c] = Rewritten(t.seen, "complete", t.a)]
        /\ Goto(p, "verify")
        /\ UNCHANGED <<pub, receipts, journals, retired, lock, fence, progress,
                       sweep, history>>

\* Drift: the state that was there before is put back and the call returns.
RestorePrior(p) ==
    LET t == task[p]
    IN  /\ state' = IF t.completes
                    THEN [state EXCEPT ![t.r][t.c] = t.prior]
                    ELSE state
        /\ Release(p)

\* The completion that was written is read back.
Verify(p) ==
    LET t == task[p]
    IN  /\ At(p, "verify")
        /\ IF Complete(t.r, t.c)
           THEN Goto(p, "recheck") /\ UNCHANGED <<state, lock, fence>>
           ELSE RestorePrior(p)
        /\ UNCHANGED <<pub, receipts, journals, retired, progress, sweep, history>>

\* Mutant: the record is retired when this consumer's predecessors are complete.
RecheckDependencies(p) ==
    LET t == task[p]
        mine == [form |-> "targeted", by |-> Receipts(t.r)]
    IN  /\ At(p, "recheck")
        /\ IF /\ retired[t.r] # NotRetired
              /\ ~(AllComplete(t.r) /\ retired[t.r] = mine)
           THEN RestorePrior(p)
           ELSE IF /\ \A c \in Dependency[t.c] : Complete(t.r, c)
                   /\ retired[t.r] = NotRetired
           THEN /\ task' = [task EXCEPT ![p].by = Receipts(t.r), ![p].at = "retire"]
                /\ UNCHANGED <<state, lock, fence>>
           ELSE Release(p) /\ UNCHANGED state
        /\ UNCHANGED <<pub, receipts, journals, retired, progress, sweep, history>>

\* Mutant: a consumer still pending counts as a failed recheck.
RecheckDemandingAll(p) ==
    LET t == task[p]
        mine == [form |-> "targeted", by |-> Receipts(t.r)]
    IN  /\ At(p, "recheck")
        /\ IF ~AllComplete(t.r) \/ retired[t.r] \notin {NotRetired, mine}
           THEN RestorePrior(p)
           ELSE IF retired[t.r] = NotRetired
           THEN /\ task' = [task EXCEPT ![p].by = Receipts(t.r), ![p].at = "retire"]
                /\ UNCHANGED <<state, lock, fence>>
           ELSE Release(p) /\ UNCHANGED state
        /\ UNCHANGED <<pub, receipts, journals, retired, progress, sweep, history>>

\* Retirement recheck: any retirement file but the very one it would write is a
\* conflict; with a consumer still pending there is nothing to do.
Recheck(p) ==
    LET t == task[p]
        mine == [form |-> "targeted", by |-> Receipts(t.r)]
    IN  /\ At(p, "recheck")
        /\ IF /\ retired[t.r] # NotRetired
              /\ ~(AllComplete(t.r) /\ retired[t.r] = mine)
           THEN RestorePrior(p)
           ELSE IF AllComplete(t.r) /\ retired[t.r] = NotRetired
           THEN /\ task' = [task EXCEPT ![p].by = Receipts(t.r), ![p].at = "retire"]
                /\ UNCHANGED <<state, lock, fence>>
           ELSE Release(p) /\ UNCHANGED state
        /\ UNCHANGED <<pub, receipts, journals, retired, progress, sweep, history>>

Retire(p) ==
    LET t == task[p]
    IN  /\ At(p, "retire")
        /\ retired' = [retired EXCEPT ![t.r] = [form |-> "targeted", by |-> t.by]]
        /\ Release(p)
        /\ UNCHANGED <<pub, state, receipts, journals, progress, sweep, history>>

Crash(p) ==
    /\ ~At(p, "idle")
    /\ crashes < MaxCrashes
    /\ crashes' = crashes + 1
    /\ Release(p)
    /\ UNCHANGED <<pub, files, progress, sweep, runs, written>>

Reconcile(p) ==
    \/ Admit(p) \/ Denied(p) \/ Locked(p)
    \/ HandlerCommits(p) \/ HandlerFails(p)
    \/ ReadState(p) \/ WriteFailed(p)
    \/ PersistJournal(p) \/ TakeFence(p) \/ WriteComplete(p)
    \/ Verify(p) \/ Recheck(p) \/ Retire(p)

-----------------------------------------------------------------------------
(* The writers of progress: post-passes of the entity and graph consumers, *)
(* the routing after a rebuild.  They take none of the locks above.        *)

ReadForProgress(c) ==
    /\ progress = Idle
    /\ written < MaxProgress
    /\ ~Complete(pub, c)
    /\ progress' = [at |-> "write", r |-> pub, c |-> c, seen |-> state[pub][c]]
    /\ written' = written + 1
    /\ UNCHANGED <<pub, files, lock, fence, task, sweep, runs, crashes>>

WriteProgress ==
    /\ progress.at = "write"
    /\ state' = [state EXCEPT ![progress.r][progress.c] =
                   Rewritten(progress.seen, "progress", 0)]
    /\ progress' = Idle
    /\ UNCHANGED <<pub, receipts, journals, retired, lock, fence, task, sweep, history>>

-----------------------------------------------------------------------------
(* The retirement sweep, without a lock: status, existence check, write.   *)

\* Only a retirement of its own form, bound to the receipts that are there,
\* counts as retired; any other file makes the record "retirement_invalid".
TerminallyRetired(r) ==
    /\ AllComplete(r)
    /\ retired[r] = [form |-> "terminal", by |-> Receipts(r)]

SweepStatus ==
    /\ Sweeping
    /\ sweep = Idle
    /\ AllComplete(pub)
    /\ retired[pub] = NotRetired
    /\ sweep' = [at |-> "exists", r |-> pub, by |-> Receipts(pub)]
    /\ UNCHANGED <<pub, files, lock, fence, task, progress, history>>

SweepExists ==
    /\ sweep.at = "exists"
    /\ sweep' = IF retired[sweep.r] = NotRetired
                THEN [sweep EXCEPT !.at = "write"]
                ELSE Idle
    /\ UNCHANGED <<pub, files, lock, fence, task, progress, history>>

SweepWrite ==
    /\ sweep.at = "write"
    /\ retired' = [retired EXCEPT ![sweep.r] = [form |-> "terminal", by |-> sweep.by]]
    /\ sweep' = Idle
    /\ UNCHANGED <<pub, state, receipts, journals, lock, fence, task, progress, history>>

Sweep == SweepStatus \/ SweepExists \/ SweepWrite

-----------------------------------------------------------------------------

Next ==
    \/ Publish
    \/ \E p \in Procs : (\E c \in Consumers : Plan(p, c)) \/ Reconcile(p) \/ Crash(p)
    \/ \E c \in Consumers : ReadForProgress(c)
    \/ WriteProgress
    \/ Sweep

Spec == Init /\ [][Next]_vars

(* A process that runs keeps running, and the retry route reconciles every *)
(* consumer of the current record again and again.                         *)
Fairness ==
    /\ \A p \in Procs : WF_vars(Reconcile(p))
    /\ \A c \in Consumers : SF_vars(\E p \in Procs : Plan(p, c))
    /\ \A p \in Procs : SF_vars(Admit(p))
    /\ WF_vars(WriteProgress)

FairSpec == Spec /\ Fairness

-----------------------------------------------------------------------------
(* Properties.                                                             *)

\* Every variable stays within its type.
TypeOK ==
    /\ pub \in Records
    /\ state \in [Records -> [Consumers -> States]]
    /\ receipts \subseteq Operations
    /\ journals \subseteq Operations
    /\ retired \in [Records -> Retirements \union {NotRetired}]
    /\ lock \in Procs \union {NoOne}
    /\ fence \in Procs \union {NoOne}
    /\ \A p \in Procs :
         /\ task[p].at \in TaskSteps
         /\ ~At(p, "idle") =>
              /\ Operation(task[p]) \in Operations
              /\ task[p].seen \in States
              /\ task[p].prior \in States
    /\ runs \in [Records -> [Consumers -> Nat]]
    /\ written \in 0..MaxProgress
    /\ crashes \in 0..MaxCrashes

\* The handler of one operation commits at most once, whatever crashes, whoever
\* reconciles at the same time and whatever the progress writers do to the
\* attempt counter in between.
OneCommitPerOperation ==
    \A r \in Records, c \in Consumers :
      runs[r][c] = Cardinality({a \in 1..MaxAttempts : <<r, c, a>> \in receipts})

\* A complete state is backed by the receipt and the journal of one operation,
\* both durable before it.
CompletionIsBacked ==
    \A r \in Records, c \in Consumers :
      Complete(r, c) => <<r, c, state[r][c].receipt>> \in receipts \intersect journals

\* A consumer is completed, and a record retired by the targeted route, only
\* for the current publication: no publication gets past the fence meanwhile.
FencedWrites ==
    [][\A r \in Records :
         \/ \E c \in Consumers : ~Complete(r, c) /\ Complete(r, c)'
         \/ retired'[r] # retired[r] /\ retired'[r].form = "targeted"
         => r = pub]_vars

\* The handler of a consumer commits once per record: what a crash or a failure
\* after the commit leaves behind is found by the next call.
HandlerRunsOnce == \A r \in Records, c \in Consumers : runs[r][c] <= 1

\* No consumer is complete, and no handler runs, before its predecessors are
\* complete - although they are checked before the lock only.
DependenciesFirst ==
    /\ \A r \in Records, c \in Consumers :
         Complete(r, c) => \A d \in Dependency[c] : Complete(r, d)
    /\ \A p \in Procs :
         At(p, "handle") => \A d \in Dependency[task[p].c] : Complete(task[p].r, d)

\* A completion is final: nothing replaces it or takes it back.
CompletionIsFinal ==
    [][\A r \in Records, c \in Consumers :
         Complete(r, c) => state'[r][c] = state[r][c]]_vars

\* A retirement file binds the receipts of a record all of whose consumers are
\* complete, and keeps doing so.
RetirementIsProven ==
    \A r \in Records :
      retired[r] # NotRetired => AllComplete(r) /\ retired[r].by = Receipts(r)

\* A retired record is one that readiness, which asks for the terminal form,
\* releases.
RetirementReleases ==
    \A r \in Records : retired[r] # NotRetired => TerminallyRetired(r)

\* The current record is retired in the end, or a consumer's attempts are used
\* up; a crash at any step, even between the last completion and the
\* retirement, does not leave it in between.
RecordsSettle ==
    <>[](\/ retired[pub] # NotRetired
         \/ \E c \in Consumers :
              ~Complete(pub, c) /\ state[pub][c].attempts >= MaxAttempts)
=============================================================================
