--------------------------- MODULE SessionPublish ---------------------------
(***************************************************************************)
(* Crash-atomic publication of one session's projection.                   *)
(*                                                                         *)
(* A publisher owns a validated stage directory and replaces the session's *)
(* generated components one rename at a time.  A publish journal, a backup *)
(* directory, an immutable outbox record and a progress receipt make the   *)
(* sequence recoverable: whoever finds the journal after a crash either    *)
(* finalises the publication or rolls every component back.                *)
(*                                                                         *)
(* Source: scripts/aoa_session_memory.py, in particular                    *)
(*   atomic_publish_session_projection            (fence)                  *)
(*   _atomic_publish_session_projection_unfenced  (publisher)              *)
(*   recover_interrupted_session_projection_publish (recovery)             *)
(*                                                                         *)
(* The publication fence admits one publisher at a time, so its program    *)
(* counter is one variable: the fence is held exactly when pc # "idle".    *)
(* A component's content is the number of the publication that wrote it, 0 *)
(* for content older than the first publication of the model and Absent    *)
(* for a missing path.  A stage and a backup directory have names of their *)
(* own per attempt: stage and backup stand for those of attempt gen.       *)
(***************************************************************************)
EXTENDS Integers

CONSTANTS
    N,            \* number of component paths the publisher may replace
    InitialFiles, \* components the session already has at the start
    MaxGen        \* bound on the number of publication attempts

ASSUME PublishConstants ==
    /\ N \in Nat \ {0}
    /\ InitialFiles \subseteq 1..N
    /\ MaxGen \in Nat

VARIABLES
    \* on disk
    final,      \* the session's published components
    stage,      \* staged components of attempt gen
    backup,     \* displaced originals of attempt gen
    journal,    \* the publish journal, or NoJournal
    outbox,     \* attempts whose outbox record exists
    receipts,   \* attempts whose progress receipt exists
    \* in the memory of the publisher that holds the fence
    pc,         \* its next step
    cur,        \* index of the operation it works on
    mem,        \* its copy of the journal
    gen,        \* number of the latest attempt
    rec,        \* its activation of the recovery procedure
    \* history
    good,       \* the last-good file set: as of the latest committed attempt
    committed,  \* attempts that passed the commit point
    raised      \* attempts whose publisher returned an exception to its caller

disk == <<final, stage, backup, journal, outbox, receipts>>
history == <<good, committed, raised>>
vars == <<disk, pc, cur, mem, gen, rec, history>>

Comp == 1..N
Attempts == 1..MaxGen
Absent == -1
Content == {Absent} \union 0..MaxGen

NothingThere == [c \in Comp |-> Absent]

-----------------------------------------------------------------------------
(* The journal.  had and pub are the operations whose had_original and     *)
(* published flags are set; outWritten is outbox_record.written.           *)

Journals ==
    [status : {"publishing", "published"},
     gen : Attempts,
     ops : (SUBSET Comp) \ {{}},
     had : SUBSET Comp,
     pub : SUBSET Comp,
     outPre : BOOLEAN,
     outWritten : BOOLEAN,
     receiptWritten : BOOLEAN]

NoJournal == [status |-> "none"]

\* Mutant: the receipt is believed only when the journal already mentions it.
ReceiptProvesIfMarked(j) ==
    /\ j.outWritten
    /\ j.receiptWritten
    /\ j.gen \in receipts
    /\ j.gen \in outbox

\* recover_...: the journal says committed, or the progress receipt proves it.
ReceiptProves(j) ==
    /\ j.outWritten
    /\ j.gen \in receipts
    /\ j.gen \in outbox

\* Mutant: recovery looks at the journal's status alone.
CommittedByStatus(j) == j.status = "published"

Committed(j) == j.status = "published" \/ ReceiptProves(j)

-----------------------------------------------------------------------------
(* The recovery procedure, one activation r = [at, j, k]: the step it is   *)
(* at, the journal it read, the operation its reversed loop has come to.   *)

RecoverySteps == {"off", "ops", "restore", "outbox", "receipt", "stage",
                  "backup", "journal"}

Activations == [at : RecoverySteps, j : Journals \union {NoJournal}, k : 0..N]

Inactive == [at |-> "off", j |-> NoJournal, k |-> 0]

\* Mutant: a published journal needs no recovery.
ActivationUnlessPublished(j) ==
    IF j = NoJournal THEN Inactive
    ELSE IF Committed(j) THEN Inactive
    ELSE [at |-> "ops", j |-> j, k |-> N]

\* Reading the journal fixes what this activation will do.
ActivationFor(j) ==
    IF j = NoJournal THEN Inactive
    ELSE IF Committed(j) THEN [at |-> "stage", j |-> j, k |-> 0]
    ELSE [at |-> "ops", j |-> j, k |-> N]

\* The stage and backup paths of an older journal no longer exist.
Owns(r) == r.j.gen = gen

HasBackup(r, c) == Owns(r) /\ backup[c] # Absent

\* Mutant: whatever was published and has no backup is removed, although a
\* rollback that was itself interrupted has already put the original back.
RollBackOpTwice(r) ==
    /\ r.at = "ops"
    /\ r.k > 0
    /\ IF r.k \in r.j.ops /\ HasBackup(r, r.k)
       THEN /\ final' = [final EXCEPT ![r.k] = Absent]
            /\ r' = [r EXCEPT !.at = "restore"]
       ELSE /\ final' = IF r.k \in r.j.ops /\ r.k \in r.j.pub
                        THEN [final EXCEPT ![r.k] = Absent]
                        ELSE final
            /\ r' = [r EXCEPT !.k = @ - 1]
    /\ UNCHANGED <<stage, backup, journal, outbox, receipts>>

\* One turn of the reversed loop over operations.  An existing backup is put
\* back in two steps: the final path is removed, then the backup renamed.
RollBackOp(r) ==
    /\ r.at = "ops"
    /\ r.k > 0
    /\ IF r.k \in r.j.ops /\ HasBackup(r, r.k)
       THEN /\ final' = [final EXCEPT ![r.k] = Absent]
            /\ r' = [r EXCEPT !.at = "restore"]
       ELSE /\ final' = IF r.k \in r.j.ops /\ r.k \in r.j.pub \ r.j.had
                        THEN [final EXCEPT ![r.k] = Absent]
                        ELSE final
            /\ r' = [r EXCEPT !.k = @ - 1]
    /\ UNCHANGED <<stage, backup, journal, outbox, receipts>>

\* Without a backup the rename raises: the activation never gets past it.
RestoreBackup(r) ==
    /\ r.at = "restore"
    /\ HasBackup(r, r.k)
    /\ final' = [final EXCEPT ![r.k] = backup[r.k]]
    /\ backup' = [backup EXCEPT ![r.k] = Absent]
    /\ r' = [r EXCEPT !.at = "ops", !.k = @ - 1]
    /\ UNCHANGED <<stage, journal, outbox, receipts>>

OpsRolledBack(r) ==
    /\ r.at = "ops"
    /\ r.k = 0
    /\ r' = [r EXCEPT !.at = "outbox"]
    /\ UNCHANGED disk

\* Mutant: the record is removed only when the journal says it was written.
UnlinkOutboxIfMarked(r) ==
    /\ r.at = "outbox"
    /\ outbox' = IF r.j.outWritten THEN outbox \ {r.j.gen} ELSE outbox
    /\ r' = [r EXCEPT !.at = "receipt"]
    /\ UNCHANGED <<final, stage, backup, journal, receipts>>

UnlinkOutbox(r) ==
    /\ r.at = "outbox"
    /\ outbox' = IF r.j.outPre THEN outbox ELSE outbox \ {r.j.gen}
    /\ r' = [r EXCEPT !.at = "receipt"]
    /\ UNCHANGED <<final, stage, backup, journal, receipts>>

UnlinkReceipt(r) ==
    /\ r.at = "receipt"
    /\ receipts' = IF r.j.receiptWritten THEN receipts \ {r.j.gen} ELSE receipts
    /\ r' = [r EXCEPT !.at = "stage"]
    /\ UNCHANGED <<final, stage, backup, journal, outbox>>

RemoveStage(r) ==
    /\ r.at = "stage"
    /\ stage' = IF Owns(r) THEN NothingThere ELSE stage
    /\ r' = [r EXCEPT !.at = "backup"]
    /\ UNCHANGED <<final, backup, journal, outbox, receipts>>

RemoveBackup(r) ==
    /\ r.at = "backup"
    /\ backup' = IF Owns(r) THEN NothingThere ELSE backup
    /\ r' = [r EXCEPT !.at = "journal"]
    /\ UNCHANGED <<final, stage, journal, outbox, receipts>>

UnlinkJournal(r) ==
    /\ r.at = "journal"
    /\ journal' = NoJournal
    /\ r' = Inactive
    /\ UNCHANGED <<final, stage, backup, outbox, receipts>>

RecoverStep(r) ==
    \/ RollBackOp(r)
    \/ RestoreBackup(r)
    \/ OpsRolledBack(r)
    \/ UnlinkOutbox(r)
    \/ UnlinkReceipt(r)
    \/ RemoveStage(r)
    \/ RemoveBackup(r)
    \/ UnlinkJournal(r)

-----------------------------------------------------------------------------
(* The publisher.                                                          *)

TrySteps == {"backup", "place", "mark", "guard", "outbox", "outbox_mark",
             "receipt", "receipt_mark"}

PublisherSteps ==
    {"idle", "recover", "validate", "commit", "clean_backup", "clean_stage",
     "clean_journal", "fail", "fail_recover"} \union TrySteps

NoMem == NoJournal

Init ==
    /\ final = [c \in Comp |-> IF c \in InitialFiles THEN 0 ELSE Absent]
    /\ stage = NothingThere
    /\ backup = NothingThere
    /\ journal = NoJournal
    /\ outbox = {}
    /\ receipts = {}
    /\ pc = "idle"
    /\ cur = 1
    /\ mem = NoMem
    /\ gen = 0
    /\ rec = Inactive
    /\ good = final
    /\ committed = {}
    /\ raised = {}

\* The fence is taken and recovery reads the journal.
AcquireFence ==
    /\ pc = "idle"
    /\ pc' = "recover"
    /\ rec' = ActivationFor(journal)
    /\ UNCHANGED <<disk, cur, mem, gen, history>>

Recover ==
    /\ pc \in {"recover", "fail_recover"}
    /\ RecoverStep(rec)
    /\ UNCHANGED <<pc, cur, mem, gen, history>>

\* Recovery is over and the new attempt starts with validation.
RecoveryDone ==
    /\ pc = "recover"
    /\ rec.at = "off"
    /\ pc' = "validate"
    /\ UNCHANGED <<disk, cur, mem, gen, rec, history>>

\* The staged generation is not valid: nothing has been touched yet.
ValidationFails ==
    /\ pc = "validate"
    /\ pc' = "idle"
    /\ UNCHANGED <<disk, cur, mem, gen, rec, history>>

\* Validation passed: the publisher lists the staged components, records which
\* have an original, and persists the journal of a new attempt.
OpenJournal ==
    /\ pc = "validate"
    /\ gen < MaxGen
    /\ \E staged \in (SUBSET Comp) \ {{}} :
         /\ stage' = [c \in Comp |-> IF c \in staged THEN gen + 1 ELSE Absent]
         /\ journal' = [status |-> "publishing",
                        gen |-> gen + 1,
                        ops |-> staged,
                        had |-> {c \in staged : final[c] # Absent},
                        pub |-> {},
                        outPre |-> gen + 1 \in outbox,
                        outWritten |-> FALSE,
                        receiptWritten |-> FALSE]
    /\ mem' = journal'
    /\ gen' = gen + 1
    /\ backup' = NothingThere
    /\ cur' = 1
    /\ pc' = "backup"
    /\ UNCHANGED <<final, outbox, receipts, rec, history>>

\* Mutant: the loop does not stop at the last path.
SkipPathUnbounded ==
    /\ pc = "backup"
    /\ cur \notin mem.ops
    /\ cur' = cur + 1
    /\ UNCHANGED <<disk, pc, mem, gen, rec, history>>

\* A path that is not staged is not an operation.
SkipPath ==
    /\ pc = "backup"
    /\ cur \in Comp \ mem.ops
    /\ cur' = cur + 1
    /\ UNCHANGED <<disk, pc, mem, gen, rec, history>>

\* Mutant: the original is left to be overwritten by the staged component.
BackUpNothing ==
    /\ pc = "backup"
    /\ cur \in mem.ops
    /\ pc' = "place"
    /\ UNCHANGED <<disk, cur, mem, gen, rec, history>>

\* The original is renamed into the backup directory.
BackUp ==
    /\ pc = "backup"
    /\ cur \in mem.ops
    /\ IF cur \in mem.had
       THEN /\ final[cur] # Absent
            /\ backup' = [backup EXCEPT ![cur] = final[cur]]
            /\ final' = [final EXCEPT ![cur] = Absent]
       ELSE UNCHANGED <<final, backup>>
    /\ pc' = "place"
    /\ UNCHANGED <<stage, journal, outbox, receipts, cur, mem, gen, rec, history>>

\* The staged component is renamed into place; the flag is set in memory only.
Place ==
    /\ pc = "place"
    /\ stage[cur] # Absent
    /\ final' = [final EXCEPT ![cur] = stage[cur]]
    /\ stage' = [stage EXCEPT ![cur] = Absent]
    /\ mem' = [mem EXCEPT !.pub = @ \union {cur}]
    /\ pc' = "mark"
    /\ UNCHANGED <<backup, journal, outbox, receipts, cur, gen, rec, history>>

\* The journal with the published flag becomes durable.
Mark ==
    /\ pc = "mark"
    /\ journal' = mem
    /\ cur' = cur + 1
    /\ pc' = "backup"
    /\ UNCHANGED <<final, stage, backup, outbox, receipts, mem, gen, rec, history>>

\* All operations are done.
OpsDone ==
    /\ pc = "backup"
    /\ cur > N
    /\ pc' = "guard"
    /\ UNCHANGED <<disk, cur, mem, gen, rec, history>>

\* The loaded producer source is still the one that built the stage.
ProducerStable ==
    /\ pc = "guard"
    /\ pc' = "outbox"
    /\ UNCHANGED <<disk, cur, mem, gen, rec, history>>

WriteOutbox ==
    /\ pc = "outbox"
    /\ outbox' = outbox \union {gen}
    /\ mem' = [mem EXCEPT !.outWritten = TRUE]
    /\ pc' = "outbox_mark"
    /\ UNCHANGED <<final, stage, backup, journal, receipts, cur, gen, rec, history>>

MarkOutbox ==
    /\ pc = "outbox_mark"
    /\ journal' = mem
    /\ pc' = "receipt"
    /\ UNCHANGED <<final, stage, backup, outbox, receipts, cur, mem, gen, rec, history>>

\* The commit point: from here on recovery finalises.
WriteReceipt ==
    /\ pc = "receipt"
    /\ receipts' = receipts \union {gen}
    /\ mem' = [mem EXCEPT !.receiptWritten = TRUE]
    /\ pc' = "receipt_mark"
    /\ good' = [c \in Comp |-> IF c \in mem.ops THEN gen ELSE good[c]]
    /\ committed' = committed \union {gen}
    /\ UNCHANGED <<final, stage, backup, journal, outbox, cur, gen, rec, raised>>

MarkReceipt ==
    /\ pc = "receipt_mark"
    /\ journal' = mem
    /\ pc' = "commit"
    /\ UNCHANGED <<final, stage, backup, outbox, receipts, cur, mem, gen, rec, history>>

MarkPublished ==
    /\ pc = "commit"
    /\ mem' = [mem EXCEPT !.status = "published"]
    /\ journal' = mem'
    /\ pc' = "clean_backup"
    /\ UNCHANGED <<final, stage, backup, outbox, receipts, cur, gen, rec, history>>

CleanBackup ==
    /\ pc = "clean_backup"
    /\ backup' = NothingThere
    /\ pc' = "clean_stage"
    /\ UNCHANGED <<final, stage, journal, outbox, receipts, cur, mem, gen, rec, history>>

CleanStage ==
    /\ pc = "clean_stage"
    /\ stage' = NothingThere
    /\ pc' = "clean_journal"
    /\ UNCHANGED <<final, backup, journal, outbox, receipts, cur, mem, gen, rec, history>>

CleanJournal ==
    /\ pc = "clean_journal"
    /\ journal' = NoJournal
    /\ pc' = "idle"
    /\ mem' = NoMem
    /\ UNCHANGED <<final, stage, backup, outbox, receipts, cur, gen, rec, history>>

\* A step inside the try block raises before its effect: a rename or a durable
\* write fails, the producer changed, a record collides.
Raise ==
    /\ pc \in TrySteps
    /\ pc' = "fail"
    /\ UNCHANGED <<disk, cur, mem, gen, rec, history>>

\* The except clause persists the journal as it is in memory and recovers.
PersistForRollback ==
    /\ pc = "fail"
    /\ journal' = mem
    /\ rec' = ActivationFor(mem)
    /\ pc' = "fail_recover"
    /\ UNCHANGED <<final, stage, backup, outbox, receipts, cur, mem, gen, history>>

\* The exception continues to the caller and the fence is released.
Reraise ==
    /\ pc = "fail_recover"
    /\ rec.at = "off"
    /\ pc' = "idle"
    /\ mem' = NoMem
    /\ raised' = raised \union {gen}
    /\ UNCHANGED <<disk, cur, gen, rec, good, committed>>

\* The process dies, or raises outside the try block; the fence is released.
Crash ==
    /\ pc # "idle"
    /\ pc' = "idle"
    /\ mem' = NoMem
    /\ rec' = Inactive
    /\ UNCHANGED <<disk, cur, gen, history>>

Publish ==
    \/ RecoveryDone
    \/ ValidationFails
    \/ OpenJournal
    \/ SkipPath \/ BackUp \/ Place \/ Mark \/ OpsDone
    \/ ProducerStable
    \/ WriteOutbox \/ MarkOutbox
    \/ WriteReceipt \/ MarkReceipt
    \/ MarkPublished
    \/ CleanBackup \/ CleanStage \/ CleanJournal
    \/ PersistForRollback \/ Reraise

Next == AcquireFence \/ Recover \/ Publish \/ Raise \/ Crash

Spec == Init /\ [][Next]_vars

(* A running process keeps running, and the retry route calls the publisher *)
(* again for as long as the projection is not current.                      *)
Fairness == WF_vars(AcquireFence) /\ WF_vars(Recover) /\ WF_vars(Publish)

FairSpec == Spec /\ Fairness

-----------------------------------------------------------------------------
(* Properties.                                                             *)

\* Every variable stays within its type.
TypeOK ==
    /\ final \in [Comp -> Content]
    /\ stage \in [Comp -> Content]
    /\ backup \in [Comp -> Content]
    /\ journal \in Journals \union {NoJournal}
    /\ outbox \subseteq Attempts
    /\ receipts \subseteq Attempts
    /\ pc \in PublisherSteps
    /\ cur \in 1..(N + 1)
    /\ mem \in Journals \union {NoMem}
    /\ gen \in 0..MaxGen
    /\ rec \in Activations
    /\ good \in [Comp -> Content]
    /\ committed \subseteq Attempts
    /\ raised \subseteq Attempts

\* What recovery would leave at component c if it ran to its end from here.
Recovered(c) ==
    IF journal = NoJournal \/ Committed(journal) \/ c \notin journal.ops
    THEN final[c]
    ELSE IF backup[c] # Absent THEN backup[c]
    ELSE IF c \in journal.pub \ journal.had THEN Absent ELSE final[c]

\* At every moment - a crash may strike at each - recovery leaves the last-good
\* content at every component that has one: neither a half-done replacement,
\* nor a half-done rollback, nor a rollback after the commit point loses it.
OriginalsRecoverable ==
    \A c \in Comp : good[c] # Absent => Recovered(c) = good[c]

\* At every moment recovery leaves exactly the last-good file set, components
\* that did not exist before the attempt included.
LastGoodRecoverable == \A c \in Comp : Recovered(c) = good[c]

\* The outbox record and the progress receipt exist exactly for the attempts
\* that committed, whenever no publication is open.
IntentsMatchCommits ==
    journal = NoJournal => outbox = committed /\ receipts = committed

\* A publication that raised to its caller - which reports "last good
\* preserved" - left no component of its generation behind.
RaisedKeepsLastGood ==
    pc = "idle" => \A c \in Comp : final[c] \notin raised

\* The commit is irrevocable: no later crash, rollback or retry removes the
\* outbox record of a committed attempt, or commits an attempt it rolled back.
CommitIsIrrevocable ==
    [][/\ committed \subseteq committed'
       /\ outbox \intersect committed \subseteq outbox'
       /\ \A g \in Attempts :
            g <= gen /\ g \notin committed /\ g \in committed'
              => pc = "receipt"]_vars

\* The outbox records that recovery would keep if it ran to its end from here.
SurvivingIntents ==
    IF journal # NoJournal /\ ~Committed(journal) /\ ~journal.outPre
    THEN outbox \ {journal.gen}
    ELSE outbox

Atomic == INSTANCE AtomicPublication
              WITH Original <- {Absent, 0},
                   view <- [c \in Comp |-> Recovered(c)],
                   records <- SurvivingIntents

\* All of it together is one atomic step per publication: it replaces a set of
\* components and adds its outbox record, and nothing else ever happens to what
\* recovery would leave behind.
PublishesAtomically == Atomic!Spec

\* If processes stop crashing, an open journal is eventually closed and the
\* readers it blocks may read again.  (A crash during validation is the same
\* step as ValidationFails.)
JournalEventuallyClosed ==
    <>[][Crash => pc = "validate"]_vars
      => (journal # NoJournal ~> journal = NoJournal)
=============================================================================
