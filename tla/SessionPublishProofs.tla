-------------------------- MODULE SessionPublishProofs --------------------------
(***************************************************************************)
(* Theorems about SessionPublish, for every number of components, every    *)
(* initial file set and every number of attempts.                          *)
(*                                                                         *)
(* The inductive invariant IInv says, for each place the publisher or the  *)
(* recovery can be in, what the journal in memory, the journal on disk,    *)
(* the backup directory and the records have to do with each other.        *)
(***************************************************************************)
EXTENDS SessionPublish, TLAPS

Open == journal # NoJournal
Uncommitted == Open /\ ~Committed(journal)

\* The last-good content of a component is where recovery will look for it.
Kept(c) ==
    IF Uncommitted /\ c \in journal.ops
    THEN /\ c \in journal.had
         /\ backup[c] = good[c] \/ (backup[c] = Absent /\ final[c] = good[c])
    ELSE final[c] = good[c]

AllKept == \A c \in Comp : good[c] # Absent => Kept(c)

\* Records of earlier attempts are exactly the committed ones; the latest
\* attempt has a receipt exactly if it committed.
RecordsOK ==
    /\ \A g \in Attempts :
         /\ g \in outbox \/ g \in receipts \/ g \in committed => g <= gen
         /\ g # gen => (g \in outbox <=> g \in committed)
         /\ g # gen => (g \in receipts <=> g \in committed)
    /\ ~Open => (gen \in outbox <=> gen \in committed)
    /\ gen \in receipts <=> gen \in committed
    /\ Open => (Committed(journal) <=> gen \in committed)
    /\ gen \in committed => gen \in outbox

JournalOK == Open => /\ journal.gen = gen
                     /\ journal.outPre = FALSE

\* Every operation below k has its original in the backup directory and its
\* staged component in place; no operation above k has been touched.
DoneUpTo(k) ==
    \A c \in mem.ops :
        /\ c < k => final[c] = gen
        /\ c > k => backup[c] = Absent

\* The publisher's copy of the journal agrees with the durable one.
Running ==
    /\ Open
    /\ mem \in Journals
    /\ mem.gen = gen
    /\ mem.outPre = FALSE
    /\ mem.status = "publishing"
    /\ journal.status = "publishing"
    /\ mem.ops = journal.ops
    /\ mem.had = journal.had
    /\ journal.outWritten => mem.outWritten
    /\ rec = Inactive

BeforeCommit == Running /\ gen \notin receipts

AllPlaced == \A c \in mem.ops : final[c] = gen

StageOK == \A c \in Comp : stage[c] \in {Absent, gen}

RolledBack == \A c \in journal.ops : backup[c] = Absent

RecoveryOK ==
    /\ rec.at = "off" => rec = Inactive /\ ~Open
    /\ rec.at # "off" => Open /\ rec.j = journal
    /\ rec.at \in {"ops", "restore"} =>
         /\ Uncommitted
         /\ \A c \in journal.ops : c > rec.k => backup[c] = Absent
    /\ rec.at = "restore" => rec.k \in journal.ops
    /\ rec.at \in {"outbox", "receipt"} => Uncommitted /\ RolledBack
    /\ rec.at = "receipt" => gen \notin outbox
    /\ rec.at \in {"stage", "backup", "journal"} =>
         \/ Committed(journal)
         \/ RolledBack /\ gen \notin outbox

ControlOK ==
    /\ pc = "idle" => rec = Inactive
    /\ pc \in {"recover", "fail_recover"} => RecoveryOK
    /\ pc = "validate" => rec = Inactive /\ ~Open
    /\ pc = "backup" => BeforeCommit /\ DoneUpTo(cur)
                        /\ (cur \in mem.ops => backup[cur] = Absent)
    /\ pc = "place" => BeforeCommit /\ DoneUpTo(cur) /\ cur \in mem.ops
                       /\ (cur \in mem.had => backup[cur] # Absent)
    /\ pc = "mark" => BeforeCommit /\ DoneUpTo(cur) /\ cur \in mem.ops
                      /\ final[cur] = gen
    /\ pc \in {"guard", "outbox", "outbox_mark", "receipt"} =>
         BeforeCommit /\ AllPlaced
    /\ pc \in {"outbox_mark", "receipt"} => mem.outWritten /\ gen \in outbox
    /\ pc = "receipt" => journal = mem
    /\ pc = "receipt_mark" =>
         Running /\ gen \in receipts /\ journal.outWritten
    /\ pc = "fail" => Running
    /\ pc = "fail_recover" => gen \in Attempts
    /\ pc = "commit" => Open /\ Committed(journal) /\ mem = journal /\ rec = Inactive
    /\ pc \in {"clean_backup", "clean_stage", "clean_journal"} =>
         Open /\ Committed(journal) /\ rec = Inactive

IInv ==
    /\ TypeOK
    /\ JournalOK
    /\ RecordsOK
    /\ StageOK
    /\ AllKept
    /\ ControlOK

\* The fence is granted: the publisher goes to recovery, or to validation.
LEMMA AcquireFenceStep ==
  ASSUME IInv, AcquireFence
  PROVE  IInv'
<1>1. TypeOK'
  BY PublishConstants DEF IInv, TypeOK, AcquireFence, ActivationFor, disk,
    history, PublisherSteps, TrySteps, Inactive, Activations, RecoverySteps
<1>2. JournalOK'
  BY DEF IInv, JournalOK, Open, AcquireFence, ActivationFor, disk
<1>3. RecordsOK'
  BY DEF IInv, RecordsOK, Open, Committed, ReceiptProves, AcquireFence,
    ActivationFor, disk, history
<1>4. StageOK'
  BY DEF IInv, StageOK, AcquireFence, ActivationFor, disk
<1>5. AllKept'
  BY DEF IInv, AllKept, Kept, Uncommitted, Open, Committed, ReceiptProves,
    AcquireFence, ActivationFor, disk, history
<1>6. ControlOK'
  BY PublishConstants DEF IInv, ControlOK, RecoveryOK, Open, AcquireFence,
    ActivationFor, disk, Inactive, Committed, ReceiptProves, Uncommitted,
    TypeOK, Comp, Journals
<1> QED BY <1>1, <1>2, <1>3, <1>4, <1>5, <1>6 DEF IInv

\* Recovery visits one operation of an uncommitted journal.
LEMMA RollBackOpStep ==
  ASSUME IInv, RollBackOp(rec), pc \in {"recover", "fail_recover"},
         UNCHANGED <<pc, cur, mem, gen, history>>
  PROVE  IInv'
<1>1. TypeOK'
  BY PublishConstants DEF IInv, TypeOK, RollBackOp, Owns, HasBackup, history,
    PublisherSteps, TrySteps, Activations, RecoverySteps, ControlOK, Content,
    Attempts, Journals, NoJournal, NoMem
<1>2. JournalOK'
  BY DEF IInv, JournalOK, Open, RollBackOp, Owns, HasBackup
<1>3. RecordsOK'
  BY DEF IInv, RecordsOK, Open, Committed, ReceiptProves, RollBackOp, Owns,
    HasBackup, history
<1>4. StageOK'
  BY DEF IInv, StageOK, RollBackOp, Owns, HasBackup
<1>5. AllKept'
  BY DEF IInv, AllKept, Kept, Uncommitted, Open, Committed, ReceiptProves,
    RollBackOp, Owns, HasBackup, history, ControlOK, RecoveryOK, TypeOK
<1>6. ControlOK'
  BY DEF IInv, ControlOK, RecoveryOK, Open, RollBackOp, Owns, HasBackup,
    Activations, RecoverySteps, Committed, ReceiptProves, Uncommitted,
    JournalOK, TypeOK, Comp, Journals
<1> QED BY <1>1, <1>2, <1>3, <1>4, <1>5, <1>6 DEF IInv

\* Recovery moves the original of one operation back.
LEMMA RestoreBackupStep ==
  ASSUME IInv, RestoreBackup(rec), pc \in {"recover", "fail_recover"},
         UNCHANGED <<pc, cur, mem, gen, history>>
  PROVE  IInv'
<1>1. TypeOK'
  <2>1. rec.k \in Comp /\ rec.j = journal
    BY DEF IInv, TypeOK, ControlOK, RecoveryOK, RestoreBackup, Open, Journals
  <2>2. rec' = [rec EXCEPT !.at = "ops", !.k = @ - 1]
    BY DEF RestoreBackup
  <2>3. rec.k - 1 \in 0..N
    BY <2>1, PublishConstants DEF Comp
  <2>4. rec \in Activations
    BY DEF IInv, TypeOK
  <2>5. rec' = [at |-> "ops", j |-> rec.j, k |-> rec.k - 1]
    BY <2>2, <2>4 DEF Activations
  <2>6. rec' \in Activations
    BY <2>3, <2>4, <2>5 DEF Activations, RecoverySteps
  <2>7. final' \in [Comp -> Content] /\ backup' \in [Comp -> Content]
    BY <2>1 DEF IInv, TypeOK, RestoreBackup, Content
  <2> QED
    BY <2>6, <2>7 DEF IInv, TypeOK, RestoreBackup, history
<1>2. JournalOK'
  BY DEF IInv, JournalOK, Open, RestoreBackup, Owns, HasBackup
<1>3. RecordsOK'
  BY DEF IInv, RecordsOK, Open, Committed, ReceiptProves, RestoreBackup,
    Owns, HasBackup, history
<1>4. StageOK'
  BY DEF IInv, StageOK, RestoreBackup, Owns, HasBackup
<1>5. AllKept'
  BY DEF IInv, AllKept, Kept, Uncommitted, Open, Committed, ReceiptProves,
    RestoreBackup, Owns, HasBackup, history, ControlOK, RecoveryOK, TypeOK
<1>6. ControlOK'
  BY DEF IInv, ControlOK, RecoveryOK, Open, RestoreBackup, Owns, HasBackup,
    Committed, ReceiptProves, Uncommitted, TypeOK, Comp, Journals
<1> QED BY <1>1, <1>2, <1>3, <1>4, <1>5, <1>6 DEF IInv

\* All operations are rolled back; the records are next.
LEMMA OpsRolledBackStep ==
  ASSUME IInv, OpsRolledBack(rec), pc \in {"recover", "fail_recover"},
         UNCHANGED <<pc, cur, mem, gen, history>>
  PROVE  IInv'
<1>1. TypeOK'
  BY DEF IInv, TypeOK, OpsRolledBack, disk, history, Activations,
    RecoverySteps
<1>2. JournalOK'
  BY DEF IInv, JournalOK, Open, OpsRolledBack, disk
<1>3. RecordsOK'
  BY DEF IInv, RecordsOK, Open, Committed, ReceiptProves, OpsRolledBack,
    disk, history
<1>4. StageOK'
  BY DEF IInv, StageOK, OpsRolledBack, disk
<1>5. AllKept'
  BY DEF IInv, AllKept, Kept, Uncommitted, Open, Committed, ReceiptProves,
    OpsRolledBack, disk, history
<1>6. ControlOK'
  BY DEF IInv, ControlOK, RecoveryOK, Open, OpsRolledBack, disk, Committed,
    ReceiptProves, RolledBack, Uncommitted, TypeOK, Comp, Journals
<1> QED BY <1>1, <1>2, <1>3, <1>4, <1>5, <1>6 DEF IInv

\* Recovery unlinks the outbox record of an uncommitted generation.
LEMMA UnlinkOutboxStep ==
  ASSUME IInv, UnlinkOutbox(rec), pc \in {"recover", "fail_recover"},
         UNCHANGED <<pc, cur, mem, gen, history>>
  PROVE  IInv'
<1>1. TypeOK'
  BY DEF IInv, TypeOK, UnlinkOutbox, history, Activations, RecoverySteps
<1>2. JournalOK'
  BY DEF IInv, JournalOK, Open, UnlinkOutbox
<1>3. RecordsOK'
  BY DEF IInv, RecordsOK, Committed, ReceiptProves, UnlinkOutbox, history,
    ControlOK, RecoveryOK, JournalOK, Uncommitted
<1>4. StageOK'
  BY DEF IInv, StageOK, UnlinkOutbox
<1>5. AllKept'
  BY DEF IInv, AllKept, Kept, Uncommitted, Open, Committed, ReceiptProves,
    UnlinkOutbox, history, ControlOK, RecoveryOK
<1>6. ControlOK'
  BY DEF IInv, ControlOK, RecoveryOK, Open, UnlinkOutbox, Uncommitted,
    RolledBack, JournalOK, Committed, ReceiptProves
<1> QED BY <1>1, <1>2, <1>3, <1>4, <1>5, <1>6 DEF IInv

\* Recovery unlinks the receipt of an uncommitted generation.
LEMMA UnlinkReceiptStep ==
  ASSUME IInv, UnlinkReceipt(rec), pc \in {"recover", "fail_recover"},
         UNCHANGED <<pc, cur, mem, gen, history>>
  PROVE  IInv'
<1>1. TypeOK'
  BY DEF IInv, TypeOK, UnlinkReceipt, history, Activations, RecoverySteps
<1>2. JournalOK'
  BY DEF IInv, JournalOK, Open, UnlinkReceipt
<1>3. RecordsOK'
  BY DEF IInv, RecordsOK, Committed, ReceiptProves, UnlinkReceipt, history,
    ControlOK, RecoveryOK, JournalOK
<1>4. StageOK'
  BY DEF IInv, StageOK, UnlinkReceipt
<1>5. AllKept'
  BY DEF IInv, AllKept, Kept, Uncommitted, Open, Committed, ReceiptProves,
    UnlinkReceipt, history, ControlOK, RecoveryOK
<1>6. ControlOK'
  BY DEF IInv, ControlOK, RecoveryOK, Open, UnlinkReceipt, RolledBack
<1> QED BY <1>1, <1>2, <1>3, <1>4, <1>5, <1>6 DEF IInv

\* Recovery removes the stage.
LEMMA RemoveStageStep ==
  ASSUME IInv, RemoveStage(rec), pc \in {"recover", "fail_recover"},
         UNCHANGED <<pc, cur, mem, gen, history>>
  PROVE  IInv'
<1>1. TypeOK'
  BY DEF IInv, TypeOK, RemoveStage, Owns, history, Activations,
    RecoverySteps, ControlOK, Content, NothingThere
<1>2. JournalOK'
  BY DEF IInv, JournalOK, Open, RemoveStage, Owns
<1>3. RecordsOK'
  BY DEF IInv, RecordsOK, Open, Committed, ReceiptProves, RemoveStage, Owns,
    history
<1>4. StageOK'
  BY DEF IInv, StageOK, RemoveStage, Owns, NothingThere
<1>5. AllKept'
  BY DEF IInv, AllKept, Kept, Uncommitted, Open, Committed, ReceiptProves,
    RemoveStage, Owns, history
<1>6. ControlOK'
  BY DEF IInv, ControlOK, RecoveryOK, Open, RemoveStage, Owns, RolledBack,
    Committed, ReceiptProves
<1> QED BY <1>1, <1>2, <1>3, <1>4, <1>5, <1>6 DEF IInv

\* Recovery removes the backup directory.
LEMMA RemoveBackupStep ==
  ASSUME IInv, RemoveBackup(rec), pc \in {"recover", "fail_recover"},
         UNCHANGED <<pc, cur, mem, gen, history>>
  PROVE  IInv'
<1>1. TypeOK'
  BY DEF IInv, TypeOK, RemoveBackup, Owns, history, Activations,
    RecoverySteps, ControlOK, Content, NothingThere
<1>2. JournalOK'
  BY DEF IInv, JournalOK, Open, RemoveBackup, Owns
<1>3. RecordsOK'
  BY DEF IInv, RecordsOK, Open, Committed, ReceiptProves, RemoveBackup, Owns,
    history
<1>4. StageOK'
  BY DEF IInv, StageOK, RemoveBackup, Owns
<1>5. AllKept'
  BY DEF IInv, AllKept, Kept, Uncommitted, Committed, ReceiptProves,
    RemoveBackup, Owns, history, ControlOK, RecoveryOK, RolledBack,
    NothingThere
<1>6. ControlOK'
  BY DEF IInv, ControlOK, RecoveryOK, Open, RemoveBackup, Owns, Committed,
    ReceiptProves, RolledBack, TypeOK, Journals, NothingThere
<1> QED BY <1>1, <1>2, <1>3, <1>4, <1>5, <1>6 DEF IInv

\* Recovery unlinks the journal.
LEMMA UnlinkJournalStep ==
  ASSUME IInv, UnlinkJournal(rec), pc \in {"recover", "fail_recover"},
         UNCHANGED <<pc, cur, mem, gen, history>>
  PROVE  IInv'
<1>1. TypeOK'
  BY PublishConstants DEF IInv, TypeOK, UnlinkJournal, history, Inactive,
    Activations, RecoverySteps
<1>2. JournalOK'
  BY DEF IInv, JournalOK, Open, UnlinkJournal
<1>3. RecordsOK'
  BY DEF IInv, RecordsOK, Open, UnlinkJournal, history, ControlOK, RecoveryOK
<1>4. StageOK'
  BY DEF IInv, StageOK, UnlinkJournal
<1>5. AllKept'
  BY DEF IInv, AllKept, Kept, Uncommitted, Open, UnlinkJournal, history,
    ControlOK, RecoveryOK, RolledBack
<1>6. ControlOK'
  BY DEF IInv, ControlOK, RecoveryOK, Open, UnlinkJournal, Inactive
<1> QED BY <1>1, <1>2, <1>3, <1>4, <1>5, <1>6 DEF IInv

\* The publisher continues after recovery.
LEMMA RecoveryDoneStep ==
  ASSUME IInv, RecoveryDone
  PROVE  IInv'
<1>1. TypeOK'
  BY DEF IInv, TypeOK, RecoveryDone, disk, history, PublisherSteps, TrySteps
<1>2. JournalOK'
  BY DEF IInv, JournalOK, Open, RecoveryDone, disk
<1>3. RecordsOK'
  BY DEF IInv, RecordsOK, Open, Committed, ReceiptProves, RecoveryDone, disk,
    history
<1>4. StageOK'
  BY DEF IInv, StageOK, RecoveryDone, disk
<1>5. AllKept'
  BY DEF IInv, AllKept, Kept, Uncommitted, Open, Committed, ReceiptProves,
    RecoveryDone, disk, history
<1>6. ControlOK'
  BY DEF IInv, ControlOK, RecoveryOK, Open, RecoveryDone, disk
<1> QED BY <1>1, <1>2, <1>3, <1>4, <1>5, <1>6 DEF IInv

\* The transaction gives up before it writes a journal.
LEMMA ValidationFailsStep ==
  ASSUME IInv, ValidationFails
  PROVE  IInv'
<1>1. TypeOK'
  BY DEF IInv, TypeOK, ValidationFails, disk, history, PublisherSteps,
    TrySteps
<1>2. JournalOK'
  BY DEF IInv, JournalOK, Open, ValidationFails, disk
<1>3. RecordsOK'
  BY DEF IInv, RecordsOK, Open, Committed, ReceiptProves, ValidationFails,
    disk, history
<1>4. StageOK'
  BY DEF IInv, StageOK, ValidationFails, disk
<1>5. AllKept'
  BY DEF IInv, AllKept, Kept, Uncommitted, Open, Committed, ReceiptProves,
    ValidationFails, disk, history
<1>6. ControlOK'
  BY DEF IInv, ControlOK, ValidationFails
<1> QED BY <1>1, <1>2, <1>3, <1>4, <1>5, <1>6 DEF IInv

\* A path without an operation is passed over.
LEMMA SkipPathStep ==
  ASSUME IInv, SkipPath
  PROVE  IInv'
<1>1. TypeOK'
  BY PublishConstants DEF IInv, TypeOK, SkipPath, disk, history, Comp
<1>2. JournalOK'
  BY DEF IInv, JournalOK, Open, SkipPath, disk
<1>3. RecordsOK'
  BY DEF IInv, RecordsOK, Open, Committed, ReceiptProves, SkipPath, disk,
    history
<1>4. StageOK'
  BY DEF IInv, StageOK, SkipPath, disk
<1>5. AllKept'
  BY DEF IInv, AllKept, Kept, Uncommitted, Open, Committed, ReceiptProves,
    SkipPath, disk, history
<1>6. ControlOK'
  BY DEF IInv, ControlOK, Running, BeforeCommit, Open, SkipPath, disk,
    TypeOK, DoneUpTo, Journals
<1> QED BY <1>1, <1>2, <1>3, <1>4, <1>5, <1>6 DEF IInv

\* The original of one operation moves to the backup directory.
LEMMA BackUpStep ==
  ASSUME IInv, BackUp
  PROVE  IInv'
<1>1. TypeOK'
  BY DEF IInv, TypeOK, BackUp, history, PublisherSteps, TrySteps, Content
<1>2. JournalOK'
  BY DEF IInv, JournalOK, Open, BackUp
<1>3. RecordsOK'
  BY DEF IInv, RecordsOK, Open, Committed, ReceiptProves, BackUp, history
<1>4. StageOK'
  BY DEF IInv, StageOK, BackUp
<1>5. AllKept'
  BY DEF IInv, AllKept, Kept, Uncommitted, Open, Committed, ReceiptProves,
    BackUp, history, ControlOK, BeforeCommit, Running, TypeOK, RecordsOK
<1>6. ControlOK'
  BY PublishConstants DEF IInv, ControlOK, Running, BeforeCommit, Open,
    BackUp, TypeOK, DoneUpTo, Journals
<1> QED BY <1>1, <1>2, <1>3, <1>4, <1>5, <1>6 DEF IInv

\* A staged component moves into place.
LEMMA PlaceStep ==
  ASSUME IInv, Place
  PROVE  IInv'
<1>1. TypeOK'
  <2>1. mem \in Journals /\ cur \in mem.ops
    BY DEF IInv, ControlOK, BeforeCommit, Running, Place
  <2>2. cur \in Comp
    BY <2>1 DEF Journals
  <2>3. mem' \in Journals
    BY <2>1, <2>2 DEF Place, Journals
  <2>4. final' \in [Comp -> Content] /\ stage' \in [Comp -> Content]
    BY <2>2 DEF IInv, TypeOK, Place, Content
  <2> QED
    BY <2>3, <2>4 DEF IInv, TypeOK, Place, history, PublisherSteps, TrySteps
<1>2. JournalOK'
  BY DEF IInv, JournalOK, Open, Place
<1>3. RecordsOK'
  BY DEF IInv, RecordsOK, Open, Committed, ReceiptProves, Place, history
<1>4. StageOK'
  BY DEF IInv, StageOK, Place
<1>5. AllKept'
  BY DEF IInv, AllKept, Kept, Uncommitted, Open, Committed, ReceiptProves,
    Place, history, ControlOK, BeforeCommit, Running, RecordsOK
<1>6. ControlOK'
  BY DEF IInv, ControlOK, Running, BeforeCommit, Open, Place, StageOK,
    TypeOK, DoneUpTo, Journals
<1> QED BY <1>1, <1>2, <1>3, <1>4, <1>5, <1>6 DEF IInv

\* The published flag of the operation becomes durable.
LEMMA MarkStep ==
  ASSUME IInv, Mark
  PROVE  IInv'
<1>1. TypeOK'
  BY PublishConstants DEF IInv, TypeOK, Mark, history, PublisherSteps,
    TrySteps, ControlOK, BeforeCommit, Running, Comp, Journals
<1>2. JournalOK'
  BY DEF IInv, JournalOK, Mark, ControlOK, BeforeCommit, Running
<1>3. RecordsOK'
  BY DEF IInv, RecordsOK, Open, Committed, ReceiptProves, Mark, history,
    ControlOK, BeforeCommit, Running, NoJournal
<1>4. StageOK'
  BY DEF IInv, StageOK, Mark
<1>5. AllKept'
  BY DEF IInv, AllKept, Kept, Uncommitted, Open, Committed, ReceiptProves,
    Mark, history, ControlOK, BeforeCommit, Running, RecordsOK, NoJournal
<1>6. ControlOK'
  BY DEF IInv, ControlOK, Running, BeforeCommit, Open, Mark, DoneUpTo, Comp,
    Journals, NoJournal
<1> QED BY <1>1, <1>2, <1>3, <1>4, <1>5, <1>6 DEF IInv

\* The loop over the operations ends.
LEMMA OpsDoneStep ==
  ASSUME IInv, OpsDone
  PROVE  IInv'
<1>1. TypeOK'
  BY DEF IInv, TypeOK, OpsDone, disk, history, PublisherSteps, TrySteps
<1>2. JournalOK'
  BY DEF IInv, JournalOK, Open, OpsDone, disk
<1>3. RecordsOK'
  BY DEF IInv, RecordsOK, Open, Committed, ReceiptProves, OpsDone, disk,
    history
<1>4. StageOK'
  BY DEF IInv, StageOK, OpsDone, disk
<1>5. AllKept'
  BY DEF IInv, AllKept, Kept, Uncommitted, Open, Committed, ReceiptProves,
    OpsDone, disk, history
<1>6. ControlOK'
  BY PublishConstants DEF IInv, ControlOK, Running, BeforeCommit, Open,
    OpsDone, disk, TypeOK, DoneUpTo, AllPlaced, Comp, Journals
<1> QED BY <1>1, <1>2, <1>3, <1>4, <1>5, <1>6 DEF IInv

\* The producer guard holds.
LEMMA ProducerStableStep ==
  ASSUME IInv, ProducerStable
  PROVE  IInv'
<1>1. TypeOK'
  BY DEF IInv, TypeOK, ProducerStable, disk, history, PublisherSteps,
    TrySteps
<1>2. JournalOK'
  BY DEF IInv, JournalOK, Open, ProducerStable, disk
<1>3. RecordsOK'
  BY DEF IInv, RecordsOK, Open, Committed, ReceiptProves, ProducerStable,
    disk, history
<1>4. StageOK'
  BY DEF IInv, StageOK, ProducerStable, disk
<1>5. AllKept'
  BY DEF IInv, AllKept, Kept, Uncommitted, Open, Committed, ReceiptProves,
    ProducerStable, disk, history
<1>6. ControlOK'
  BY DEF IInv, ControlOK, Running, BeforeCommit, Open, ProducerStable, disk,
    AllPlaced
<1> QED BY <1>1, <1>2, <1>3, <1>4, <1>5, <1>6 DEF IInv

\* The outbox record is written.
LEMMA WriteOutboxStep ==
  ASSUME IInv, WriteOutbox
  PROVE  IInv'
<1>1. TypeOK'
  <2>1. mem \in Journals /\ gen \in Attempts
    BY DEF IInv, ControlOK, BeforeCommit, Running, WriteOutbox, Journals
  <2>2. mem' \in Journals
    BY <2>1 DEF WriteOutbox, Journals
  <2> QED
    BY <2>1, <2>2 DEF IInv, TypeOK, WriteOutbox, history, PublisherSteps, TrySteps
<1>2. JournalOK'
  BY DEF IInv, JournalOK, Open, WriteOutbox
<1>3. RecordsOK'
  BY DEF IInv, RecordsOK, Open, Committed, ReceiptProves, WriteOutbox,
    history, ControlOK, BeforeCommit, Running, TypeOK
<1>4. StageOK'
  BY DEF IInv, StageOK, WriteOutbox
<1>5. AllKept'
  BY DEF IInv, AllKept, Kept, Uncommitted, Open, Committed, ReceiptProves,
    WriteOutbox, history, ControlOK, BeforeCommit
<1>6. ControlOK'
  BY DEF IInv, ControlOK, Running, BeforeCommit, Open, WriteOutbox,
    AllPlaced, Journals
<1> QED BY <1>1, <1>2, <1>3, <1>4, <1>5, <1>6 DEF IInv

\* The journal says so.
LEMMA MarkOutboxStep ==
  ASSUME IInv, MarkOutbox
  PROVE  IInv'
<1>1. TypeOK'
  BY DEF IInv, TypeOK, MarkOutbox, history, PublisherSteps, TrySteps,
    ControlOK, BeforeCommit, Running
<1>2. JournalOK'
  BY DEF IInv, JournalOK, MarkOutbox, ControlOK, BeforeCommit, Running
<1>3. RecordsOK'
  BY DEF IInv, RecordsOK, Open, Committed, ReceiptProves, MarkOutbox,
    history, ControlOK, BeforeCommit, Running, NoJournal
<1>4. StageOK'
  BY DEF IInv, StageOK, MarkOutbox
<1>5. AllKept'
  BY DEF IInv, AllKept, Kept, Uncommitted, Open, Committed, ReceiptProves,
    MarkOutbox, history, ControlOK, BeforeCommit, Running, RecordsOK,
    NoJournal
<1>6. ControlOK'
  BY DEF IInv, ControlOK, Running, BeforeCommit, Open, MarkOutbox, AllPlaced,
    NoJournal
<1> QED BY <1>1, <1>2, <1>3, <1>4, <1>5, <1>6 DEF IInv

\* The progress receipt is written: the commit point.
LEMMA WriteReceiptStep ==
  ASSUME IInv, WriteReceipt
  PROVE  IInv'
<1>1. TypeOK'
  <2>1. mem \in Journals /\ gen \in Attempts
    BY DEF IInv, ControlOK, BeforeCommit, Running, WriteReceipt, Journals
  <2>2. mem' \in Journals
    BY <2>1 DEF WriteReceipt, Journals
  <2>3. good' \in [Comp -> Content]
    BY <2>1 DEF IInv, TypeOK, WriteReceipt, Attempts, Content
  <2> QED
    BY <2>1, <2>2, <2>3
    DEF IInv, TypeOK, WriteReceipt, PublisherSteps, TrySteps
<1>2. JournalOK'
  BY DEF IInv, JournalOK, Open, WriteReceipt
<1>3. RecordsOK'
  BY DEF IInv, RecordsOK, Committed, ReceiptProves, WriteReceipt, ControlOK,
    BeforeCommit, Running
<1>4. StageOK'
  BY DEF IInv, StageOK, WriteReceipt
<1>5. AllKept'
  BY DEF IInv, AllKept, Kept, Uncommitted, Committed, ReceiptProves,
    WriteReceipt, ControlOK, BeforeCommit, Running, AllPlaced
<1>6. ControlOK'
  BY DEF IInv, ControlOK, Running, BeforeCommit, Open, WriteReceipt, Journals
<1> QED BY <1>1, <1>2, <1>3, <1>4, <1>5, <1>6 DEF IInv

\* The journal says so.
LEMMA MarkReceiptStep ==
  ASSUME IInv, MarkReceipt
  PROVE  IInv'
<1>1. TypeOK'
  BY DEF IInv, TypeOK, MarkReceipt, history, PublisherSteps, TrySteps,
    ControlOK, Running
<1>2. JournalOK'
  BY DEF IInv, JournalOK, MarkReceipt, ControlOK, Running
<1>3. RecordsOK'
  BY DEF IInv, RecordsOK, Committed, ReceiptProves, MarkReceipt, history,
    ControlOK, Running
<1>4. StageOK'
  BY DEF IInv, StageOK, MarkReceipt
<1>5. AllKept'
  BY DEF IInv, AllKept, Kept, Uncommitted, Committed, ReceiptProves,
    MarkReceipt, history, ControlOK, Running, RecordsOK
<1>6. ControlOK'
  BY DEF IInv, ControlOK, Running, Open, MarkReceipt, Committed,
    ReceiptProves, RecordsOK, NoJournal
<1> QED BY <1>1, <1>2, <1>3, <1>4, <1>5, <1>6 DEF IInv

\* The journal becomes published.
LEMMA MarkPublishedStep ==
  ASSUME IInv, MarkPublished
  PROVE  IInv'
<1>1. TypeOK'
  BY DEF IInv, TypeOK, MarkPublished, history, PublisherSteps, TrySteps,
    ControlOK, Open, Journals
<1>2. JournalOK'
  BY DEF IInv, JournalOK, MarkPublished, ControlOK
<1>3. RecordsOK'
  BY DEF IInv, RecordsOK, Committed, ReceiptProves, MarkPublished, history,
    ControlOK
<1>4. StageOK'
  BY DEF IInv, StageOK, MarkPublished
<1>5. AllKept'
  BY DEF IInv, AllKept, Kept, Uncommitted, Committed, ReceiptProves,
    MarkPublished, history, ControlOK
<1>6. ControlOK'
  BY DEF IInv, ControlOK, Open, MarkPublished, Committed, ReceiptProves,
    NoJournal
<1> QED BY <1>1, <1>2, <1>3, <1>4, <1>5, <1>6 DEF IInv

\* The backup directory is removed.
LEMMA CleanBackupStep ==
  ASSUME IInv, CleanBackup
  PROVE  IInv'
<1>1. TypeOK'
  BY DEF IInv, TypeOK, CleanBackup, history, PublisherSteps, TrySteps,
    ControlOK, Content, NothingThere
<1>2. JournalOK'
  BY DEF IInv, JournalOK, Open, CleanBackup
<1>3. RecordsOK'
  BY DEF IInv, RecordsOK, Open, Committed, ReceiptProves, CleanBackup,
    history
<1>4. StageOK'
  BY DEF IInv, StageOK, CleanBackup
<1>5. AllKept'
  BY DEF IInv, AllKept, Kept, Uncommitted, Committed, ReceiptProves,
    CleanBackup, history, ControlOK
<1>6. ControlOK'
  BY DEF IInv, ControlOK, Open, CleanBackup, Committed, ReceiptProves
<1> QED BY <1>1, <1>2, <1>3, <1>4, <1>5, <1>6 DEF IInv

\* The stage is removed.
LEMMA CleanStageStep ==
  ASSUME IInv, CleanStage
  PROVE  IInv'
<1>1. TypeOK'
  BY DEF IInv, TypeOK, CleanStage, history, PublisherSteps, TrySteps,
    ControlOK, Content, NothingThere
<1>2. JournalOK'
  BY DEF IInv, JournalOK, Open, CleanStage
<1>3. RecordsOK'
  BY DEF IInv, RecordsOK, Open, Committed, ReceiptProves, CleanStage, history
<1>4. StageOK'
  BY DEF IInv, StageOK, CleanStage, NothingThere
<1>5. AllKept'
  BY DEF IInv, AllKept, Kept, Uncommitted, Open, Committed, ReceiptProves,
    CleanStage, history
<1>6. ControlOK'
  BY DEF IInv, ControlOK, Open, CleanStage, Committed, ReceiptProves
<1> QED BY <1>1, <1>2, <1>3, <1>4, <1>5, <1>6 DEF IInv

\* The journal is unlinked.
LEMMA CleanJournalStep ==
  ASSUME IInv, CleanJournal
  PROVE  IInv'
<1>1. TypeOK'
  BY DEF IInv, TypeOK, CleanJournal, history, PublisherSteps, TrySteps
<1>2. JournalOK'
  BY DEF IInv, JournalOK, Open, CleanJournal
<1>3. RecordsOK'
  BY DEF IInv, RecordsOK, Open, CleanJournal, history, ControlOK
<1>4. StageOK'
  BY DEF IInv, StageOK, CleanJournal
<1>5. AllKept'
  BY DEF IInv, AllKept, Kept, Uncommitted, Open, CleanJournal, history,
    ControlOK
<1>6. ControlOK'
  BY DEF IInv, ControlOK, CleanJournal
<1> QED BY <1>1, <1>2, <1>3, <1>4, <1>5, <1>6 DEF IInv

\* A call of the transaction raises.
LEMMA RaiseStep ==
  ASSUME IInv, Raise
  PROVE  IInv'
<1>1. TypeOK'
  BY DEF IInv, TypeOK, Raise, disk, history, PublisherSteps, TrySteps
<1>2. JournalOK'
  BY DEF IInv, JournalOK, Open, Raise, disk
<1>3. RecordsOK'
  BY DEF IInv, RecordsOK, Open, Committed, ReceiptProves, Raise, disk,
    history
<1>4. StageOK'
  BY DEF IInv, StageOK, Raise, disk
<1>5. AllKept'
  BY DEF IInv, AllKept, Kept, Uncommitted, Open, Committed, ReceiptProves,
    Raise, disk, history
<1>6. ControlOK'
  BY DEF IInv, ControlOK, Running, BeforeCommit, Open, Raise, disk,
    PublisherSteps, TrySteps
<1> QED BY <1>1, <1>2, <1>3, <1>4, <1>5, <1>6 DEF IInv

\* The failure handler makes the journal in memory durable.
LEMMA PersistForRollbackStep ==
  ASSUME IInv, PersistForRollback
  PROVE  IInv'
<1>1. TypeOK'
  BY PublishConstants DEF IInv, TypeOK, PersistForRollback, ActivationFor,
    history, PublisherSteps, TrySteps, Activations, RecoverySteps, ControlOK,
    Running
<1>2. JournalOK'
  BY DEF IInv, JournalOK, PersistForRollback, ActivationFor, ControlOK,
    Running
<1>3. RecordsOK'
  BY DEF IInv, RecordsOK, Open, Committed, ReceiptProves, PersistForRollback,
    ActivationFor, history, ControlOK, Running, NoJournal
<1>4. StageOK'
  BY DEF IInv, StageOK, PersistForRollback, ActivationFor
<1>5. AllKept'
  BY DEF IInv, AllKept, Kept, Uncommitted, Open, Committed, ReceiptProves,
    PersistForRollback, ActivationFor, history, ControlOK, Running,
    RecordsOK, NoJournal
<1>6. ControlOK'
  BY PublishConstants DEF IInv, ControlOK, RecoveryOK, Running, Open,
    PersistForRollback, ActivationFor, Inactive, Committed, ReceiptProves,
    Uncommitted, Comp, Journals
<1> QED BY <1>1, <1>2, <1>3, <1>4, <1>5, <1>6 DEF IInv

\* The failure is raised again after recovery.
LEMMA ReraiseStep ==
  ASSUME IInv, Reraise
  PROVE  IInv'
<1>1. TypeOK'
  BY DEF IInv, TypeOK, Reraise, disk, PublisherSteps, TrySteps, ControlOK
<1>2. JournalOK'
  BY DEF IInv, JournalOK, Open, Reraise, disk
<1>3. RecordsOK'
  BY DEF IInv, RecordsOK, Open, Committed, ReceiptProves, Reraise, disk
<1>4. StageOK'
  BY DEF IInv, StageOK, Reraise, disk
<1>5. AllKept'
  BY DEF IInv, AllKept, Kept, Uncommitted, Open, Committed, ReceiptProves,
    Reraise, disk
<1>6. ControlOK'
  BY DEF IInv, ControlOK, RecoveryOK, Reraise
<1> QED BY <1>1, <1>2, <1>3, <1>4, <1>5, <1>6 DEF IInv

\* The process dies.
LEMMA CrashStep ==
  ASSUME IInv, Crash
  PROVE  IInv'
<1>1. TypeOK'
  BY PublishConstants DEF IInv, TypeOK, Crash, disk, history, PublisherSteps,
    TrySteps, Inactive, Activations, RecoverySteps
<1>2. JournalOK'
  BY DEF IInv, JournalOK, Open, Crash, disk
<1>3. RecordsOK'
  BY DEF IInv, RecordsOK, Open, Committed, ReceiptProves, Crash, disk,
    history
<1>4. StageOK'
  BY DEF IInv, StageOK, Crash, disk
<1>5. AllKept'
  BY DEF IInv, AllKept, Kept, Uncommitted, Open, Committed, ReceiptProves,
    Crash, disk, history
<1>6. ControlOK'
  BY DEF IInv, ControlOK, Crash
<1> QED BY <1>1, <1>2, <1>3, <1>4, <1>5, <1>6 DEF IInv

\* The journal of a new generation is written.
LEMMA OpenJournalStep ==
  ASSUME IInv, OpenJournal
  PROVE  IInv'
<1>1. PICK staged \in (SUBSET Comp) \ {{}} :
        /\ stage' = [c \in Comp |-> IF c \in staged THEN gen + 1 ELSE Absent]
        /\ journal' = [status |-> "publishing",
                       gen |-> gen + 1,
                       ops |-> staged,
                       had |-> {c \in staged : final[c] # Absent},
                       pub |-> {},
                       outPre |-> gen + 1 \in outbox,
                       outWritten |-> FALSE,
                       receiptWritten |-> FALSE]
  BY DEF OpenJournal
<1>2. /\ pc = "validate" /\ pc' = "backup" /\ cur' = 1
      /\ mem' = journal' /\ gen' = gen + 1 /\ backup' = NothingThere
      /\ UNCHANGED <<final, outbox, receipts, rec, good, committed, raised>>
  BY DEF OpenJournal, history
<1>3. rec = Inactive /\ ~Open
  BY <1>2 DEF IInv, ControlOK
<1>4. gen \in 0..MaxGen /\ gen + 1 \in Attempts /\ gen + 1 \in 0..MaxGen
  BY PublishConstants DEF IInv, TypeOK, OpenJournal, Attempts
<1>5. gen + 1 \notin outbox \union receipts \union committed
  <2>1. \A g \in Attempts : g \in outbox \/ g \in receipts \/ g \in committed => g <= gen
    BY DEF IInv, RecordsOK
  <2> QED
    BY <1>4, <2>1
<1>6. /\ journal' \in Journals /\ Open'
      /\ journal'.status = "publishing" /\ ~journal'.outWritten
      /\ ~journal'.outPre /\ journal'.gen = gen'
      /\ journal'.ops = staged
      /\ journal'.had = {c \in staged : final[c] # Absent}
  <2>1. journal' \in Journals
    BY <1>1, <1>4 DEF Journals
  <2> QED
    BY <1>1, <1>2, <1>5, <2>1 DEF Open, NoJournal
<1>7. ~Committed(journal)'
  BY <1>6 DEF Committed, ReceiptProves
<1>8. TypeOK'
  <2>1. stage' \in [Comp -> Content] /\ backup' \in [Comp -> Content]
    BY <1>1, <1>2, <1>4 DEF Content, Absent, NothingThere
  <2>2. cur' \in 1..(N + 1)
    BY <1>2, PublishConstants
  <2> QED
    BY <1>2, <1>4, <1>6, <2>1, <2>2 DEF IInv, TypeOK, PublisherSteps, TrySteps
<1>9. JournalOK'
  BY <1>6 DEF JournalOK
<1>10. RecordsOK'
  <2>1. \A g \in Attempts :
          /\ g \in outbox \/ g \in receipts \/ g \in committed => g <= gen
          /\ g \in outbox <=> g \in committed
          /\ g \in receipts <=> g \in committed
    BY <1>3 DEF IInv, RecordsOK
  <2> QED
    BY <1>2, <1>4, <1>5, <1>6, <1>7, <2>1 DEF RecordsOK, Attempts
<1>11. StageOK'
  BY <1>1, <1>2 DEF StageOK
<1>12. AllKept'
  <2>1. \A c \in Comp : good[c] # Absent => final[c] = good[c]
    BY <1>3 DEF IInv, AllKept, Kept, Uncommitted
  <2>2. \A c \in Comp : backup'[c] = Absent
    BY <1>2 DEF NothingThere
  <2> QED
    BY <1>2, <1>6, <2>1, <2>2 DEF AllKept, Kept
<1>13. ControlOK'
  <2>1. Running'
    BY <1>2, <1>3, <1>6 DEF Running
  <2>2. BeforeCommit'
    BY <1>2, <1>5, <2>1 DEF BeforeCommit
  <2>3. \A c \in Comp : backup'[c] = Absent /\ c >= 1
    BY <1>2, PublishConstants DEF NothingThere, Comp
  <2>4. mem'.ops \subseteq Comp
    BY <1>1, <1>2, <1>6
  <2>5. DoneUpTo(cur)' /\ (cur' \in mem'.ops => backup'[cur'] = Absent)
    BY <1>2, <2>3, <2>4 DEF DoneUpTo, Comp
  <2> QED
    BY <1>2, <2>2, <2>5 DEF ControlOK
<1> QED
  BY <1>8, <1>9, <1>10, <1>11, <1>12, <1>13 DEF IInv

\* The initial states satisfy the invariant.
LEMMA InitIInv == Init => IInv
<1> SUFFICES ASSUME Init PROVE IInv
  OBVIOUS
<1>1. TypeOK
  <2>1. final \in [Comp -> Content]
    BY PublishConstants DEF Init, Content
  <2>2. NothingThere \in [Comp -> Content]
    BY DEF NothingThere, Content
  <2>3. Inactive \in Activations
    BY PublishConstants DEF Inactive, Activations, RecoverySteps
  <2>4. 1 \in 1..(N + 1) /\ 0 \in 0..MaxGen
    BY PublishConstants
  <2> QED
    BY <2>1, <2>2, <2>3, <2>4 DEF Init, TypeOK, NoMem, PublisherSteps
<1>2. ~Open
  BY DEF Init, Open
<1>3. JournalOK /\ RecordsOK
  BY <1>2 DEF Init, JournalOK, RecordsOK
<1>4. StageOK
  BY DEF Init, StageOK, NothingThere
<1>5. AllKept
  BY <1>2 DEF Init, AllKept, Kept, Uncommitted
<1>6. ControlOK
  BY DEF Init, ControlOK
<1> QED
  BY <1>1, <1>3, <1>4, <1>5, <1>6 DEF IInv

\* A step of the recovery procedure, wherever it runs.
LEMMA RecoverKeepsIInv ==
  ASSUME IInv, Recover
  PROVE  IInv'
<1>1. pc \in {"recover", "fail_recover"} /\ UNCHANGED <<pc, cur, mem, gen, history>>
  BY DEF Recover
<1>2. CASE RollBackOp(rec)
  BY <1>1, <1>2, RollBackOpStep
<1>3. CASE RestoreBackup(rec)
  BY <1>1, <1>3, RestoreBackupStep
<1>4. CASE OpsRolledBack(rec)
  BY <1>1, <1>4, OpsRolledBackStep
<1>5. CASE UnlinkOutbox(rec)
  BY <1>1, <1>5, UnlinkOutboxStep
<1>6. CASE UnlinkReceipt(rec)
  BY <1>1, <1>6, UnlinkReceiptStep
<1>7. CASE RemoveStage(rec)
  BY <1>1, <1>7, RemoveStageStep
<1>8. CASE RemoveBackup(rec)
  BY <1>1, <1>8, RemoveBackupStep
<1>9. CASE UnlinkJournal(rec)
  BY <1>1, <1>9, UnlinkJournalStep
<1> QED
  BY <1>2, <1>3, <1>4, <1>5, <1>6, <1>7, <1>8, <1>9 DEF Recover, RecoverStep

\* A stuttering step changes nothing the invariant reads.
LEMMA StutterKeepsIInv ==
  ASSUME IInv, UNCHANGED vars
  PROVE  IInv'
<1>1. UNCHANGED <<final, stage, backup, journal, outbox, receipts, pc, cur,
                  mem, gen, rec, good, committed, raised>>
  BY DEF vars, disk, history
<1>2. TypeOK' /\ JournalOK'
  BY <1>1 DEF IInv, TypeOK, JournalOK, Open
<1>3. RecordsOK' /\ StageOK'
  BY <1>1 DEF IInv, RecordsOK, StageOK, Open, Committed, ReceiptProves
<1>4. AllKept'
  BY <1>1 DEF IInv, AllKept, Kept, Uncommitted, Open, Committed, ReceiptProves
<1>5. ControlOK'
  BY <1>1
  DEF IInv, ControlOK, RecoveryOK, BeforeCommit, Running, DoneUpTo, AllPlaced,
      RolledBack, Uncommitted, Open, Committed, ReceiptProves
<1> QED
  BY <1>2, <1>3, <1>4, <1>5 DEF IInv

\* Every step of the publisher preserves the invariant.
LEMMA NextKeepsIInv ==
  ASSUME IInv, [Next]_vars
  PROVE  IInv'
<1>1. CASE AcquireFence
  BY <1>1, AcquireFenceStep
<1>2. CASE Recover
  BY <1>2, RecoverKeepsIInv
<1>3. CASE Publish
  <2>1. CASE RecoveryDone
    BY <2>1, RecoveryDoneStep
  <2>2. CASE ValidationFails
    BY <2>2, ValidationFailsStep
  <2>3. CASE OpenJournal
    BY <2>3, OpenJournalStep
  <2>4. CASE SkipPath
    BY <2>4, SkipPathStep
  <2>5. CASE BackUp
    BY <2>5, BackUpStep
  <2>6. CASE Place
    BY <2>6, PlaceStep
  <2>7. CASE Mark
    BY <2>7, MarkStep
  <2>8. CASE OpsDone
    BY <2>8, OpsDoneStep
  <2>9. CASE ProducerStable
    BY <2>9, ProducerStableStep
  <2>10. CASE WriteOutbox
    BY <2>10, WriteOutboxStep
  <2>11. CASE MarkOutbox
    BY <2>11, MarkOutboxStep
  <2>12. CASE WriteReceipt
    BY <2>12, WriteReceiptStep
  <2>13. CASE MarkReceipt
    BY <2>13, MarkReceiptStep
  <2>14. CASE MarkPublished
    BY <2>14, MarkPublishedStep
  <2>15. CASE CleanBackup
    BY <2>15, CleanBackupStep
  <2>16. CASE CleanStage
    BY <2>16, CleanStageStep
  <2>17. CASE CleanJournal
    BY <2>17, CleanJournalStep
  <2>18. CASE PersistForRollback
    BY <2>18, PersistForRollbackStep
  <2>19. CASE Reraise
    BY <2>19, ReraiseStep
  <2> QED
    BY <1>3, <2>1, <2>2, <2>3, <2>4, <2>5, <2>6, <2>7, <2>8, <2>9, <2>10, <2>11,
       <2>12, <2>13, <2>14, <2>15, <2>16, <2>17, <2>18, <2>19 DEF Publish
<1>4. CASE Raise
  BY <1>4, RaiseStep
<1>5. CASE Crash
  BY <1>5, CrashStep
<1>6. CASE UNCHANGED vars
  BY <1>6, StutterKeepsIInv
<1> QED
  BY <1>1, <1>2, <1>3, <1>4, <1>5, <1>6 DEF Next

-----------------------------------------------------------------------------
(* The theorems.                                                           *)

\* IInv holds in every reachable state.
THEOREM Invariant == Spec => []IInv
<1>1. Init => IInv
  BY InitIInv
<1>2. IInv /\ [Next]_vars => IInv'
  BY NextKeepsIInv
<1> QED
  BY <1>1, <1>2, PTL DEF Spec

\* Every variable of the publisher stays within its type.
THEOREM TypeCorrect == Spec => []TypeOK
<1>1. IInv => TypeOK
  BY DEF IInv
<1> QED
  BY <1>1, Invariant, PTL

\* What the invariant calls kept is what recovery will put in place.
LEMMA KeptIsRecovered ==
  ASSUME IInv, NEW c \in Comp, good[c] # Absent
  PROVE  Recovered(c) = good[c]
<1>1. Kept(c)
  BY DEF IInv, AllKept
<1>2. CASE Uncommitted /\ c \in journal.ops
  BY <1>1, <1>2 DEF Kept, Recovered, Uncommitted, Open
<1>3. CASE ~(Uncommitted /\ c \in journal.ops)
  BY <1>1, <1>3 DEF Kept, Recovered, Uncommitted, Open
<1> QED
  BY <1>2, <1>3

\* Whenever the publisher, its recovery or its rollback is interrupted,
\* recovery restores every component the last good generation had.
THEOREM OriginalsSurvive == Spec => []OriginalsRecoverable
<1>1. IInv => OriginalsRecoverable
  BY KeptIsRecovered DEF OriginalsRecoverable
<1> QED
  BY <1>1, Invariant, PTL

\* Between publications the outbox records and the progress receipts are those
\* of the committed attempts: none is lost and none survives a rollback.
THEOREM IntentsAreCommits == Spec => []IntentsMatchCommits
<1>1. IInv => IntentsMatchCommits
  <2> SUFFICES ASSUME IInv, journal = NoJournal
               PROVE  outbox = committed /\ receipts = committed
    BY DEF IntentsMatchCommits
  <2>1. \A g \in Attempts : /\ g \in outbox <=> g \in committed
                            /\ g \in receipts <=> g \in committed
    BY DEF IInv, RecordsOK, Open
  <2>2. /\ outbox \subseteq Attempts
        /\ receipts \subseteq Attempts
        /\ committed \subseteq Attempts
    BY DEF IInv, TypeOK
  <2> QED
    BY <2>1, <2>2
<1> QED
  BY <1>1, Invariant, PTL

-----------------------------------------------------------------------------

\* Committed attempts only ever grow, by the attempt whose receipt is written.
LEMMA WhoCommits ==
  ASSUME [Next]_vars
  PROVE  \/ UNCHANGED <<good, committed>>
         \/ WriteReceipt
BY DEF Next, vars, disk, history, AcquireFence, Recover, Publish, RecoveryDone,
       ValidationFails, OpenJournal, SkipPath, BackUp, Place, Mark, OpsDone,
       ProducerStable, WriteOutbox, MarkOutbox, MarkReceipt, MarkPublished,
       CleanBackup, CleanStage, CleanJournal, PersistForRollback, Reraise,
       Raise, Crash

\* Only the recovery of an uncommitted attempt removes an outbox record.
LEMMA WhoUnlinks ==
  ASSUME [Next]_vars
  PROVE  \/ outbox \subseteq outbox'
         \/ pc \in {"recover", "fail_recover"} /\ UnlinkOutbox(rec)
BY DEF Next, vars, disk, history, AcquireFence, Recover, RecoverStep, RollBackOp,
       RestoreBackup, OpsRolledBack, UnlinkReceipt, RemoveStage, RemoveBackup,
       UnlinkJournal, Publish, RecoveryDone, ValidationFails, OpenJournal,
       SkipPath, BackUp, Place, Mark, OpsDone, ProducerStable, WriteOutbox,
       MarkOutbox, WriteReceipt, MarkReceipt, MarkPublished, CleanBackup,
       CleanStage, CleanJournal, PersistForRollback, Reraise, Raise, Crash

\* A committed attempt stays committed with its outbox record, and an attempt
\* that was rolled back never commits.
THEOREM CommitsAreFinal == Spec => CommitIsIrrevocable
<1> DEFINE Step ==
      /\ committed \subseteq committed'
      /\ outbox \intersect committed \subseteq outbox'
      /\ \A g \in Attempts :
           g <= gen /\ g \notin committed /\ g \in committed' => pc = "receipt"
<1>1. IInv /\ [Next]_vars => [Step]_vars
  <2> SUFFICES ASSUME IInv, [Next]_vars PROVE Step
    OBVIOUS
  <2>1. /\ committed \subseteq committed'
        /\ \A g \in Attempts :
             g <= gen /\ g \notin committed /\ g \in committed' => pc = "receipt"
    BY WhoCommits DEF WriteReceipt
  <2>2. outbox \intersect committed \subseteq outbox'
    <3>1. CASE outbox \subseteq outbox'
      BY <3>1
    <3>2. CASE pc \in {"recover", "fail_recover"} /\ UnlinkOutbox(rec)
      <4>1. rec.j = journal /\ Open /\ ~Committed(journal)
        BY <3>2 DEF IInv, ControlOK, RecoveryOK, Uncommitted, UnlinkOutbox
      <4>2. rec.j.gen = gen /\ gen \notin committed
        BY <4>1 DEF IInv, JournalOK, RecordsOK
      <4> QED
        BY <3>2, <4>2 DEF UnlinkOutbox
    <3> QED
      BY <3>1, <3>2, WhoUnlinks
  <2> QED
    BY <2>1, <2>2
<1> QED
  BY <1>1, Invariant, PTL DEF Spec, CommitIsIrrevocable

-----------------------------------------------------------------------------
(* A session that has all its components: a replacement is all or nothing. *)

Complete == \A c \in Comp : good[c] # Absent

\* Once every component exists, every later generation has them all.
LEMMA CompleteStays ==
  ASSUME TypeOK, Complete, [Next]_vars
  PROVE  Complete'
<1>1. CASE UNCHANGED <<good, committed>>
  BY <1>1 DEF Complete
<1>2. CASE WriteReceipt
  <2>1. gen # Absent
    BY PublishConstants DEF TypeOK, Absent
  <2> QED
    BY <1>2, <2>1 DEF Complete, WriteReceipt
<1> QED
  BY <1>1, <1>2, WhoCommits

\* With a complete initial file set the last good generation has every component.
LEMMA StartsComplete ==
  ASSUME InitialFiles = Comp, Init
  PROVE  Complete
BY DEF Init, Complete, Absent

\* Such a session keeps the inductive invariant and stays complete.
LEMMA AlwaysComplete ==
  ASSUME InitialFiles = Comp
  PROVE  Spec => [](IInv /\ Complete)
<1>1. Init => Complete
  BY StartsComplete
<1>2. TypeOK /\ Complete /\ [Next]_vars => Complete'
  BY CompleteStays
<1> QED
  BY <1>1, <1>2, Invariant, TypeCorrect, PTL DEF Spec

\* Recovery restores exactly the last good generation when the session had all
\* its components to begin with.
THEOREM LastGoodSurvives ==
  ASSUME InitialFiles = Comp
  PROVE  Spec => []LastGoodRecoverable
<1>1. IInv /\ Complete => LastGoodRecoverable
  BY KeptIsRecovered DEF LastGoodRecoverable, Complete
<1> QED
  BY <1>1, AlwaysComplete, PTL

\* What recovery would leave behind: the last good generation, and the outbox
\* records of the committed attempts.
LEMMA ViewIsGood ==
  ASSUME IInv, Complete
  PROVE  /\ [c \in Comp |-> Recovered(c)] = good
         /\ SurvivingIntents = committed
<1>1. [c \in Comp |-> Recovered(c)] = good
  BY KeptIsRecovered DEF Complete, IInv, TypeOK
<1>2. /\ outbox \subseteq Attempts
      /\ committed \subseteq Attempts
      /\ gen \in 0..MaxGen
  BY DEF IInv, TypeOK
<1>3. \A g \in Attempts : g # gen => (g \in outbox <=> g \in committed)
  BY DEF IInv, RecordsOK
<1>4. CASE Uncommitted
  <2>1. journal # NoJournal /\ ~Committed(journal) /\ ~journal.outPre
        /\ journal.gen = gen /\ gen \notin committed
    BY <1>4 DEF IInv, JournalOK, RecordsOK, Uncommitted, Open
  <2>2. SurvivingIntents = outbox \ {gen}
    BY <2>1 DEF SurvivingIntents
  <2> QED
    BY <1>1, <1>2, <1>3, <2>1, <2>2
<1>5. CASE ~Uncommitted
  <2>1. gen \in outbox <=> gen \in committed
    BY <1>5 DEF IInv, RecordsOK, Uncommitted
  <2>2. SurvivingIntents = outbox
    BY <1>5 DEF SurvivingIntents, Uncommitted, Open
  <2> QED
    BY <1>1, <1>2, <1>3, <2>1, <2>2
<1> QED
  BY <1>4, <1>5

\* The publisher with its recovery implements the abstract specification, in
\* which a publication is one atomic step.
THEOREM PublicationIsAtomic ==
  ASSUME InitialFiles = Comp
  PROVE  Spec => PublishesAtomically
<1> DEFINE View == [c \in Comp |-> Recovered(c)]
<1>1. IInv /\ Complete => View = good /\ SurvivingIntents = committed
  BY ViewIsGood
<1>2. (IInv /\ Complete => View = good /\ SurvivingIntents = committed)'
  BY <1>1, PTL
<1>3. Init => Atomic!Init
  <2> SUFFICES ASSUME Init PROVE Atomic!Init
    OBVIOUS
  <2>1. View = good /\ SurvivingIntents = committed
    BY <1>1, InitIInv, StartsComplete
  <2> QED
    BY <2>1 DEF Atomic!Init, Init
<1>4. ASSUME IInv, Complete, [Next]_vars
      PROVE  [Atomic!Next]_(<<View, SurvivingIntents>>)
  <2>1. View = good /\ SurvivingIntents = committed
    BY <1>1, <1>4
  <2>2. IInv' /\ Complete'
    BY <1>4, NextKeepsIInv, CompleteStays DEF IInv
  <2>3. View' = good' /\ SurvivingIntents' = committed'
    BY <1>2, <2>2
  <2>4. CASE UNCHANGED <<good, committed>>
    BY <2>1, <2>3, <2>4
  <2>5. CASE WriteReceipt
    <3>1. BeforeCommit
      BY <1>4, <2>5 DEF IInv, ControlOK, WriteReceipt
    <3>2. mem.gen = gen /\ mem.ops \in (SUBSET Comp) \ {{}} /\ gen \in Attempts
      BY <3>1 DEF BeforeCommit, Running, Journals
    <3>3. \A g \in committed : g < gen
      <4>1. gen \notin committed
        BY <1>4, <3>1 DEF IInv, RecordsOK, BeforeCommit
      <4>2. \A g \in Attempts : g \in committed => g <= gen
        BY <1>4 DEF IInv, RecordsOK
      <4> QED
        BY <1>4, <3>2, <4>1, <4>2 DEF IInv, TypeOK, Attempts
    <3>4. /\ good' = [c \in Comp |-> IF c \in mem.ops THEN gen ELSE good[c]]
          /\ committed' = committed \union {gen}
      BY <2>5 DEF WriteReceipt
    <3>5. Atomic!Publish(mem.ops, gen)
      BY <2>1, <2>3, <3>3, <3>4 DEF Atomic!Publish
    <3> QED
      BY <3>2, <3>5 DEF Atomic!Next
  <2> QED
    BY <1>4, <2>4, <2>5, WhoCommits
<1> QED
  BY <1>3, <1>4, AlwaysComplete, PTL DEF Spec, PublishesAtomically, Atomic!Spec
=============================================================================
