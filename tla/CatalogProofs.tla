----------------------------- MODULE CatalogProofs -----------------------------
(***************************************************************************)
(* The theorem about GoalCatalog: what the catalog calls current is the    *)
(* last-good projection of one moment, or of attempts of one identity,     *)
(* for every number of components and of publications, and whatever        *)
(* publications, crashes and recoveries happen between any two steps.      *)
(*                                                                         *)
(* The files are read one after the other and without a lock, so that a    *)
(* rollback may put the very file back that was there before (with its     *)
(* watermark) after the reader has read the one that had replaced it.  The *)
(* invariant therefore keeps apart what a watermark says (Gone: a content  *)
(* that is neither there nor good never comes back) and what was read      *)
(* (Doomed: the content of an attempt that will not commit any more).      *)
(***************************************************************************)
EXTENDS GoalCatalog, SessionPublishProofs

\* The session has been published before: both files are there at the start.
SourcesThere == {Manifest, Index} \subseteq InitialFiles

\* The publisher may still get to its commit point.
Forward == {"backup", "place", "mark", "guard", "outbox", "outbox_mark", "receipt"}

S(i) == Sources[i]

-----------------------------------------------------------------------------
(* More about the publisher.                                               *)

\* Last-good content is the original or that of a committed attempt, and what
\* is there is either that, or nothing, or of the latest attempt; what is still
\* in the stage is nowhere else.
CompOK(c) ==
    /\ good[c] \in {0} \union committed
    /\ final[c] \in {Absent, good[c], gen}
    /\ stage[c] = gen => gen \notin {final[c], good[c]}

PInv == IInv /\ \A i \in 1..2 : CompOK(S(i))

\* What a step may do to component c, as far as its readers are concerned.
Moves(c) ==
    /\ \/ gen' = gen
       \/ /\ gen' = gen + 1
          /\ pc \notin Forward
          /\ UNCHANGED <<final, good, committed>>
    /\ \/ UNCHANGED <<good, committed>>
       \/ /\ pc \in Forward /\ pc' \notin Forward
          /\ gen' = gen
          /\ committed' = committed \union {gen}
          /\ final' = final
          /\ good'[c] = IF final[c] = gen THEN gen ELSE good[c]
    /\ \/ final'[c] \in {final[c], Absent, good[c]}
       \/ final'[c] = gen /\ stage[c] = gen /\ pc \in Forward
    /\ \/ stage'[c] \in {stage[c], Absent}
       \/ gen' = gen + 1 /\ stage'[c] = gen'
    /\ gen' = gen /\ pc' \in Forward => pc \in Forward
    /\ pc \in Forward /\ pc' \in Forward /\ final[c] = gen => final'[c] = gen

-----------------------------------------------------------------------------
(* What the reader knows of a content x it has met.                        *)

\* Not one that is still in the stage.
Seen(i, x) == x \in 0..gen /\ x # stage[S(i)]

\* It is not there, and will not be.
Gone(i, x) == Seen(i, x) /\ x \notin {final[S(i)], good[S(i)]}

\* It is of an attempt that will not commit.
Doomed(x) ==
    /\ x \in 1..gen
    /\ x \notin committed
    /\ x = gen => pc \notin Forward

Mark0(i) == reader.marks[i]
Value(i) == reader.values[i]

\* The file has been read, and had the same watermark before and after.
Past(i) ==
    \/ Mark0(i) = Absent /\ Value(i) = Absent
    \/ /\ Seen(i, Mark0(i))
       /\ Value(i) \in 0..gen
       /\ Value(i) = Mark0(i) \/ Doomed(Value(i))

\* It has been read, and it has not been looked at again.
JustRead(i) ==
    /\ Seen(i, Mark0(i))
    /\ Value(i) \in 0..gen
    /\ \/ Value(i) = Mark0(i)
       \/ Gone(i, Mark0(i))
       \/ Doomed(Value(i))
       \/ Value(i) = gen /\ pc \in Forward /\ final[S(i)] = gen

\* If the manifest was read while it was another's, the index is not of that
\* attempt, unless its watermark says so too.
Cross(x) == Value(1) # Mark0(1) /\ x = Value(1) => Mark0(2) = x

BothThere == Absent \notin {Mark0(1), Mark0(2)}

Good0(i) == Mark0(i) = reader.lastGood[i]

\* What was read is of two attempts of one identity, one of them given up.
Indistinct ==
    /\ Value(1) # Value(2) /\ Identity[Value(1)] = Identity[Value(2)]
    /\ \E i \in 1..2 : Doomed(Value(i))

Settled ==
    BothThere /\ Good0(1) /\ Good0(2)
      => (\A i \in 1..2 : Value(i) = reader.lastGood[i]) \/ Indistinct

Awaits(i) == Mark0(i) = Absent \/ Good0(i) \/ Gone(i, Mark0(i))

Passed(i) == Mark0(i) = Absent \/ Good0(i)

Readers ==
    [at : {"idle", "stat", "read", "check", "watermark", "journal", "recheck",
           "recheck_journal", "current", "missing", "deferred"},
     attempt : Nat, i : 1..2, marks : [1..2 -> Content], values : [1..2 -> Content],
     lastGood : [1..2 -> Content]]

ReaderOK ==
    /\ reader \in Readers
    /\ reader.at \in {"stat", "read"} => Value(reader.i) = Absent
    /\ reader.at = "stat" /\ reader.i = 1 => Value(2) = Absent
    /\ reader.at \in {"read", "check"} /\ reader.i = 1 => Value(2) = Absent
    /\ reader.at \in {"stat", "read", "check"} /\ reader.i = 2 => Past(1)
    /\ reader.at = "read" => Seen(reader.i, Mark0(reader.i))
    /\ reader.at = "read" /\ reader.i = 2 => Cross(final[S(2)])
    /\ reader.at = "check" => JustRead(reader.i)
    /\ reader.at = "check" /\ reader.i = 2 => Cross(Value(2))
    /\ reader.at \in {"watermark", "journal"} => Past(1) /\ Past(2) /\ Cross(Value(2))
    /\ reader.at \in {"recheck", "recheck_journal", "current"} => Settled
    /\ reader.at = "recheck" => Awaits(2)
    /\ reader.at = "recheck" /\ reader.i = 1 => Awaits(1)
    /\ reader.at = "recheck" /\ reader.i = 2 => Passed(1)
    /\ reader.at = "recheck_journal" => Passed(1) /\ Passed(2)
    /\ reader.at = "current" => BothThere /\ Good0(1) /\ Good0(2)

CInv == PInv /\ ReaderOK

-----------------------------------------------------------------------------
(* Every step of the publisher is such a move.                             *)

\* The steps that do not touch what a reader can see, or the commit.
Quiet ==
    /\ UNCHANGED <<final, stage, good, committed, gen>>
    /\ pc' \in Forward => pc \in Forward

LEMMA WhoMoves ==
  ASSUME [Next]_vars
  PROVE  Quiet \/ OpenJournal \/ BackUp \/ Place \/ WriteReceipt \/ Recover \/ CleanStage
BY DEF Next, Publish, Quiet, Forward, vars, disk, history,
  AcquireFence, RecoveryDone, ValidationFails, SkipPath, Mark, OpsDone,
  ProducerStable, WriteOutbox, MarkOutbox, MarkReceipt, MarkPublished,
  CleanBackup, CleanJournal, PersistForRollback, Reraise, Raise, Crash, TrySteps

\* Before its commit point an attempt is open and has no receipt.
LEMMA ForwardIsUncommitted ==
  ASSUME IInv, pc \in Forward
  PROVE  gen \in Attempts /\ gen \notin committed /\ Uncommitted
<1>1. BeforeCommit
  BY DEF IInv, ControlOK, Forward
<1>2. Open /\ gen \notin receipts /\ journal.gen = gen
  BY <1>1 DEF BeforeCommit, Running, IInv, JournalOK
<1>3. gen \in Attempts
  BY <1>2 DEF IInv, TypeOK, Open, Journals
<1>4. gen \notin committed /\ ~Committed(journal)
  BY <1>2, <1>3 DEF IInv, RecordsOK
<1> QED
  BY <1>2, <1>3, <1>4 DEF Uncommitted

LEMMA GoodIsNotNew ==
  ASSUME IInv, NEW c \in Comp, CompOK(c), pc \in Forward
  PROVE  good[c] # gen /\ good[c] # Absent
<1>1. gen \in Attempts /\ gen \notin committed /\ committed \subseteq Attempts
  BY ForwardIsUncommitted DEF IInv, TypeOK
<1> QED
  BY <1>1, PublishConstants DEF CompOK, Attempts, Absent

LEMMA OpenJournalMoves ==
  ASSUME IInv, NEW c \in Comp, CompOK(c), OpenJournal
  PROVE  CompOK(c)' /\ Moves(c)
<1>1. /\ pc = "validate" /\ pc' = "backup" /\ gen' = gen + 1
      /\ UNCHANGED <<final, good, committed>>
  BY DEF OpenJournal, history
<1>2. gen \in Nat /\ committed \subseteq Attempts /\ \A g \in committed : g <= gen
  BY PublishConstants DEF IInv, TypeOK, RecordsOK, Attempts
<1>3. good[c] \in 0..gen /\ good[c] # Absent
  BY <1>2, PublishConstants DEF CompOK, Attempts, Absent
<1>4. final[c] = good[c]
  BY <1>1, <1>3 DEF IInv, ControlOK, AllKept, Kept, Uncommitted
<1>5. stage'[c] \in {Absent, gen'}
  BY <1>1 DEF OpenJournal
<1> QED
  BY <1>1, <1>2, <1>3, <1>4, <1>5 DEF CompOK, Moves, Forward, Absent

LEMMA BackUpMoves ==
  ASSUME IInv, NEW c \in Comp, CompOK(c), BackUp
  PROVE  CompOK(c)' /\ Moves(c)
<1>1. /\ pc = "backup" /\ pc' = "place"
      /\ UNCHANGED <<stage, good, committed, gen>>
      /\ cur \in mem.ops
  BY DEF BackUp, history
<1>2. good[c] # gen /\ good[c] # Absent /\ Uncommitted /\ gen \in Attempts
  BY <1>1, GoodIsNotNew, ForwardIsUncommitted DEF Forward
<1>3. final'[c] = final[c] \/ (c = cur /\ final'[c] = Absent)
  <2>1. \/ final' = [final EXCEPT ![cur] = Absent]
        \/ final' = final
    BY DEF BackUp
  <2> QED
    BY <2>1 DEF IInv, TypeOK
<1>4. c = cur => final[c] = good[c]
  BY <1>1, <1>2 DEF IInv, ControlOK, BeforeCommit, Running, AllKept, Kept
<1>5. final'[c] \in {final[c], Absent} /\ (final[c] = gen => final'[c] = gen)
  BY <1>2, <1>3, <1>4
<1>6. gen # Absent
  BY <1>2 DEF Attempts, Absent
<1> QED
  BY <1>1, <1>5, <1>6 DEF CompOK, Moves, Forward

LEMMA PlaceMoves ==
  ASSUME IInv, NEW c \in Comp, CompOK(c), Place
  PROVE  CompOK(c)' /\ Moves(c)
<1>1. /\ pc = "place" /\ pc' = "mark"
      /\ UNCHANGED <<good, committed, gen>>
      /\ stage[cur] # Absent
      /\ final' = [final EXCEPT ![cur] = stage[cur]]
      /\ stage' = [stage EXCEPT ![cur] = Absent]
  BY DEF Place, history
<1>2. good[c] # gen /\ gen \in Attempts
  BY <1>1, GoodIsNotNew, ForwardIsUncommitted DEF Forward
<1>3. gen # Absent
  BY <1>2 DEF Attempts, Absent
<1>4. c # cur => final'[c] = final[c] /\ stage'[c] = stage[c]
  BY <1>1 DEF IInv, TypeOK
<1>5. c = cur => final'[c] = gen /\ stage[c] = gen /\ stage'[c] = Absent
  BY <1>1 DEF IInv, TypeOK, StageOK
<1>6. CASE c = cur
  BY <1>1, <1>2, <1>3, <1>5, <1>6 DEF CompOK, Moves, Forward
<1>7. CASE c # cur
  BY <1>1, <1>2, <1>3, <1>4, <1>7 DEF CompOK, Moves, Forward
<1> QED
  BY <1>6, <1>7

LEMMA WriteReceiptMoves ==
  ASSUME IInv, NEW c \in Comp, CompOK(c), WriteReceipt
  PROVE  CompOK(c)' /\ Moves(c)
<1>1. /\ pc = "receipt" /\ pc' = "receipt_mark"
      /\ UNCHANGED <<final, stage, gen>>
      /\ committed' = committed \union {gen}
      /\ good'[c] = IF c \in mem.ops THEN gen ELSE good[c]
  BY DEF WriteReceipt
<1>2. good[c] # gen /\ good[c] # Absent /\ Uncommitted
  BY <1>1, GoodIsNotNew, ForwardIsUncommitted DEF Forward
<1>3. c \in mem.ops => final[c] = gen
  BY <1>1 DEF IInv, ControlOK, AllPlaced
<1>4. c \notin mem.ops => final[c] = good[c]
  BY <1>1, <1>2 DEF IInv, ControlOK, BeforeCommit, Running, AllKept, Kept
<1>5. good'[c] = IF final[c] = gen THEN gen ELSE good[c]
  BY <1>1, <1>2, <1>3, <1>4
<1> QED
  BY <1>1, <1>2, <1>3, <1>4, <1>5 DEF CompOK, Moves, Forward

LEMMA RecoverMoves ==
  ASSUME IInv, NEW c \in Comp, CompOK(c), Recover
  PROVE  CompOK(c)' /\ Moves(c)
<1>1. /\ pc \in {"recover", "fail_recover"} /\ RecoverStep(rec)
      /\ UNCHANGED <<pc, gen, good, committed>>
  BY DEF Recover, history
<1>2. good[c] # Absent /\ gen # Absent
  BY PublishConstants DEF CompOK, IInv, TypeOK, Attempts, Absent
<1>3. final'[c] \in {final[c], Absent, good[c]}
  <2>1. CASE RollBackOp(rec)
    BY <2>1 DEF RollBackOp, IInv, TypeOK
  <2>2. CASE RestoreBackup(rec)
    <3>1. rec.j = journal /\ Uncommitted /\ rec.k \in journal.ops
      BY <1>1, <2>2 DEF RestoreBackup, IInv, ControlOK, RecoveryOK
    <3>2. backup[rec.k] # Absent /\ final' = [final EXCEPT ![rec.k] = backup[rec.k]]
      BY <2>2 DEF RestoreBackup, HasBackup
    <3>3. c = rec.k => backup[c] = good[c]
      BY <1>2, <3>1, <3>2 DEF IInv, AllKept, Kept
    <3> QED
      BY <3>2, <3>3 DEF IInv, TypeOK
  <2>3. CASE UNCHANGED final
    BY <2>3
  <2> QED
    BY <1>1, <2>1, <2>2, <2>3 DEF RecoverStep, OpsRolledBack, UnlinkOutbox,
      UnlinkReceipt, RemoveStage, RemoveBackup, UnlinkJournal, disk
<1>4. stage'[c] \in {stage[c], Absent}
  BY <1>1 DEF RecoverStep, RollBackOp, RestoreBackup, OpsRolledBack, UnlinkOutbox,
    UnlinkReceipt, RemoveStage, RemoveBackup, UnlinkJournal, disk, NothingThere
<1> QED
  BY <1>1, <1>2, <1>3, <1>4 DEF CompOK, Moves, Forward

\* Whatever the publisher does, it moves each component as Moves says.
LEMMA NextMoves ==
  ASSUME IInv, [Next]_vars, NEW c \in Comp, CompOK(c)
  PROVE  CompOK(c)' /\ Moves(c)
<1>1. CASE Quiet
  BY <1>1 DEF Quiet, CompOK, Moves
<1>2. CASE CleanStage
  <2>1. /\ pc = "clean_stage" /\ pc' = "clean_journal"
        /\ UNCHANGED <<final, good, committed, gen>> /\ stage'[c] = Absent
    BY <1>2 DEF CleanStage, history, NothingThere
  <2>2. gen # Absent
    BY DEF IInv, TypeOK, Absent
  <2> QED
    BY <2>1, <2>2 DEF CompOK, Moves, Forward
<1> QED
  BY <1>1, <1>2, WhoMoves, OpenJournalMoves, BackUpMoves, PlaceMoves,
     WriteReceiptMoves, RecoverMoves


-----------------------------------------------------------------------------
(* What the reader knows stays true while the publisher goes on.           *)

LEMMA SourcesAreComponents ==
  /\ S(1) = Manifest /\ S(2) = Index
  /\ \A i \in 1..2 : S(i) \in Comp
BY CatalogConstants DEF S, Sources

LEMMA PInvStays ==
  ASSUME PInv, [Next]_vars
  PROVE  PInv' /\ \A i \in 1..2 : Moves(S(i))
<1>1. IInv'
  BY NextKeepsIInv DEF PInv
<1>2. ASSUME NEW i \in 1..2 PROVE CompOK(S(i))' /\ Moves(S(i))
  <2>1. IInv /\ CompOK(S(i)) /\ S(i) \in Comp
    BY SourcesAreComponents DEF PInv
  <2>2. PICK c \in Comp : c = S(i)
    BY <2>1
  <2>3. CompOK(c)' /\ Moves(c)
    BY <2>1, <2>2, NextMoves
  <2> QED
    BY <2>2, <2>3 DEF CompOK, Moves, S, Sources
<1> QED
  BY <1>1, <1>2 DEF PInv

\* The bounds that the arguments below need.
LEMMA Bounds ==
  ASSUME PInv
  PROVE  /\ gen \in Nat /\ 0 # Absent
         /\ \A g \in committed : g \in 1..gen
         /\ pc \in Forward => gen \in 1..gen /\ gen \notin committed
         /\ \A i \in 1..2 : good[S(i)] \in 0..gen
<1>1. gen \in Nat /\ \A g \in committed : g \in 1..gen
  BY PublishConstants DEF PInv, IInv, TypeOK, RecordsOK, Attempts
<1>2. pc \in Forward => gen \in 1..gen /\ gen \notin committed
  BY <1>1, ForwardIsUncommitted DEF PInv, Attempts
<1>3. \A i \in 1..2 : good[S(i)] \in {0} \union committed
  BY DEF PInv, CompOK
<1> QED
  BY <1>1, <1>2, <1>3 DEF Absent

LEMMA SeenStays ==
  ASSUME PInv, [Next]_vars, UNCHANGED reader, NEW i \in 1..2, Seen(i, Mark0(i))
  PROVE  Seen(i, Mark0(i))'
<1>1. Moves(S(i)) /\ gen \in Nat
  BY PInvStays, Bounds
<1>2. Mark0(i) \in 0..gen /\ Mark0(i) # stage[S(i)] /\ (Mark0(i))' = Mark0(i)
  BY DEF Seen, Mark0
<1>3. Mark0(i) # stage[S(i)]' /\ Mark0(i) \in 0..gen'
  BY <1>1, <1>2 DEF Moves, Absent, S
<1> QED
  BY <1>2, <1>3 DEF Seen, Mark0, S, Sources

LEMMA GoneStays ==
  ASSUME PInv, [Next]_vars, UNCHANGED reader, NEW i \in 1..2, Gone(i, Mark0(i))
  PROVE  Gone(i, Mark0(i))'
<1>1. Seen(i, Mark0(i))'
  BY SeenStays DEF Gone
<1>2. Moves(S(i)) /\ gen \in Nat
  BY PInvStays, Bounds
<1>3. /\ Mark0(i) \in 0..gen /\ Mark0(i) # stage[S(i)]
      /\ Mark0(i) \notin {final[S(i)], good[S(i)]} /\ (Mark0(i))' = Mark0(i)
  BY DEF Gone, Seen, Mark0
<1>4. Mark0(i) \notin {final'[S(i)], good'[S(i)]}
  BY <1>2, <1>3 DEF Moves, Absent
<1> QED
  BY <1>1, <1>3, <1>4 DEF Gone, Mark0, S, Sources

LEMMA DoomedStays ==
  ASSUME PInv, [Next]_vars, UNCHANGED reader, NEW i \in 1..2, Doomed(Value(i))
  PROVE  Doomed(Value(i))'
<1>1. Moves(S(i)) /\ gen \in Nat
  BY PInvStays, Bounds
<1> QED
  BY <1>1 DEF Doomed, Moves, Value

LEMMA PastStays ==
  ASSUME PInv, [Next]_vars, UNCHANGED reader, NEW i \in 1..2, Past(i)
  PROVE  Past(i)'
<1>1. Moves(S(i)) /\ gen \in Nat
  BY PInvStays, Bounds
<1>2. (Mark0(i))' = Mark0(i) /\ (Value(i))' = Value(i)
  BY DEF Mark0, Value
<1>3. gen' >= gen /\ gen' \in Nat
  BY <1>1 DEF Moves
<1>4. CASE Mark0(i) = Absent /\ Value(i) = Absent
  BY <1>2, <1>4 DEF Past
<1>5. CASE /\ Seen(i, Mark0(i)) /\ Value(i) \in 0..gen
           /\ (Value(i) = Mark0(i) \/ Doomed(Value(i)))
  <2>1. Seen(i, Mark0(i))' /\ (Doomed(Value(i)) => Doomed(Value(i))')
    BY <1>5, SeenStays, DoomedStays
  <2>2. Value(i)' \in 0..gen'
    BY <1>1, <1>2, <1>3, <1>5
  <2> QED
    BY <1>2, <1>5, <2>1, <2>2 DEF Past
<1> QED
  BY <1>4, <1>5 DEF Past

LEMMA JustReadStays ==
  ASSUME PInv, [Next]_vars, UNCHANGED reader, NEW i \in 1..2, JustRead(i)
  PROVE  JustRead(i)'
<1>1. Moves(S(i)) /\ gen \in Nat
  BY PInvStays, Bounds
<1>2. (Mark0(i))' = Mark0(i) /\ (Value(i))' = Value(i)
  BY DEF Mark0, Value
<1>3. gen' >= gen /\ gen' \in Nat
  BY <1>1 DEF Moves
<1>4. Seen(i, Mark0(i))'
  BY SeenStays DEF JustRead
<1>5. Value(i)' \in 0..gen'
  BY <1>1, <1>2, <1>3 DEF JustRead
<1>6. CASE Value(i) = Mark0(i)
  BY <1>2, <1>4, <1>5, <1>6 DEF JustRead
<1>7. CASE Gone(i, Mark0(i))
  BY <1>4, <1>5, <1>7, GoneStays DEF JustRead
<1>8. CASE Doomed(Value(i))
  BY <1>4, <1>5, <1>8, DoomedStays DEF JustRead
<1>9. CASE /\ Value(i) = gen /\ pc \in Forward /\ final[S(i)] = gen
           /\ Value(i) # Mark0(i)
  <2>1. gen' = gen /\ gen \in 1..gen /\ gen \notin committed
    BY <1>1, <1>9, Bounds DEF Moves
  <2>2. CASE pc' \in Forward
    <3>1. final'[S(i)] = gen'
      BY <1>1, <1>9, <2>1, <2>2 DEF Moves
    <3> QED
      BY <1>2, <1>4, <1>5, <1>9, <2>1, <2>2, <3>1 DEF JustRead, S, Sources
  <2>3. CASE pc' \notin Forward /\ committed' = committed
    <3>1. Doomed(Value(i))'
      BY <1>2, <1>9, <2>1, <2>3 DEF Doomed
    <3> QED
      BY <1>4, <1>5, <3>1 DEF JustRead
  <2>4. CASE pc' \notin Forward /\ committed' # committed
    <3>1. final'[S(i)] = gen /\ good'[S(i)] = gen
      BY <1>1, <1>9, <2>4 DEF Moves
    <3>2. Gone(i, Mark0(i))'
      BY <1>2, <1>4, <1>9, <3>1 DEF Gone, S, Sources
    <3> QED
      BY <1>4, <1>5, <3>2 DEF JustRead
  <2> QED
    BY <2>2, <2>3, <2>4
<1> QED
  BY <1>6, <1>7, <1>8, <1>9 DEF JustRead

\* Content of an attempt that will not commit is never put in place again.
LEMMA CrossStays ==
  ASSUME PInv, [Next]_vars, UNCHANGED reader, Past(1), Cross(final[S(2)])
  PROVE  Cross(final[S(2)])'
<1>1. Moves(S(2)) /\ gen \in Nat
  BY PInvStays, Bounds
<1>2. /\ (Mark0(1))' = Mark0(1) /\ (Value(1))' = Value(1)
      /\ (Mark0(2))' = Mark0(2)
  BY DEF Mark0, Value
<1>3. SUFFICES ASSUME Value(1) # Mark0(1), final'[S(2)] = Value(1)
               PROVE  Mark0(2) = final'[S(2)]
  BY <1>2 DEF Cross, S, Sources
<1>4. Doomed(Value(1))
  BY <1>3 DEF Past
<1>5. Value(1) # Absent /\ Value(1) # good[S(2)]
  <2>1. good[S(2)] \in {0} \union committed
    BY DEF PInv, CompOK
  <2> QED
    BY <1>1, <1>4, <2>1 DEF Doomed, Absent
<1>6. final'[S(2)] = final[S(2)]
  BY <1>1, <1>3, <1>4, <1>5 DEF Moves, Doomed
<1> QED
  BY <1>3, <1>6 DEF Cross


\* A step of the publisher leaves the reader's knowledge true.
LEMMA PublisherKeepsReader ==
  ASSUME CInv, [Next]_vars, UNCHANGED reader
  PROVE  CInv'
<1>1. PInv'
  BY PInvStays DEF CInv
<1>2. PInv /\ ReaderOK /\ reader' = reader /\ reader.i \in 1..2
  BY DEF CInv, ReaderOK, Readers
<1>3. \A i \in 1..2 : Past(i) => Past(i)'
  BY <1>2, PastStays
<1>4. \A i \in 1..2 : Seen(i, Mark0(i)) => Seen(i, Mark0(i))'
  BY <1>2, SeenStays
<1>5. \A i \in 1..2 : JustRead(i) => JustRead(i)'
  BY <1>2, JustReadStays
<1>6. Past(1) /\ Cross(final[S(2)]) => Cross(final[S(2)])'
  BY <1>2, CrossStays
<1>7. Cross(Value(2)) => Cross(Value(2))'
  BY <1>2 DEF Cross, Value, Mark0
<1>8a. Indistinct => Indistinct'
  <2>1. \A i \in 1..2 : Doomed(Value(i)) => Doomed(Value(i))'
    BY <1>2, DoomedStays
  <2> QED
    BY <1>2, <2>1 DEF Indistinct, Value
<1>8. /\ Settled => Settled'
      /\ BothThere => BothThere'
      /\ \A i \in 1..2 : /\ Good0(i) => Good0(i)'
                         /\ Passed(i) => Passed(i)'
  BY <1>2, <1>8a DEF Settled, BothThere, Good0, Passed, Value, Mark0
<1>9. \A i \in 1..2 : Awaits(i) => Awaits(i)'
  <2> SUFFICES ASSUME NEW i \in 1..2, Awaits(i) PROVE Awaits(i)'
    OBVIOUS
  <2>1. CASE Gone(i, Mark0(i))
    BY <1>2, <2>1, GoneStays DEF Awaits
  <2>2. CASE Mark0(i) = Absent \/ Good0(i)
    BY <1>2, <2>2 DEF Awaits, Good0, Mark0
  <2> QED
    BY <2>1, <2>2 DEF Awaits
<1>10. reader' \in Readers
  BY <1>2 DEF ReaderOK
<1>11. PICK k \in 1..2 : k = reader.i
  BY <1>2
<1>12. reader'.i = k
  BY <1>2, <1>11
<1>13. /\ reader.at = "check" => JustRead(k)
       /\ reader.at = "read" => Seen(k, Mark0(k))
  BY <1>2, <1>11 DEF ReaderOK
<1>14. /\ reader'.at = "check" => JustRead(reader.i)'
       /\ reader'.at = "read" => Seen(reader.i, Mark0(reader.i))'
  BY <1>2, <1>4, <1>5, <1>11, <1>12, <1>13
  DEF JustRead, Seen, Gone, Doomed, Mark0, Value, S, Sources
<1>15. reader'.at \in {"stat", "read"} => Value(reader.i)' = Absent
  BY <1>2 DEF ReaderOK, Value
<1>16. /\ reader'.at = "stat" /\ reader'.i = 1 => Value(2)' = Absent
       /\ reader'.at \in {"read", "check"} /\ reader'.i = 1 => Value(2)' = Absent
  BY <1>2 DEF ReaderOK, Value
<1>17. ReaderOK'
  BY <1>2, <1>3, <1>6, <1>7, <1>8, <1>9, <1>10, <1>14, <1>15, <1>16 DEF ReaderOK
<1> QED
  BY <1>1, <1>17 DEF CInv

-----------------------------------------------------------------------------
(* The steps of the reader.                                                *)

\* Whatever the reader does, the publisher's state stays as it is.
LEMMA PInvSame ==
  ASSUME PInv, UNCHANGED vars
  PROVE  PInv'
<1>1. IInv'
  BY StutterKeepsIInv DEF PInv
<1> QED
  BY <1>1 DEF PInv, CompOK, S, Sources, vars, disk, history

LEMMA FromTheStart ==
  ASSUME reader \in Readers, NEW n \in Nat, reader' = Attempt(n)
  PROVE  ReaderOK'
<1>1. reader' \in Readers
  BY DEF Attempt, Readers, Unread, Content
<1>2. reader'.at = "stat" /\ reader'.i = 1 /\ Value(1)' = Absent /\ Value(2)' = Absent
  BY DEF Attempt, Unread, Value
<1> QED
  BY <1>1, <1>2 DEF ReaderOK, Value

LEMMA AgainKeeps ==
  ASSUME reader \in Readers, Again
  PROVE  ReaderOK'
<1>1. CASE reader.attempt < MaxReads
  <2>1. reader' = Attempt(reader.attempt + 1) /\ reader.attempt + 1 \in Nat
    BY <1>1 DEF Again, Readers
  <2> QED
    BY <2>1, FromTheStart
<1>2. CASE ~(reader.attempt < MaxReads)
  <2>1. reader' = [reader EXCEPT !.at = "deferred"]
    BY <1>2 DEF Again, Answer
  <2>2. reader' \in Readers /\ reader'.at = "deferred"
    BY <2>1 DEF Readers
  <2> QED
    BY <2>2 DEF ReaderOK
<1> QED
  BY <1>1, <1>2

\* What is in place is content the publisher has put there, not the stage's.
LEMMA ThereIsSeen ==
  ASSUME PInv, NEW i \in 1..2, final[S(i)] # Absent
  PROVE  Seen(i, final[S(i)])
<1>1. CompOK(S(i)) /\ S(i) \in Comp /\ StageOK
  BY SourcesAreComponents DEF PInv, IInv
<1>2. good[S(i)] \in 0..gen /\ gen \in Nat
  BY Bounds
<1>3. final[S(i)] \in 0..gen
  BY <1>1, <1>2 DEF CompOK
<1>4. final[S(i)] # stage[S(i)]
  BY <1>1 DEF CompOK, StageOK
<1> QED
  BY <1>3, <1>4 DEF Seen


\* Content of a committed attempt that is there is last-good.
LEMMA UncommittedIsNotThere ==
  ASSUME PInv, NEW i \in 1..2, final[S(i)] = gen, good[S(i)] # gen, gen \in 1..gen
  PROVE  gen \notin committed
<1>1. good[S(i)] # Absent /\ S(i) \in Comp /\ IInv
  BY Bounds, SourcesAreComponents DEF PInv, Absent
<1>2. Kept(S(i))
  BY <1>1 DEF IInv, AllKept
<1>3. Uncommitted
  BY <1>2 DEF Kept
<1>4. gen \in 0..MaxGen
  BY <1>1 DEF IInv, TypeOK
<1> QED
  BY <1>1, <1>3, <1>4 DEF Uncommitted, Open, IInv, RecordsOK

\* What the predicates say of a reader only depends on its marks and values.
LEMMA PastSame ==
  ASSUME UNCHANGED vars, NEW i \in 1..2,
         reader'.marks[i] = reader.marks[i], reader'.values[i] = reader.values[i]
  PROVE  /\ Past(i) => Past(i)'
         /\ JustRead(i) => JustRead(i)'
BY DEF Past, JustRead, Gone, Seen, Doomed, Mark0, Value, S, Sources, vars, disk, history

\* Both files have been looked at, or it is the turn of the second one.
LEMMA ProceedKeeps ==
  ASSUME ReaderOK, UNCHANGED vars, NEW r \in Readers, reader' = Proceed(r),
         r.i = reader.i, reader.at \in {"stat", "check"},
         NEW k \in 1..2, k = r.i,
         Past(k)',
         \A j \in 1..2 : j # k => /\ r.marks[j] = reader.marks[j]
                                  /\ r.values[j] = reader.values[j],
         k = 2 => Cross(Value(2))'
  PROVE  ReaderOK'
<1>1. CASE k = 1
  <2>1. reader' = [r EXCEPT !.at = "stat", !.i = 2]
    BY <1>1 DEF Proceed
  <2>2. /\ reader' \in Readers /\ reader'.at = "stat" /\ reader'.i = 2
        /\ reader'.values = r.values
    <3>1. reader' = [at |-> "stat", attempt |-> r.attempt, i |-> 2, marks |-> r.marks,
                     values |-> r.values, lastGood |-> r.lastGood]
      BY <2>1 DEF Readers
    <3> QED
      BY <3>1 DEF Readers
  <2>3. reader.values[2] = Absent
    BY <1>1 DEF ReaderOK, Value
  <2>4. Value(2)' = Absent
    BY <1>1, <2>2, <2>3 DEF Value
  <2> QED
    BY <1>1, <2>2, <2>4 DEF ReaderOK, Value
<1>2. CASE k = 2
  <2>1. reader' = [r EXCEPT !.at = "watermark"]
    BY <1>2 DEF Proceed
  <2>2. /\ reader' \in Readers /\ reader'.at = "watermark"
        /\ reader'.values = r.values /\ reader'.marks = r.marks
    BY <2>1 DEF Readers
  <2>3. Past(1)
    BY <1>2 DEF ReaderOK
  <2>4. Past(1)'
    BY <1>2, <2>2, <2>3, PastSame
  <2> QED
    BY <1>2, <2>2, <2>4 DEF ReaderOK
<1> QED
  BY <1>1, <1>2

LEMMA StatFileStep ==
  ASSUME CInv, StatFile
  PROVE  ReaderOK'
<1>1. UNCHANGED vars /\ reader.at = "stat" /\ reader \in Readers /\ PInv /\ ReaderOK
  BY DEF StatFile, CInv, ReaderOK
<1>2. PICK k \in 1..2 : k = reader.i
  BY <1>1 DEF Readers
<1>3. Value(k) = Absent
  BY <1>1, <1>2 DEF ReaderOK, Value
<1>4. CASE Now = Absent
  <2> DEFINE r == [reader EXCEPT !.marks[reader.i] = Absent]
  <2>1. reader' = Proceed(r)
    BY <1>1, <1>4 DEF StatFile
  <2>2. /\ r \in Readers /\ r.i = reader.i /\ r.values = reader.values
        /\ r.marks[k] = Absent
        /\ \A j \in 1..2 : j # k => r.marks[j] = reader.marks[j]
    BY <1>1, <1>2 DEF Readers, Content
  <2>3. reader'.values = reader.values /\ reader'.marks = r.marks
    BY <2>1, <2>2 DEF Proceed, Readers
  <2>4. Past(k)'
    BY <1>3, <2>2, <2>3 DEF Past, Mark0, Value
  <2>5. k = 2 => Cross(Value(2))'
    <3> SUFFICES ASSUME k = 2 PROVE Cross(Value(2))'
      OBVIOUS
    <3>1. Value(2)' = Absent /\ Value(1)' = Value(1) /\ Mark0(1)' = Mark0(1)
      BY <1>3, <2>2, <2>3 DEF Value, Mark0
    <3>2. Past(1)
      BY <1>1, <1>2 DEF ReaderOK
    <3>3. Value(1) = Absent => Mark0(1) = Absent
      BY <1>1, <3>2, Bounds DEF Past, Absent, Doomed
    <3> QED
      BY <3>1, <3>3 DEF Cross
  <2> HIDE DEF r
  <2> QED
    BY <1>1, <1>2, <2>1, <2>2, <2>4, <2>5, ProceedKeeps
<1>5. CASE Now # Absent
  <2>1. reader' = [reader EXCEPT !.at = "read", !.marks[reader.i] = Now]
    BY <1>1, <1>5 DEF StatFile
  <2>2. Now = final[S(k)] /\ S(k) \in Comp /\ final[S(k)] \in Content
    BY <1>1, <1>2, SourcesAreComponents DEF Now, S, PInv, IInv, TypeOK
  <2>3. Seen(k, Now)
    BY <1>1, <1>5, <2>2, ThereIsSeen
  <2>4. /\ reader' \in Readers /\ reader'.at = "read" /\ reader'.i = k
        /\ reader'.values = reader.values
        /\ reader'.marks[k] = final[S(k)]
        /\ \A j \in 1..2 : j # k => reader'.marks[j] = reader.marks[j]
    BY <1>1, <1>2, <2>1, <2>2 DEF Readers
  <2>5. Seen(reader.i, Mark0(reader.i))'
    BY <1>1, <2>2, <2>3, <2>4 DEF Seen, Mark0, S, Sources, vars, disk
  <2>6. Value(reader.i)' = Absent
    BY <1>3, <2>4 DEF Value
  <2>7. CASE k = 1
    <3>1. Value(2)' = Absent
      BY <1>1, <1>2, <2>4, <2>7 DEF ReaderOK, Value
    <3> QED
      BY <2>4, <2>5, <2>6, <2>7, <3>1 DEF ReaderOK
  <2>8. CASE k = 2
    <3>1. Past(1)
      BY <1>1, <1>2, <2>8 DEF ReaderOK
    <3>2. Past(1)'
      BY <1>1, <2>4, <2>8, <3>1, PastSame
    <3>3. Cross(final[S(2)])'
      BY <1>1, <2>4, <2>8 DEF Cross, Mark0, S, Sources, vars, disk
    <3> QED
      BY <2>4, <2>5, <2>6, <2>8, <3>2, <3>3 DEF ReaderOK
  <2> QED
    BY <2>7, <2>8
<1> QED
  BY <1>4, <1>5

LEMMA ReadFileStep ==
  ASSUME CInv, ReadFile
  PROVE  ReaderOK'
<1>1. UNCHANGED vars /\ reader.at = "read" /\ reader \in Readers /\ PInv /\ ReaderOK
  BY DEF ReadFile, CInv, ReaderOK
<1>2. PICK k \in 1..2 : k = reader.i
  BY <1>1 DEF Readers
<1>3. CASE Now = Absent
  BY <1>1, <1>3, AgainKeeps DEF ReadFile
<1>4. CASE Now # Absent
  <2>1. reader' = [reader EXCEPT !.at = "check", !.values[reader.i] = Now]
    BY <1>1, <1>4 DEF ReadFile
  <2>2. Now = final[S(k)] /\ S(k) \in Comp /\ final[S(k)] \in Content
    BY <1>1, <1>2, SourcesAreComponents DEF Now, S, PInv, IInv, TypeOK
  <2>3. /\ reader' \in Readers /\ reader'.at = "check" /\ reader'.i = k
        /\ reader'.marks = reader.marks
        /\ reader'.values[k] = final[S(k)]
        /\ \A j \in 1..2 : j # k => reader'.values[j] = reader.values[j]
    BY <1>1, <1>2, <2>1, <2>2 DEF Readers
  <2>4. Seen(k, Mark0(k))
    BY <1>1, <1>2 DEF ReaderOK, Seen, Mark0
  <2>5. final[S(k)] \in 0..gen
    BY <1>1, <1>4, <2>2, ThereIsSeen DEF Seen
  <2>6. \/ final[S(k)] = Mark0(k)
        \/ Gone(k, Mark0(k))
        \/ Doomed(final[S(k)])
        \/ final[S(k)] = gen /\ pc \in Forward
    <3> SUFFICES ASSUME final[S(k)] # Mark0(k), ~Gone(k, Mark0(k))
                 PROVE  \/ Doomed(final[S(k)])
                        \/ final[S(k)] = gen /\ pc \in Forward
      OBVIOUS
    <3>1. good[S(k)] = Mark0(k)
      BY <2>4 DEF Gone
    <3>2. CompOK(S(k))
      BY <1>1 DEF PInv
    <3>3. final[S(k)] = gen /\ good[S(k)] # gen
      BY <1>4, <2>2, <3>1, <3>2 DEF CompOK
    <3>4. CASE pc \in Forward
      BY <3>3, <3>4
    <3>5. CASE pc \notin Forward
      <4>1. gen \in Nat /\ good[S(k)] \in 0..gen
        BY <1>1, Bounds
      <4>2. gen \in 1..gen
        BY <3>3, <4>1
      <4>3. gen \notin committed
        BY <1>1, <2>2, <3>3, <4>2, UncommittedIsNotThere
      <4> QED
        BY <3>3, <3>5, <4>2, <4>3 DEF Doomed
    <3> QED
      BY <3>4, <3>5
  <2>7. JustRead(reader.i)'
    BY <1>1, <2>3, <2>4, <2>5, <2>6
    DEF JustRead, Gone, Seen, Doomed, Mark0, Value, S, Sources, vars, disk, history
  <2>8. CASE k = 1
    <3>1. Value(2)' = Absent
      BY <1>1, <1>2, <2>3, <2>8 DEF ReaderOK, Value
    <3> QED
      BY <2>3, <2>7, <2>8, <3>1 DEF ReaderOK
  <2>9. CASE k = 2
    <3>1. Past(1) /\ Cross(final[S(2)])
      BY <1>1, <1>2, <2>9 DEF ReaderOK
    <3>2. Past(1)'
      BY <1>1, <2>3, <2>9, <3>1, PastSame
    <3>3. Cross(Value(2))'
      BY <1>1, <2>3, <2>9, <3>1 DEF Cross, Mark0, Value
    <3> QED
      BY <2>3, <2>7, <2>9, <3>2, <3>3 DEF ReaderOK
  <2> QED
    BY <2>8, <2>9
<1> QED
  BY <1>3, <1>4


LEMMA CheckFileStep ==
  ASSUME CInv, CheckFile
  PROVE  ReaderOK'
<1>1. UNCHANGED vars /\ reader.at = "check" /\ reader \in Readers /\ PInv /\ ReaderOK
  BY DEF CheckFile, CInv, ReaderOK
<1>2. PICK k \in 1..2 : k = reader.i
  BY <1>1 DEF Readers
<1>3. CASE Now # reader.marks[reader.i]
  BY <1>1, <1>3, AgainKeeps DEF CheckFile
<1>4. CASE Now = reader.marks[reader.i]
  <2>1. reader' = Proceed(reader)
    BY <1>1, <1>4 DEF CheckFile
  <2>2. reader'.values = reader.values /\ reader'.marks = reader.marks
    BY <1>1, <2>1 DEF Proceed, Readers
  <2>3. JustRead(k) /\ final[S(k)] = Mark0(k)
    BY <1>1, <1>2, <1>4 DEF ReaderOK, Now, Mark0, S, JustRead, Gone, Seen, Doomed, Value
  <2>4. Past(k)
    BY <2>3 DEF JustRead, Past, Gone
  <2>5. Past(k)'
    BY <1>1, <2>2, <2>4, PastSame
  <2>6. k = 2 => Cross(Value(2))'
    BY <1>1, <1>2, <2>2 DEF ReaderOK, Cross, Value, Mark0
  <2> QED
    BY <1>1, <1>2, <2>1, <2>5, <2>6, ProceedKeeps
<1> QED
  BY <1>3, <1>4

LEMMA JournalWatermarkStep ==
  ASSUME CInv, JournalWatermark
  PROVE  ReaderOK'
<1>1. UNCHANGED vars /\ reader.at = "watermark" /\ reader \in Readers /\ ReaderOK
  BY DEF JournalWatermark, CInv, ReaderOK
<1>2. CASE journal # NoJournal
  BY <1>1, <1>2, AgainKeeps DEF JournalWatermark
<1>3. CASE journal = NoJournal
  <2>1. reader' = [reader EXCEPT !.at = "journal"]
    BY <1>3 DEF JournalWatermark
  <2>2. /\ reader' \in Readers /\ reader'.at = "journal"
        /\ reader'.marks = reader.marks /\ reader'.values = reader.values
    BY <1>1, <2>1 DEF Readers
  <2>3. Past(1) /\ Past(2) /\ Cross(Value(2))
    BY <1>1 DEF ReaderOK
  <2>4. Past(1)' /\ Past(2)'
    BY <1>1, <2>2, <2>3, PastSame
  <2>5. Cross(Value(2))'
    BY <2>2, <2>3 DEF Cross, Value, Mark0
  <2> QED
    BY <2>2, <2>4, <2>5 DEF ReaderOK
<1> QED
  BY <1>2, <1>3

\* No publication is open and the files name one publication: what was read is
\* what is good, if the watermarks are those of good files, or it is of
\* attempts that cannot be told apart.
LEMMA ReadIsGood ==
  ASSUME PInv, Past(1), Past(2), Cross(Value(2)), BothThere, ~Torn,
         Mark0(1) = good[S(1)], Mark0(2) = good[S(2)]
  PROVE  (Value(1) = good[S(1)] /\ Value(2) = good[S(2)]) \/ Indistinct
<1>1. \A i \in 1..2 : /\ Mark0(i) # Absent
                      /\ Value(i) \in 0..gen
                      /\ Value(i) = Mark0(i) \/ Doomed(Value(i))
  BY DEF BothThere, Past
<1>2. gen \in Nat /\ \A i \in 1..2 : ~Doomed(good[S(i)])
  BY Bounds DEF PInv, CompOK, Doomed
<1>3. Identity[Value(1)] = Identity[Value(2)]
  BY <1>1, <1>2 DEF Torn, Value, Absent
<1>4. CASE Value(1) = Value(2)
  <2>1. Value(1) = Mark0(1)
    BY <1>1, <1>2, <1>4 DEF Cross
  <2> QED
    BY <1>1, <1>2, <1>4, <2>1
<1>5. CASE Value(1) # Value(2)
  BY <1>1, <1>3, <1>5 DEF Indistinct
<1> QED
  BY <1>4, <1>5

LEMMA LookForJournalStep ==
  ASSUME CInv, LookForJournal
  PROVE  ReaderOK'
<1>1. UNCHANGED vars /\ reader.at = "journal" /\ reader \in Readers /\ ReaderOK /\ PInv
  BY DEF LookForJournal, CInv, ReaderOK
<1>2. CASE journal # NoJournal \/ Torn
  BY <1>1, <1>2, AgainKeeps DEF LookForJournal
<1>3. CASE journal = NoJournal /\ ~Torn
  <2> DEFINE g == [i \in 1..2 |-> good[Sources[i]]]
  <2>1. reader' = [reader EXCEPT !.at = "recheck", !.i = 1, !.lastGood = g]
    BY <1>3 DEF LookForJournal
  <2>2. g \in [1..2 -> Content] /\ \A i \in 1..2 : g[i] = good[S(i)]
    BY <1>1, SourcesAreComponents DEF S, PInv, IInv, TypeOK
  <2> HIDE DEF g
  <2>3. reader' = [at |-> "recheck", attempt |-> reader.attempt, i |-> 1,
                   marks |-> reader.marks, values |-> reader.values, lastGood |-> g]
    BY <1>1, <2>1 DEF Readers
  <2>4. reader' \in Readers /\ reader'.at = "recheck" /\ reader'.i = 1
    BY <1>1, <2>2, <2>3 DEF Readers
  <2>5. \A i \in 1..2 : /\ Mark0(i)' = Mark0(i) /\ Value(i)' = Value(i)
                        /\ Good0(i)' <=> Mark0(i) = good[S(i)]
    BY <2>2, <2>3 DEF Mark0, Value, Good0
  <2>6. Past(1) /\ Past(2) /\ Cross(Value(2))
    BY <1>1 DEF ReaderOK
  <2>7. \A i \in 1..2 : final[S(i)] = good[S(i)]
    <3> SUFFICES ASSUME NEW i \in 1..2 PROVE final[S(i)] = good[S(i)]
      OBVIOUS
    <3>1. S(i) \in Comp /\ good[S(i)] # Absent
      BY <1>1, SourcesAreComponents, Bounds DEF Absent
    <3> QED
      BY <1>1, <1>3, <3>1 DEF PInv, IInv, AllKept, Kept, Uncommitted, Open
  <2>8. \A i \in 1..2 : Awaits(i)'
    <3> SUFFICES ASSUME NEW i \in 1..2, Mark0(i) # Absent, Mark0(i) # good[S(i)]
                 PROVE  Gone(i, Mark0(i))'
      BY <2>5 DEF Awaits
    <3>1. Seen(i, Mark0(i))
      BY <2>6 DEF Past
    <3>2. Gone(i, Mark0(i))
      BY <2>7, <3>1 DEF Gone
    <3> QED
      BY <1>1, <2>5, <3>2 DEF Gone, Seen, S, Sources, vars, disk, history
  <2>9. Settled'
    <3>1. BothThere' <=> BothThere
      BY <2>5 DEF BothThere
    <3>2. BothThere /\ Mark0(1) = good[S(1)] /\ Mark0(2) = good[S(2)]
            => (Value(1) = good[S(1)] /\ Value(2) = good[S(2)]) \/ Indistinct
      BY <1>1, <1>3, <2>6, ReadIsGood
    <3>3. reader'.lastGood = g
      BY <2>3
    <3>4. Indistinct => Indistinct'
      BY <1>1, <2>5 DEF Indistinct, Doomed, vars, history
    <3> QED
      BY <2>2, <2>5, <3>1, <3>2, <3>3, <3>4 DEF Settled
  <2> QED
    BY <2>4, <2>8, <2>9 DEF ReaderOK
<1> QED
  BY <1>2, <1>3

\* Neither does it matter to what is settled how far the reader is.
LEMMA SettledSame ==
  ASSUME UNCHANGED vars, reader'.marks = reader.marks, reader'.values = reader.values,
         reader'.lastGood = reader.lastGood
  PROVE  Settled => Settled'
<1>1. Indistinct => Indistinct'
  BY DEF Indistinct, Doomed, Value, vars, history
<1> QED
  BY <1>1 DEF Settled, BothThere, Good0, Mark0, Value

LEMMA RecheckStep ==
  ASSUME CInv, Recheck
  PROVE  ReaderOK'
<1>1. UNCHANGED vars /\ reader.at = "recheck" /\ reader \in Readers /\ ReaderOK /\ PInv
  BY DEF Recheck, CInv, ReaderOK
<1>2. PICK k \in 1..2 : k = reader.i
  BY <1>1 DEF Readers
<1>3. CASE Now # reader.marks[reader.i]
  BY <1>1, <1>3, AgainKeeps DEF Recheck
<1>4. CASE Now = reader.marks[reader.i]
  <2>1. final[S(k)] = Mark0(k) /\ Awaits(k) /\ Settled
    BY <1>1, <1>2, <1>4 DEF ReaderOK, Now, Mark0, S, Awaits, Good0, Gone, Seen
  <2>2. Passed(k)
    BY <2>1 DEF Awaits, Passed, Gone
  <2>3. CASE k = 1
    <3>1. reader' = [reader EXCEPT !.i = 2]
      BY <1>2, <1>4, <2>3 DEF Recheck
    <3>2. reader' = [at |-> "recheck", attempt |-> reader.attempt, i |-> 2,
                     marks |-> reader.marks, values |-> reader.values,
                     lastGood |-> reader.lastGood]
      BY <1>1, <3>1 DEF Readers
    <3>3. reader' \in Readers /\ reader'.at = "recheck" /\ reader'.i = 2
      BY <1>1, <3>2 DEF Readers
    <3>4. Settled' /\ Passed(1)'
      BY <1>1, <2>1, <2>2, <2>3, <3>2, SettledSame DEF Passed, Good0, Mark0
    <3>5. Awaits(2)
      BY <1>1 DEF ReaderOK
    <3>6. Awaits(2)'
      BY <1>1, <3>2, <3>5
      DEF Awaits, Good0, Gone, Seen, Mark0, S, Sources, vars, disk, history
    <3> QED
      BY <3>3, <3>4, <3>6 DEF ReaderOK
  <2>4. CASE k = 2
    <3>1. reader' = [reader EXCEPT !.at = "recheck_journal"]
      BY <1>2, <1>4, <2>4 DEF Recheck
    <3>2. /\ reader' \in Readers /\ reader'.at = "recheck_journal"
          /\ reader'.marks = reader.marks /\ reader'.values = reader.values
          /\ reader'.lastGood = reader.lastGood
      BY <1>1, <3>1 DEF Readers
    <3>3. Passed(1)
      BY <1>1, <1>2, <2>4 DEF ReaderOK
    <3>4. Settled' /\ Passed(1)' /\ Passed(2)'
      BY <1>1, <2>1, <2>2, <2>4, <3>2, <3>3, SettledSame DEF Passed, Good0, Mark0
    <3> QED
      BY <3>2, <3>4 DEF ReaderOK
  <2> QED
    BY <2>3, <2>4
<1> QED
  BY <1>3, <1>4

LEMMA RecheckJournalStep ==
  ASSUME CInv, RecheckJournal
  PROVE  ReaderOK'
<1>1. UNCHANGED vars /\ reader.at = "recheck_journal" /\ reader \in Readers /\ ReaderOK
  BY DEF RecheckJournal, CInv, ReaderOK
<1>2. CASE journal # NoJournal
  BY <1>1, <1>2, AgainKeeps DEF RecheckJournal
<1>3. CASE journal = NoJournal /\ Absent \in {reader.marks[1], reader.marks[2]}
  <2>1. reader' = [reader EXCEPT !.at = "missing"]
    BY <1>3 DEF RecheckJournal, Answer
  <2>2. reader' \in Readers /\ reader'.at = "missing"
    BY <1>1, <2>1 DEF Readers
  <2> QED
    BY <2>2 DEF ReaderOK
<1>4. CASE journal = NoJournal /\ Absent \notin {reader.marks[1], reader.marks[2]}
  <2>1. reader' = [reader EXCEPT !.at = "current"]
    BY <1>4 DEF RecheckJournal, Answer
  <2>2. /\ reader' \in Readers /\ reader'.at = "current"
        /\ reader'.marks = reader.marks /\ reader'.values = reader.values
        /\ reader'.lastGood = reader.lastGood
    BY <1>1, <2>1 DEF Readers
  <2>3. Passed(1) /\ Passed(2) /\ Settled
    BY <1>1 DEF ReaderOK
  <2>4. BothThere' /\ Good0(1)' /\ Good0(2)' /\ Settled'
    BY <1>1, <1>4, <2>2, <2>3, SettledSame DEF Passed, Good0, BothThere, Mark0
  <2> QED
    BY <2>2, <2>4 DEF ReaderOK
<1> QED
  BY <1>2, <1>3, <1>4

-----------------------------------------------------------------------------
(* The theorem.                                                            *)

LEMMA NextKeepsCInv ==
  ASSUME CInv, [NextCatalog]_catalogVars
  PROVE  CInv'
<1>1. CASE [Next]_vars /\ UNCHANGED reader
  BY <1>1, PublisherKeepsReader
<1>2. CASE Ask
  <2>1. UNCHANGED vars /\ reader' = Attempt(1) /\ 1 \in Nat
    BY <1>2 DEF Ask
  <2>2. ReaderOK'
    BY <2>1, FromTheStart DEF CInv, ReaderOK
  <2> QED
    BY <2>1, <2>2, PInvSame DEF CInv
<1>3. CASE Read
  <2>1. UNCHANGED vars
    BY <1>3 DEF Read, StatFile, ReadFile, CheckFile, JournalWatermark,
      LookForJournal, Recheck, RecheckJournal
  <2>2. ReaderOK'
    BY <1>3, StatFileStep, ReadFileStep, CheckFileStep, JournalWatermarkStep,
       LookForJournalStep, RecheckStep, RecheckJournalStep DEF Read
  <2> QED
    BY <2>1, <2>2, PInvSame DEF CInv
<1> QED
  BY <1>1, <1>2, <1>3 DEF NextCatalog, catalogVars

LEMMA InitCInv ==
  ASSUME SourcesThere, InitCatalog
  PROVE  CInv
<1>1. IInv
  BY InitIInv DEF InitCatalog
<1>2. ASSUME NEW i \in 1..2 PROVE CompOK(S(i))
  <2>1. S(i) \in Comp /\ S(i) \in InitialFiles
    BY SourcesAreComponents DEF SourcesThere
  <2> QED
    BY <2>1 DEF CompOK, InitCatalog, Init, NothingThere, Absent
<1>3. reader = [at |-> "idle", attempt |-> 1, i |-> 1, marks |-> Unread,
                values |-> Unread, lastGood |-> Unread]
  BY DEF InitCatalog, Attempt
<1>4. reader \in Readers /\ reader.at = "idle"
  BY <1>3 DEF Readers, Unread, Content
<1> QED
  BY <1>1, <1>2, <1>4 DEF CInv, PInv, ReaderOK

\* The invariant of the publisher and its reader.
THEOREM CatalogInvariant ==
  ASSUME SourcesThere
  PROVE  SpecCatalog => []CInv
<1>1. InitCatalog => CInv
  BY InitCInv
<1>2. CInv /\ [NextCatalog]_catalogVars => CInv'
  BY NextKeepsCInv
<1> QED
  BY <1>1, <1>2, PTL DEF SpecCatalog

\* What the catalog answers as current, having read two files one after the
\* other without a lock, is the last-good projection of one moment of the
\* read: neither a mixture of two publications, nor content of a publication
\* that was rolled back, even if the rollback put the very file back whose
\* watermark the reader had noted (goal_catalog_public_source_snapshot).  It
\* is so whatever publish identity the attempts have, except that files of
\* two attempts of one identity are not told apart if one was rolled back.
THEOREM AnswersAreLastGood ==
  ASSUME SourcesThere
  PROVE  SpecCatalog => []CurrentIsLastGood
<1>1. CInv => CurrentIsLastGood
  <2> SUFFICES ASSUME CInv, reader.at = "current", reader.values # reader.lastGood
               PROVE  MixesRetries
    BY DEF CurrentIsLastGood
  <2>1. reader.values \in [1..2 -> Content] /\ reader.lastGood \in [1..2 -> Content]
    BY DEF CInv, ReaderOK, Readers
  <2>2. Indistinct
    BY <2>1 DEF CInv, ReaderOK, Settled, BothThere, Good0, Value
  <2> QED
    BY <2>2 DEF Indistinct, MixesRetries, Doomed, Value
<1> QED
  BY <1>1, CatalogInvariant, PTL
=============================================================================
