-------------------------- MODULE CaptureLedgerProofs --------------------------
(***************************************************************************)
(* Theorems about CaptureLedger, for transcripts of any size, any number   *)
(* of their changes, of captures that die, and of publications.            *)
(*                                                                         *)
(* A capture that died leaves a materialization that runs ahead of the     *)
(* ledger, and block files that nothing refers to; the next one cuts off   *)
(* and copies again.  The invariant says what ledger, materialization and  *)
(* block files have in common at every step of a capture (LedgerOK,        *)
(* CaptureOK), which pointers may be stale and still name what is there    *)
(* (PointersOK), and, if nobody rewrites the transcript in place while it  *)
(* is copied, of which epochs the blocks are of one writing (WritingOK).   *)
(***************************************************************************)
EXTENDS CaptureLedger, SequenceTheorems, TLAPS

Gen == 1 .. MaxChanges + 1
Size == 0 .. MaxSize
Stamp == [ino : Gen, size : Size, mtime : Gen]
Entry == [ino : Gen, blocks : Blocks]

OpenSteps == {"open", "copy", "stat"}
CommitSteps == {"ledger", "overlay", "state", "receipt"}

BoundaryCap == [pc : {"boundary"}, before : Stamp]
OpenCap == [pc : OpenSteps, before : Stamp, epoch : Nat, blocks : Blocks]
CommitCap == [pc : CommitSteps, before : Stamp, epoch : Nat, blocks : Blocks,
              after : Stamp, stable : BOOLEAN]

TypesOK ==
    /\ source \in [ino : Gen, gen : Gen, size : Size, mtime : Gen]
    /\ source.ino <= source.mtime /\ source.gen <= source.mtime
    /\ handle = Live \/ handle \in [gen : Gen, size : Size]
    /\ ledger \in Seq(Entry)
    /\ mats \in Seq(Blocks)
    /\ parts \subseteq Gen \X (1 .. MaxSize)
    /\ overlay \in [epoch : Nat, n : Size]
    /\ state \in Pointer
    /\ stage \in Pointer
    /\ cap = Idle \/ cap \in BoundaryCap \/ cap \in OpenCap \/ cap \in CommitCap

\* The blocks s are those that t begins with.
Begins(s, t) == Len(s) <= Len(t) /\ \A i \in 1 .. Len(s) : s[i] = t[i]

\* Every block of s has its block file.
Filed(s) == \A i \in 1 .. Len(s) : <<s[i], i>> \in parts

LedgerOK ==
    /\ Len(mats) \in {Len(ledger), Len(ledger) + 1}
    /\ \A e \in 1 .. Len(ledger) :
         Begins(ledger[e].blocks, mats[e]) /\ Filed(ledger[e].blocks)

CaptureOK ==
    /\ cap.pc \in OpenSteps \union CommitSteps =>
         /\ cap.epoch \in {Len(ledger), Len(ledger) + 1}
         /\ cap.epoch \in 1 .. Len(mats)
         /\ Len(cap.blocks) <= cap.before.size
    /\ cap.pc \in OpenSteps \union {"ledger"} =>
         /\ mats[cap.epoch] = cap.blocks
         /\ Filed(cap.blocks)
         /\ cap.epoch = Len(ledger) => Begins(ledger[cap.epoch].blocks, cap.blocks)
    /\ cap.pc \in CommitSteps \ {"ledger"} =>
         cap.epoch = Len(ledger) /\ ledger[cap.epoch].blocks = cap.blocks
    /\ cap.pc \in {"state", "receipt"} =>
         overlay.epoch = cap.epoch /\ overlay.n = Len(cap.blocks)

\* The pointer p names committed blocks, and no later ones than the overlay.
Names(p) ==
    p.epoch # 0 =>
      /\ p.epoch <= Len(ledger)
      /\ p.n <= Len(ledger[p.epoch].blocks)
      /\ p.epoch <= overlay.epoch
      /\ p.epoch = overlay.epoch => p.n <= overlay.n

PointersOK == Names(overlay) /\ Names(state) /\ Names(stage)

IInv == TypesOK /\ LedgerOK /\ CaptureOK /\ PointersOK

\* The first n blocks of s are of one writing.
OneWriting(s, n) == \A i, j \in 1 .. n : s[i] = s[j]

\* A stable pointer names blocks of one writing.
Whole(p) == p.epoch # 0 /\ p.stable => OneWriting(ledger[p.epoch].blocks, p.n)

\* As long as the inode is the one that a capture has begun with, its blocks
\* are of the writing it finds there.
WritingOK ==
    /\ cap.pc # "copy" => handle = Live
    /\ cap.pc # "idle" => cap.before.ino <= source.ino
    /\ cap.pc \in OpenSteps /\ source.ino = cap.before.ino =>
         handle = Live /\ \A i \in 1 .. Len(cap.blocks) : cap.blocks[i] = source.gen
    /\ cap.pc \in CommitSteps /\ (source.ino = cap.before.ino \/ cap.stable) =>
         OneWriting(cap.blocks, Len(cap.blocks))
    /\ ledger # <<>> =>
         LET last == ledger[Len(ledger)]
         IN /\ last.ino <= source.ino
            /\ last.ino = source.ino => OneWriting(last.blocks, Len(last.blocks))
    /\ Whole(state) /\ Whole(stage)

-----------------------------------------------------------------------------
(* Sequences.                                                              *)

LEMMA PrefixFacts ==
  ASSUME NEW S, NEW s \in Seq(S), NEW t \in Seq(S)
  PROVE  IsPrefix(s, t) <=> Begins(s, t)
BY SubSeqProperties, SeqEqual, LenProperties DEF IsPrefix, Begins

LEMMA CutFacts ==
  ASSUME NEW S, NEW s \in Seq(S), NEW n \in 0 .. Len(s)
  PROVE  /\ SubSeq(s, 1, n) \in Seq(S)
         /\ Len(SubSeq(s, 1, n)) = n
         /\ \A i \in 1 .. n : SubSeq(s, 1, n)[i] = s[i]
<1>1. Len(s) \in Nat /\ \A i \in 1 .. n : s[i] \in S
  BY LenProperties, ElementOfSeq
<1> QED
  BY <1>1, SubSeqProperties

\* The entry of epoch e is replaced, or added, and nothing is behind it.
LEMMA CommitFacts ==
  ASSUME NEW S, NEW s \in Seq(S), NEW e \in 1 .. Len(s) + 1, NEW r \in S
  PROVE  LET t == SubSeq(s, 1, e - 1) \o <<r>>
         IN  /\ t \in Seq(S) /\ Len(t) = e
             /\ \A i \in 1 .. e - 1 : t[i] = s[i]
             /\ t[e] = r
<1> DEFINE u == SubSeq(s, 1, e - 1)
<1>1. Len(s) \in Nat
  BY LenProperties
<1>2. u \in Seq(S) /\ Len(u) = e - 1 /\ \A i \in 1 .. e - 1 : u[i] = s[i]
  <2>1. e - 1 \in 0 .. Len(s)
    BY <1>1
  <2> QED
    BY <2>1, CutFacts
<1> HIDE DEF u
<1>3. u \o <<r>> = Append(u, r)
  BY <1>2, AppendIsConcat
<1>4. LET t == Append(u, r)
      IN  /\ t \in Seq(S) /\ Len(t) = e
          /\ \A i \in 1 .. e - 1 : t[i] = s[i]
          /\ t[e] = r
  BY <1>1, <1>2, AppendProperties
<1> QED
  BY <1>3, <1>4 DEF u

-----------------------------------------------------------------------------
(* What a state is made of.                                                *)

LEMMA Constants == MaxSize \in Nat /\ MaxChanges \in Nat
BY CaptureConstants

LEMMA DiskFacts ==
  ASSUME TypesOK
  PROVE  /\ Len(ledger) \in Nat /\ DOMAIN ledger = 1 .. Len(ledger)
         /\ Len(mats) \in Nat /\ DOMAIN mats = 1 .. Len(mats)
         /\ \A e \in 1 .. Len(ledger) : ledger[e] \in Entry /\ ledger[e].blocks \in Blocks
         /\ \A e \in 1 .. Len(mats) : mats[e] \in Blocks
<1>1. ledger \in Seq(Entry) /\ mats \in Seq(Blocks)
  BY DEF TypesOK
<1>2. /\ Len(ledger) \in Nat /\ DOMAIN ledger = 1 .. Len(ledger)
      /\ Len(mats) \in Nat /\ DOMAIN mats = 1 .. Len(mats)
  BY <1>1, LenProperties
<1>3. \A e \in 1 .. Len(ledger) : ledger[e] \in Entry
  BY <1>1, ElementOfSeq
<1>4. \A e \in 1 .. Len(mats) : mats[e] \in Blocks
  BY <1>1, ElementOfSeq
<1> QED
  BY <1>2, <1>3, <1>4 DEF Entry

LEMMA BlocksFacts ==
  ASSUME NEW s \in Blocks
  PROVE  Len(s) \in Nat /\ \A i \in 1 .. Len(s) : s[i] \in Gen
BY LenProperties, ElementOfSeq DEF Blocks, Gen

LEMMA EpochFacts ==
  ASSUME TypesOK, LedgerOK, NEW e \in 1 .. Len(ledger)
  PROVE  /\ e \in Nat /\ e \in 1 .. Len(mats)
         /\ ledger[e].blocks \in Blocks /\ mats[e] \in Blocks
         /\ Begins(ledger[e].blocks, mats[e]) /\ Filed(ledger[e].blocks)
<1>1. Len(ledger) \in Nat /\ Len(mats) \in Nat
  BY DiskFacts
<1>2. Len(mats) \in {Len(ledger), Len(ledger) + 1}
  BY DEF LedgerOK
<1>3. e \in Nat /\ e \in 1 .. Len(mats)
  BY <1>1, <1>2
<1> QED
  BY <1>3, DiskFacts DEF LedgerOK

LEMMA CapFacts ==
  ASSUME TypesOK
  PROVE  /\ cap.pc = "boundary" => cap \in BoundaryCap
         /\ cap.pc \in OpenSteps => cap \in OpenCap
         /\ cap.pc \in CommitSteps => cap \in CommitCap
         /\ cap # Idle => cap.pc # "idle" /\ cap.before \in Stamp
         /\ cap.pc \in OpenSteps \union CommitSteps => cap.epoch \in Nat /\ cap.blocks \in Blocks
<1>1. cap = Idle \/ cap \in BoundaryCap \/ cap \in OpenCap \/ cap \in CommitCap
  BY DEF TypesOK
<1>2. cap = Idle => cap.pc = "idle"
  BY DEF Idle
<1>3. cap \in BoundaryCap => cap.pc = "boundary" /\ cap.before \in Stamp
  BY DEF BoundaryCap
<1>4. cap \in OpenCap => /\ cap.pc \in OpenSteps /\ cap.before \in Stamp
                         /\ cap.epoch \in Nat /\ cap.blocks \in Blocks
  BY DEF OpenCap
<1>5. cap \in CommitCap => /\ cap.pc \in CommitSteps /\ cap.before \in Stamp
                           /\ cap.epoch \in Nat /\ cap.blocks \in Blocks
  BY DEF CommitCap
<1> QED
  BY <1>1, <1>2, <1>3, <1>4, <1>5 DEF OpenSteps, CommitSteps

LEMMA SourceFacts ==
  ASSUME TypesOK
  PROVE  /\ Stat \in Stamp
         /\ Readable.gen \in Gen /\ Readable.size \in Size
<1>1. source \in [ino : Gen, gen : Gen, size : Size, mtime : Gen]
  BY DEF TypesOK
<1>2. Stat \in Stamp
  BY <1>1 DEF Stat, Stamp
<1>3. CASE handle = Live
  BY <1>1, <1>2, <1>3 DEF Readable
<1>4. CASE handle # Live
  BY <1>2, <1>4 DEF Readable, TypesOK
<1> QED
  BY <1>3, <1>4

-----------------------------------------------------------------------------
(* Steps that leave the disk as it is.                                     *)

\* Everything the invariant is about is as before, except for the source.
LEMMA SourceChanges ==
  ASSUME IInv, TypesOK', UNCHANGED <<disk, cap, stage>>
  PROVE  IInv'
BY DEF IInv, LedgerOK, CaptureOK, PointersOK, Names, Begins, Filed, disk

LEMMA SourceSteps ==
  ASSUME IInv, Grow \/ Replace \/ Rewrite
  PROVE  IInv'
<1> USE Constants
<1>1. /\ source \in [ino : Gen, gen : Gen, size : Size, mtime : Gen]
      /\ source.ino <= source.mtime /\ source.gen <= source.mtime
      /\ source.mtime <= MaxChanges
  BY DEF IInv, TypesOK, Grow, Replace, Rewrite, May
<1> DEFINE time == source.mtime + 1
           gen == source.gen + 1
           ino == source.ino + 1
           size == source.size + 1
<1>2. /\ time \in Gen /\ gen \in Gen /\ ino \in Gen /\ gen <= time /\ ino <= time
      /\ source.gen <= time /\ source.ino <= time
      /\ source.size < MaxSize => size \in Size
  BY <1>1 DEF Gen, Size
<1> HIDE DEF time, gen, ino, size
<1>3. /\ source' \in [ino : Gen, gen : Gen, size : Size, mtime : Gen]
      /\ source'.ino <= source'.mtime /\ source'.gen <= source'.mtime
  <2>1. CASE Grow
    <3>1. source.size < MaxSize /\ source' = [source EXCEPT !.size = size, !.mtime = time]
      BY <2>1 DEF Grow, size, time
    <3> QED
      BY <1>1, <1>2, <3>1
  <2>2. CASE Replace
    <3>1. \E n \in Size : source' = [ino |-> ino, gen |-> gen, size |-> n, mtime |-> time]
      BY <2>2 DEF Replace, ino, gen, time, Size
    <3> QED
      BY <1>1, <1>2, <3>1
  <2>3. CASE Rewrite
    <3>1. \E n \in Size : source' = [source EXCEPT !.gen = gen, !.size = n, !.mtime = time]
      BY <2>3 DEF Rewrite, gen, time, Size
    <3> QED
      BY <1>1, <1>2, <3>1
  <2> QED
    BY <2>1, <2>2, <2>3
<1>4. handle' = Live \/ handle' \in [gen : Gen, size : Size]
  <2>1. handle' = handle \/ handle' = [gen |-> source.gen, size |-> source.size]
    BY DEF Grow, Replace, Rewrite
  <2> QED
    BY <1>1, <2>1 DEF IInv, TypesOK
<1>5. UNCHANGED <<disk, cap, stage>>
  BY DEF Grow, Replace, Rewrite
<1>6. TypesOK'
  BY <1>3, <1>4, <1>5 DEF IInv, TypesOK, disk, Gen, Size, Live, Entry, Blocks, Pointer,
     BoundaryCap, OpenCap, CommitCap, Stamp
<1> QED
  BY <1>5, <1>6, SourceChanges

\* A step of the capture that writes nothing.
LEMMA CapChanges ==
  ASSUME IInv, UNCHANGED <<source, disk, stage>>, handle' \in {handle, Live},
         cap' = Idle \/ cap' \in BoundaryCap \/ cap' \in OpenCap \/ cap' \in CommitCap,
         CaptureOK'
  PROVE  IInv'
<1>1. TypesOK'
  BY DEF IInv, TypesOK, disk, Gen, Size, Live, Entry, Blocks, Pointer,
     BoundaryCap, OpenCap, CommitCap, Stamp
<1>2. LedgerOK' /\ PointersOK'
  BY DEF IInv, LedgerOK, PointersOK, Names, Begins, Filed, disk
<1> QED
  BY <1>1, <1>2 DEF IInv

LEMMA BeginStep ==
  ASSUME IInv, Begin
  PROVE  IInv'
<1>1. cap' \in BoundaryCap /\ cap'.pc = "boundary"
  BY SourceFacts DEF Begin, BoundaryCap, IInv
<1>2. CaptureOK'
  BY <1>1 DEF CaptureOK, OpenSteps, CommitSteps
<1> QED
  BY <1>1, <1>2, CapChanges DEF Begin

LEMMA GivenUp ==
  ASSUME cap' = Idle
  PROVE  CaptureOK'
<1>1. cap'.pc = "idle"
  BY DEF Idle
<1> QED
  BY <1>1 DEF CaptureOK, OpenSteps, CommitSteps

LEMMA EndSteps ==
  ASSUME IInv, NothingToCapture \/ ShortRead
  PROVE  IInv'
BY GivenUp, CapChanges DEF NothingToCapture, ShortRead

\* The program counter moves, and the capture is as it was.
LEMMA OpenAndCopied ==
  ASSUME IInv, OpenSource \/ Copied
  PROVE  IInv'
<1>1. cap.pc \in {"open", "copy"} /\ cap \in OpenCap
  BY CapFacts DEF OpenSource, Copied, OpenSteps, IInv
<1>2. PICK pc \in {"copy", "stat"} : cap' = [cap EXCEPT !.pc = pc]
  BY DEF OpenSource, Copied
<1>3. /\ cap' \in OpenCap /\ cap'.pc = pc
      /\ cap'.epoch = cap.epoch /\ cap'.blocks = cap.blocks /\ cap'.before = cap.before
  BY <1>1, <1>2 DEF OpenCap, OpenSteps
<1>4. UNCHANGED <<source, disk, stage>> /\ handle' \in {handle, Live}
  BY DEF OpenSource, Copied
<1>5. CaptureOK'
  BY <1>1, <1>2, <1>3, <1>4 DEF IInv, CaptureOK, OpenSteps, CommitSteps, disk, Begins, Filed
<1> QED
  BY <1>3, <1>4, <1>5, CapChanges

LEMMA StatStep ==
  ASSUME IInv, StatAgain
  PROVE  IInv'
<1>1. cap.pc = "stat" /\ cap \in OpenCap
  BY CapFacts DEF StatAgain, OpenSteps, IInv
<1>2. cap' = [pc |-> "ledger", before |-> cap.before, epoch |-> cap.epoch,
              blocks |-> cap.blocks, after |-> Stat, stable |-> Stat = cap.before]
  BY DEF StatAgain
<1>3. Stat \in Stamp
  BY SourceFacts DEF IInv
<1>4. /\ cap' \in CommitCap /\ cap'.pc = "ledger"
      /\ cap'.epoch = cap.epoch /\ cap'.blocks = cap.blocks /\ cap'.before = cap.before
  BY <1>1, <1>2, <1>3 DEF OpenCap, CommitCap, CommitSteps
<1>5. UNCHANGED <<source, disk, stage>> /\ handle' = handle
  BY DEF StatAgain
<1>6. CaptureOK'
  BY <1>1, <1>4, <1>5 DEF IInv, CaptureOK, OpenSteps, CommitSteps, disk, Begins, Filed
<1> QED
  BY <1>4, <1>5, <1>6, CapChanges

-----------------------------------------------------------------------------
(* Steps that change the materialization.                                  *)

\* A step that changes the materialization, the block files and the capture.
LEMMA MatsChange ==
  ASSUME IInv, UNCHANGED <<source, ledger, overlay, state, stage>>,
         handle' \in {handle, Live}, mats' \in Seq(Blocks),
         parts \subseteq parts', parts' \subseteq Gen \X (1 .. MaxSize),
         cap' = Idle \/ cap' \in BoundaryCap \/ cap' \in OpenCap \/ cap' \in CommitCap,
         LedgerOK', CaptureOK'
  PROVE  IInv'
<1>1. TypesOK'
  BY DEF IInv, TypesOK, Gen, Size, Live, Entry, Blocks, Pointer,
     BoundaryCap, OpenCap, CommitCap, Stamp
<1>2. PointersOK'
  BY DEF IInv, PointersOK, Names
<1> QED
  BY <1>1, <1>2 DEF IInv

LEMMA ContinueStep ==
  ASSUME IInv, Continue
  PROVE  IInv'
<1> DEFINE e == Len(ledger)
           blocks == ledger[e].blocks
<1>1. /\ cap \in BoundaryCap /\ TypesOK /\ LedgerOK
      /\ ledger # <<>> /\ cap.before.size >= Len(blocks)
      /\ mats' = [mats EXCEPT ![e] = SubSeq(mats[e], 1, Len(blocks))]
      /\ cap' = [pc |-> "open", before |-> cap.before, epoch |-> e, blocks |-> blocks]
  BY CapFacts DEF Continue, Continues, IInv, Truncated, Epoch, Last
<1>2. e \in 1 .. Len(ledger) /\ e \in 1 .. Len(mats) /\ e \in Nat
  <2>1. ledger \in Seq(Entry)
    BY <1>1 DEF TypesOK
  <2>2. e \in Nat \ {0}
    BY <1>1, <2>1, EmptySeq
  <2> QED
    BY <1>1, <2>2 DEF LedgerOK
<1>3. blocks \in Blocks /\ mats[e] \in Blocks /\ mats \in Seq(Blocks)
  BY <1>1, <1>2, DiskFacts DEF TypesOK
<1>4. Begins(blocks, mats[e]) /\ Filed(blocks) /\ Len(blocks) \in 0 .. Len(mats[e])
  BY <1>1, <1>2, <1>3, BlocksFacts DEF LedgerOK, Begins
<1>5. SubSeq(mats[e], 1, Len(blocks)) = blocks
  <2> DEFINE cut == SubSeq(mats[e], 1, Len(blocks))
  <2>1. /\ mats[e] \in Seq(1 .. MaxChanges + 1) /\ blocks \in Seq(1 .. MaxChanges + 1)
        /\ Len(blocks) \in 0 .. Len(mats[e])
    BY <1>3, <1>4 DEF Blocks
  <2>2. /\ cut \in Seq(1 .. MaxChanges + 1) /\ Len(cut) = Len(blocks)
        /\ \A i \in 1 .. Len(blocks) : cut[i] = mats[e][i]
    <3> HIDE DEF blocks, e
    <3> QED
      BY <2>1, CutFacts
  <2>3. \A i \in 1 .. Len(cut) : cut[i] = blocks[i]
    BY <1>4, <2>2 DEF Begins
  <2> HIDE DEF cut, blocks
  <2> QED
    BY <2>1, <2>2, <2>3, SeqEqual DEF cut
<1> HIDE DEF blocks
<1>6. /\ mats' \in Seq(Blocks) /\ Len(mats') = Len(mats)
      /\ \A j \in 1 .. Len(mats) : mats'[j] = IF j = e THEN blocks ELSE mats[j]
  <2>1. mats' = [mats EXCEPT ![e] = blocks]
    BY <1>1, <1>5
  <2> QED
    BY <1>2, <1>3, <2>1, ExceptSeq
<1>7. UNCHANGED <<source, handle, ledger, parts, overlay, state, stage>>
  BY DEF Continue
<1>8. LedgerOK'
  <2>1. \A i \in 1 .. Len(ledger) : Begins(ledger[i].blocks, mats'[i])
    <3> SUFFICES ASSUME NEW i \in 1 .. Len(ledger)
                 PROVE  Begins(ledger[i].blocks, mats'[i])
      OBVIOUS
    <3>1. CASE i = e
      BY <1>2, <1>3, <1>6, <3>1, BlocksFacts DEF Begins, blocks
    <3>2. CASE i # e
      <4>1. i \in 1 .. Len(mats)
        BY <1>1, EpochFacts
      <4> QED
        BY <1>1, <1>6, <3>2, <4>1 DEF LedgerOK
    <3> QED
      BY <3>1, <3>2
  <2> QED
    BY <1>1, <1>6, <1>7, <2>1 DEF LedgerOK, Begins, Filed
<1>9. /\ cap' \in OpenCap /\ cap'.pc = "open" /\ cap'.epoch = e
      /\ cap'.blocks = blocks /\ cap'.before = cap.before
  BY <1>1, <1>2, <1>3 DEF BoundaryCap, OpenCap, OpenSteps, blocks
<1>10. Begins(blocks, blocks)
  BY <1>3, BlocksFacts DEF Begins
<1>11. CaptureOK'
  BY <1>1, <1>2, <1>4, <1>6, <1>7, <1>9, <1>10
     DEF CaptureOK, OpenSteps, CommitSteps, Begins, Filed, blocks
<1>12. parts \subseteq Gen \X (1 .. MaxSize)
  BY <1>1 DEF TypesOK
<1> QED
  BY <1>6, <1>7, <1>8, <1>9, <1>11, <1>12, MatsChange

LEMMA NewEpochStep ==
  ASSUME IInv, NewEpoch
  PROVE  IInv'
<1> DEFINE e == Len(ledger) + 1
           old == SubSeq(mats, 1, Len(ledger))
<1>1. /\ cap \in BoundaryCap /\ TypesOK /\ LedgerOK
      /\ mats' = Append(old, <<>>)
      /\ cap' = [pc |-> "open", before |-> cap.before, epoch |-> e, blocks |-> <<>>]
  BY CapFacts DEF NewEpoch, IInv, Epoch
<1>2. /\ Len(ledger) \in Nat /\ mats \in Seq(Blocks) /\ Len(ledger) \in 0 .. Len(mats)
      /\ <<>> \in Blocks /\ Len(<<>>) = 0
  BY <1>1, DiskFacts, EmptySeq DEF TypesOK, LedgerOK, Blocks
<1>3. /\ old \in Seq(Blocks) /\ Len(old) = Len(ledger)
      /\ \A i \in 1 .. Len(ledger) : old[i] = mats[i]
  BY <1>2, CutFacts
<1> HIDE DEF old
<1>4. /\ mats' \in Seq(Blocks) /\ Len(mats') = e
      /\ \A i \in 1 .. Len(ledger) : mats'[i] = mats[i]
      /\ mats'[e] = <<>>
  BY <1>1, <1>2, <1>3, AppendProperties
<1>5. UNCHANGED <<source, handle, ledger, parts, overlay, state, stage>>
  BY DEF NewEpoch
<1>6. LedgerOK'
  BY <1>1, <1>4, <1>5 DEF LedgerOK, Begins, Filed
<1>7. /\ cap' \in OpenCap /\ cap'.pc = "open" /\ cap'.epoch = e
      /\ cap'.blocks = <<>> /\ cap'.before = cap.before
  BY <1>1, <1>2 DEF BoundaryCap, OpenCap, OpenSteps
<1>8. cap.before.size \in Nat
  BY <1>1, Constants DEF BoundaryCap, Stamp, Size
<1>9. CaptureOK'
  BY <1>2, <1>4, <1>5, <1>7, <1>8 DEF CaptureOK, OpenSteps, CommitSteps, Filed
<1>10. parts \subseteq Gen \X (1 .. MaxSize)
  BY <1>1 DEF TypesOK
<1> QED
  BY <1>4, <1>5, <1>6, <1>7, <1>9, <1>10, MatsChange

LEMMA CopyBlockStep ==
  ASSUME IInv, CopyBlock
  PROVE  IInv'
<1> DEFINE e == cap.epoch
           gen == Readable.gen
           n == Len(cap.blocks) + 1
           blocks == Append(cap.blocks, gen)
<1>1. /\ cap \in OpenCap /\ cap.pc = "copy" /\ TypesOK /\ LedgerOK /\ CaptureOK
      /\ Len(cap.blocks) < cap.before.size
      /\ parts' = parts \union {<<gen, n>>}
      /\ mats' = [mats EXCEPT ![e] = Append(mats[e], gen)]
      /\ cap' = [cap EXCEPT !.blocks = blocks]
  BY CapFacts DEF CopyBlock, IInv, OpenSteps, Offset
<1>2. /\ e \in 1 .. Len(mats) /\ mats[e] = cap.blocks /\ cap.blocks \in Blocks
      /\ mats \in Seq(Blocks) /\ e \in {Len(ledger), Len(ledger) + 1}
      /\ Filed(cap.blocks)
      /\ e = Len(ledger) => Begins(ledger[e].blocks, cap.blocks)
  BY <1>1 DEF CaptureOK, OpenSteps, OpenCap, TypesOK
<1>3. gen \in Gen /\ Len(cap.blocks) \in Nat /\ cap.before.size \in Size
  BY <1>1, <1>2, SourceFacts, BlocksFacts DEF OpenCap, Stamp
<1>4. /\ blocks \in Blocks /\ Len(blocks) = n
      /\ \A i \in 1 .. Len(cap.blocks) : blocks[i] = cap.blocks[i]
      /\ blocks[n] = gen
  <2> HIDE DEF gen
  <2> QED
    BY <1>2, <1>3, AppendProperties DEF Blocks, Gen
<1>5. n \in 1 .. MaxSize /\ n <= cap.before.size
  BY <1>1, <1>3, Constants DEF Size
<1> HIDE DEF gen, blocks
<1>6. /\ mats' \in Seq(Blocks) /\ Len(mats') = Len(mats)
      /\ \A j \in 1 .. Len(mats) : mats'[j] = IF j = e THEN blocks ELSE mats[j]
  <2>1. mats' = [mats EXCEPT ![e] = blocks]
    BY <1>1, <1>2 DEF blocks
  <2> QED
    BY <1>2, <1>4, <2>1, ExceptSeq
<1>7. UNCHANGED <<source, handle, ledger, overlay, state, stage>>
  BY DEF CopyBlock
<1>8. \A s : Filed(s) => \A i \in 1 .. Len(s) : <<s[i], i>> \in parts'
  BY <1>1 DEF Filed
<1>9. \A s \in Blocks : Begins(s, cap.blocks) => Begins(s, blocks)
  BY <1>3, <1>4, BlocksFacts DEF Begins
<1>10. LedgerOK'
  <2>1. \A i \in 1 .. Len(ledger) : Begins(ledger[i].blocks, mats'[i])
    <3> SUFFICES ASSUME NEW i \in 1 .. Len(ledger)
                 PROVE  Begins(ledger[i].blocks, mats'[i])
      OBVIOUS
    <3>1. i \in 1 .. Len(mats) /\ ledger[i].blocks \in Blocks
      BY <1>1, EpochFacts
    <3>2. CASE i = e
      BY <1>1, <1>2, <1>6, <1>9, <3>1, <3>2 DEF LedgerOK
    <3>3. CASE i # e
      BY <1>1, <1>6, <3>1, <3>3 DEF LedgerOK
    <3> QED
      BY <3>2, <3>3
  <2> QED
    BY <1>1, <1>6, <1>7, <1>8, <2>1 DEF LedgerOK, Begins, Filed
<1>11. /\ cap' \in OpenCap /\ cap'.pc = "copy" /\ cap'.epoch = e
       /\ cap'.blocks = blocks /\ cap'.before = cap.before
  BY <1>1, <1>4 DEF OpenCap
<1>12. \A i \in 1 .. Len(blocks) : <<blocks[i], i>> \in parts'
  <2> SUFFICES ASSUME NEW i \in 1 .. Len(blocks)
               PROVE  <<blocks[i], i>> \in parts'
    OBVIOUS
  <2>1. CASE i = n
    BY <1>1, <1>4, <2>1
  <2>2. CASE i # n
    <3>1. i \in 1 .. Len(cap.blocks)
      BY <1>3, <1>4, <2>2
    <3> QED
      BY <1>2, <1>4, <1>8, <3>1
  <2> QED
    BY <2>1, <2>2
<1>13. e = Len(ledger) => Begins(ledger[e].blocks, blocks)
  <2>1. e = Len(ledger) => ledger[e].blocks \in Blocks
    BY <1>1, <1>2, DiskFacts
  <2> QED
    BY <1>2, <1>9, <2>1
<1>14. CaptureOK'
  BY <1>2, <1>4, <1>5, <1>6, <1>7, <1>11, <1>12, <1>13
     DEF CaptureOK, OpenSteps, CommitSteps, Begins, Filed
<1>15. parts \subseteq parts' /\ parts' \subseteq Gen \X (1 .. MaxSize)
  BY <1>1, <1>3, <1>5 DEF TypesOK, gen
<1> QED
  BY <1>6, <1>7, <1>10, <1>11, <1>14, <1>15, MatsChange

-----------------------------------------------------------------------------
(* The commit of the ledger, and the pointers.                             *)

\* What a step may do to the committed epochs.
Grows ==
    /\ Len(ledger) <= Len(ledger')
    /\ \A e \in 1 .. Len(ledger) :
         /\ Begins(ledger[e].blocks, ledger'[e].blocks)
         /\ e < Len(ledger) => ledger'[e] = ledger[e]

LEMMA CommitChanges ==
  ASSUME IInv, CommitLedger
  PROVE  /\ ledger' \in Seq(Entry) /\ Len(ledger') = cap.epoch
         /\ \A e \in 1 .. cap.epoch - 1 : ledger'[e] = ledger[e]
         /\ ledger'[cap.epoch] = [ino |-> cap.before.ino, blocks |-> cap.blocks]
         /\ cap.epoch \in Nat \ {0} /\ Grows
<1> DEFINE e == cap.epoch
           entry == [ino |-> cap.before.ino, blocks |-> cap.blocks]
<1>1. /\ cap \in CommitCap /\ cap.pc = "ledger" /\ TypesOK /\ LedgerOK /\ CaptureOK
      /\ ledger' = SubSeq(ledger, 1, e - 1) \o <<entry>>
  BY CapFacts DEF CommitLedger, IInv, CommitSteps
<1>2. /\ Len(ledger) \in Nat /\ ledger \in Seq(Entry) /\ entry \in Entry
      /\ e \in {Len(ledger), Len(ledger) + 1} /\ e \in Nat \ {0}
  <2>1. entry \in Entry
    BY <1>1 DEF CommitCap, Stamp, Entry
  <2>2. Len(mats) \in Nat /\ Len(ledger) \in Nat /\ ledger \in Seq(Entry)
    BY <1>1, DiskFacts DEF TypesOK
  <2>3. e \in 1 .. Len(mats) /\ e \in {Len(ledger), Len(ledger) + 1}
    BY <1>1 DEF CaptureOK, OpenSteps, CommitSteps
  <2> HIDE DEF e
  <2> QED
    BY <2>1, <2>2, <2>3
<1>3. e \in 1 .. Len(ledger) + 1
  <2> HIDE DEF e
  <2> QED
    BY <1>2
<1>4. /\ ledger' \in Seq(Entry) /\ Len(ledger') = e
      /\ \A i \in 1 .. e - 1 : ledger'[i] = ledger[i]
      /\ ledger'[e] = entry
  <2> HIDE DEF e, entry
  <2> QED
    BY <1>1, <1>2, <1>3, CommitFacts
<1>5. Grows
  <2>1. Len(ledger) <= Len(ledger')
    <3> HIDE DEF e
    <3> QED
      BY <1>2, <1>4
  <2> SUFFICES ASSUME NEW i \in 1 .. Len(ledger)
               PROVE  /\ Begins(ledger[i].blocks, ledger'[i].blocks)
                      /\ i < Len(ledger) => ledger'[i] = ledger[i]
    BY <2>1 DEF Grows
  <2>2. ledger[i].blocks \in Blocks
    BY <1>1, EpochFacts
  <2>3. CASE i = e
    <3>1. e = Len(ledger)
      <4> HIDE DEF e
      <4> QED
        BY <1>2, <2>3
    <3>2. ledger'[i].blocks = cap.blocks
      BY <1>4, <2>3
    <3> QED
      BY <1>1, <1>2, <2>3, <3>1, <3>2 DEF CaptureOK
  <2>4. CASE i # e
    <3>1. ledger'[i] = ledger[i]
      <4> HIDE DEF e
      <4> QED
        BY <1>2, <1>4, <2>4
    <3> QED
      BY <2>2, <3>1, BlocksFacts DEF Begins
  <2> QED
    BY <2>3, <2>4
<1> QED
  BY <1>2, <1>4, <1>5

\* What is named stays named when the ledger grows and the overlay stays.
LEMMA NamesStay ==
  ASSUME TypesOK, Grows, UNCHANGED overlay, ledger' \in Seq(Entry),
         NEW p, p.epoch \in Nat, p.n \in Nat, Names(p)
  PROVE  p.epoch # 0 => /\ p.epoch <= Len(ledger')
                        /\ p.n <= Len(ledger'[p.epoch].blocks)
                        /\ p.epoch <= overlay'.epoch
                        /\ p.epoch = overlay'.epoch => p.n <= overlay'.n
<1> SUFFICES ASSUME p.epoch # 0
             PROVE  /\ p.epoch <= Len(ledger')
                    /\ p.n <= Len(ledger'[p.epoch].blocks)
                    /\ p.epoch <= overlay'.epoch
                    /\ p.epoch = overlay'.epoch => p.n <= overlay'.n
  OBVIOUS
<1> DEFINE e == p.epoch
           n == p.n
<1>1. /\ e \in Nat /\ e # 0 /\ n \in Nat /\ e <= Len(ledger) /\ n <= Len(ledger[e].blocks)
      /\ e <= overlay.epoch /\ (e = overlay.epoch => n <= overlay.n)
  BY DEF Names
<1>2. Len(ledger) \in Nat /\ Len(ledger') \in Nat /\ Len(ledger) <= Len(ledger')
  BY DiskFacts, LenProperties DEF Grows
<1> HIDE DEF e, n
<1>3. e \in 1 .. Len(ledger) /\ e \in 1 .. Len(ledger')
  BY <1>1, <1>2
<1>4. Begins(ledger[e].blocks, ledger'[e].blocks)
  BY <1>3 DEF Grows
<1>5. ledger[e].blocks \in Blocks /\ ledger'[e].blocks \in Blocks
  <2>1. ledger'[e] \in Entry
    BY <1>3, ElementOfSeq
  <2> QED
    BY <1>3, <2>1, DiskFacts DEF Entry
<1>6. n <= Len(ledger'[e].blocks)
  BY <1>1, <1>4, <1>5, BlocksFacts DEF Begins
<1>7. e <= Len(ledger')
  BY <1>2, <1>3
<1> QED
  BY <1>1, <1>6, <1>7 DEF e, n

LEMMA PointerFacts ==
  ASSUME TypesOK
  PROVE  /\ overlay.epoch \in Nat /\ overlay.n \in Nat
         /\ state.epoch \in Nat /\ state.n \in Nat
         /\ stage.epoch \in Nat /\ stage.n \in Nat
BY Constants DEF TypesOK, Pointer, Size

LEMMA CommitStep ==
  ASSUME IInv, CommitLedger
  PROVE  IInv'
<1> DEFINE e == cap.epoch
<1>1. /\ cap \in CommitCap /\ cap.pc = "ledger"
      /\ TypesOK /\ LedgerOK /\ CaptureOK /\ PointersOK
      /\ cap' = [cap EXCEPT !.pc = "overlay"]
  BY CapFacts DEF CommitLedger, IInv, CommitSteps
<1>2. /\ ledger' \in Seq(Entry) /\ Len(ledger') = e
      /\ \A i \in 1 .. e - 1 : ledger'[i] = ledger[i]
      /\ ledger'[e].blocks = cap.blocks
      /\ e \in Nat \ {0} /\ Grows
  BY CommitChanges
<1>3. UNCHANGED <<source, handle, mats, parts, overlay, state, stage>>
  BY DEF CommitLedger
<1>4. /\ cap' \in CommitCap /\ cap'.pc = "overlay" /\ cap'.epoch = e
      /\ cap'.blocks = cap.blocks /\ cap'.before = cap.before
  BY <1>1 DEF CommitCap, CommitSteps
<1>5. TypesOK'
  BY <1>1, <1>2, <1>3, <1>4 DEF TypesOK, Gen, Size, Live, Entry, Blocks, Pointer,
     BoundaryCap, OpenCap, CommitCap, Stamp
<1>6. /\ e \in {Len(ledger), Len(ledger) + 1} /\ e \in 1 .. Len(mats)
      /\ mats[e] = cap.blocks /\ Filed(cap.blocks) /\ cap.blocks \in Blocks
      /\ Len(cap.blocks) <= cap.before.size
  BY <1>1 DEF CaptureOK, OpenSteps, CommitSteps, CommitCap
<1>7. Len(ledger) \in Nat /\ Len(mats) \in Nat /\ Len(mats) \in {Len(ledger), Len(ledger) + 1}
  BY <1>1, DiskFacts DEF LedgerOK
<1> HIDE DEF e
<1>8. LedgerOK'
  <2>1. Len(mats) \in {e, e + 1}
    BY <1>6, <1>7
  <2>2. ASSUME NEW i \in 1 .. e
        PROVE  Begins(ledger'[i].blocks, mats[i]) /\ Filed(ledger'[i].blocks)
    <3>1. CASE i = e
      BY <1>2, <1>6, <3>1, BlocksFacts DEF Begins
    <3>2. CASE i # e
      <4>1. i \in 1 .. Len(ledger) /\ ledger'[i] = ledger[i]
        BY <1>2, <1>6, <1>7, <3>2
      <4> QED
        BY <1>1, <4>1, EpochFacts
    <3> QED
      BY <3>1, <3>2
  <2> QED
    BY <1>2, <1>3, <2>1, <2>2 DEF LedgerOK, Begins, Filed
<1>9. CaptureOK'
  BY <1>2, <1>3, <1>4, <1>6 DEF CaptureOK, OpenSteps, CommitSteps
<1>10. PointersOK'
  BY <1>1, <1>2, <1>3, PointerFacts, NamesStay DEF PointersOK, Names
<1> QED
  BY <1>5, <1>8, <1>9, <1>10 DEF IInv

\* What a capture writes pointers to.
LEMMA CommittedFacts ==
  ASSUME IInv, cap.pc \in {"overlay", "state", "receipt"}
  PROVE  /\ cap \in CommitCap /\ cap.epoch \in Nat \ {0} /\ cap.epoch = Len(ledger)
         /\ cap.blocks \in Blocks /\ ledger[cap.epoch].blocks = cap.blocks
         /\ Len(cap.blocks) \in Nat /\ Len(cap.blocks) \in Size
<1>1. cap \in CommitCap /\ TypesOK /\ CaptureOK
  BY CapFacts DEF IInv, CommitSteps
<1>2. /\ cap.epoch \in 1 .. Len(mats) /\ cap.epoch = Len(ledger)
      /\ ledger[cap.epoch].blocks = cap.blocks /\ Len(cap.blocks) <= cap.before.size
  BY <1>1 DEF CaptureOK, CommitSteps
<1>3. cap.blocks \in Blocks /\ cap.before.size \in Size
  BY <1>1 DEF CommitCap, Stamp
<1>4. cap.epoch \in Nat \ {0}
  BY <1>1, <1>2, DiskFacts
<1>5. Len(cap.blocks) \in Nat
  BY <1>3, BlocksFacts
<1>6. Len(cap.blocks) \in Size
  BY <1>2, <1>3, <1>5, Constants DEF Size
<1> QED
  BY <1>1, <1>2, <1>3, <1>4, <1>5, <1>6

LEMMA OverlayStep ==
  ASSUME IInv, WriteOverlay
  PROVE  IInv'
<1>1. /\ cap.pc = "overlay" /\ cap \in CommitCap /\ cap.epoch \in Nat \ {0}
      /\ cap.epoch = Len(ledger) /\ ledger[cap.epoch].blocks = cap.blocks
      /\ Len(cap.blocks) \in Nat /\ Len(cap.blocks) \in Size
      /\ TypesOK /\ LedgerOK /\ CaptureOK /\ PointersOK
  BY CommittedFacts DEF WriteOverlay, IInv
<1>2. /\ overlay' = [epoch |-> cap.epoch, n |-> Len(cap.blocks)]
      /\ cap' = [cap EXCEPT !.pc = "state"]
      /\ UNCHANGED <<source, handle, ledger, mats, parts, state, stage>>
  BY DEF WriteOverlay
<1>3. /\ cap' \in CommitCap /\ cap'.pc = "state" /\ cap'.epoch = cap.epoch
      /\ cap'.blocks = cap.blocks /\ cap'.before = cap.before
  BY <1>1, <1>2 DEF CommitCap, CommitSteps
<1>4. TypesOK'
  BY <1>1, <1>2, <1>3 DEF TypesOK, Gen, Size, Live, Entry, Blocks, Pointer,
     BoundaryCap, OpenCap, CommitCap, Stamp
<1>5. LedgerOK'
  BY <1>1, <1>2 DEF LedgerOK, Begins, Filed
<1>6. CaptureOK'
  BY <1>1, <1>2, <1>3 DEF CaptureOK, OpenSteps, CommitSteps
<1>7. PointersOK'
  <2>1. overlay'.epoch = cap.epoch /\ overlay'.n = Len(cap.blocks)
    BY <1>2
  <2>2. Names(overlay)'
    BY <1>1, <1>2, <2>1 DEF Names
  <2>3. Names(state)' /\ Names(stage)'
    BY <1>1, <1>2, <2>1, PointerFacts DEF PointersOK, Names
  <2> QED
    BY <2>2, <2>3 DEF PointersOK
<1> QED
  BY <1>4, <1>5, <1>6, <1>7 DEF IInv

\* The capture state is written, with or without its receipt.
LEMMA StateSteps ==
  ASSUME IInv, WriteState \/ WriteReceipt
  PROVE  IInv'
<1>1. /\ cap.pc \in {"state", "receipt"} /\ cap \in CommitCap /\ cap.epoch \in Nat \ {0}
      /\ cap.epoch = Len(ledger) /\ ledger[cap.epoch].blocks = cap.blocks
      /\ Len(cap.blocks) \in Nat /\ Len(cap.blocks) \in Size
      /\ TypesOK /\ LedgerOK /\ CaptureOK /\ PointersOK
      /\ overlay.epoch = cap.epoch /\ overlay.n = Len(cap.blocks)
  BY CommittedFacts DEF WriteState, WriteReceipt, IInv, CaptureOK
<1>2. /\ \E receipt \in BOOLEAN : state' = CaptureState(receipt)
      /\ UNCHANGED <<source, handle, ledger, mats, parts, overlay, stage>>
  BY DEF WriteState, WriteReceipt
<1>3. \/ cap' = Idle
      \/ /\ cap' \in CommitCap /\ cap'.pc = "receipt" /\ cap'.epoch = cap.epoch
         /\ cap'.blocks = cap.blocks /\ cap'.before = cap.before
  BY <1>1 DEF WriteState, WriteReceipt, CommitCap, CommitSteps
<1>4. state' \in Pointer /\ state'.epoch = cap.epoch /\ state'.n = Len(cap.blocks)
  <2>1. /\ cap.after.size \in 0 .. MaxSize /\ cap.stable \in BOOLEAN
        /\ cap.after.mtime \in 0 .. MaxChanges + 1
    BY <1>1, Constants DEF CommitCap, Stamp, Size, Gen
  <2> QED
    BY <1>1, <1>2, <2>1 DEF CaptureState, Pointer, Size
<1>5. TypesOK'
  BY <1>1, <1>2, <1>3, <1>4 DEF TypesOK, Gen, Size, Live, Entry, Blocks, Pointer,
     BoundaryCap, OpenCap, CommitCap, Stamp
<1>6. LedgerOK'
  BY <1>1, <1>2 DEF LedgerOK, Begins, Filed
<1>7. CaptureOK'
  <2>1. CASE cap' = Idle
    BY <2>1, GivenUp
  <2>2. CASE cap' # Idle
    BY <1>1, <1>2, <1>3, <2>2 DEF CaptureOK, OpenSteps, CommitSteps
  <2> QED
    BY <2>1, <2>2
<1>8. PointersOK'
  <2>1. Names(overlay)' /\ Names(stage)'
    BY <1>1, <1>2 DEF PointersOK, Names
  <2>2. Names(state)'
    BY <1>1, <1>2, <1>4 DEF Names
  <2> QED
    BY <2>1, <2>2 DEF PointersOK
<1> QED
  BY <1>5, <1>6, <1>7, <1>8 DEF IInv

-----------------------------------------------------------------------------
(* Captures that die, and publications.                                    *)

LEMMA CrashStep ==
  ASSUME IInv, Crash
  PROVE  IInv'
<1>1. /\ cap' = Idle /\ handle' = Live /\ CaptureOK'
      /\ UNCHANGED <<source, ledger, parts, overlay, state, stage>>
  BY GivenUp DEF Crash
<1>2. TypesOK /\ LedgerOK /\ CaptureOK /\ Len(ledger) \in Nat /\ Len(mats) \in Nat
  BY DiskFacts DEF IInv
<1>3. CASE UNCHANGED mats
  BY <1>1, <1>2, <1>3, CapChanges DEF disk
<1>4. CASE ~ UNCHANGED mats
  <2> DEFINE e == cap.epoch
  <2>1. /\ cap.pc = "copy"
        /\ \E n \in 0 .. Len(mats[e]) :
             /\ e <= Len(ledger) => n >= Len(ledger[e].blocks)
             /\ mats' = [mats EXCEPT ![e] = SubSeq(mats[e], 1, n)]
    BY <1>4 DEF Crash
  <2>2. /\ e \in 1 .. Len(mats) /\ e \in Nat /\ mats \in Seq(Blocks) /\ mats[e] \in Blocks
    BY <1>2, <2>1, DiskFacts DEF CaptureOK, OpenSteps, TypesOK
  <2>3. PICK n \in 0 .. Len(mats[e]) :
             /\ e <= Len(ledger) => n >= Len(ledger[e].blocks)
             /\ mats' = [mats EXCEPT ![e] = SubSeq(mats[e], 1, n)]
    BY <2>1
  <2> DEFINE cut == SubSeq(mats[e], 1, n)
  <2>4. cut \in Blocks /\ Len(cut) = n /\ \A i \in 1 .. n : cut[i] = mats[e][i]
    <3> HIDE DEF e
    <3> QED
      BY <2>2, CutFacts DEF Blocks
  <2> HIDE DEF e, cut
  <2>5. /\ mats' \in Seq(Blocks) /\ Len(mats') = Len(mats)
        /\ \A j \in 1 .. Len(mats) : mats'[j] = IF j = e THEN cut ELSE mats[j]
    <3>1. mats' = [mats EXCEPT ![e] = cut]
      BY <2>3 DEF cut
    <3> QED
      BY <2>2, <2>4, <3>1, ExceptSeq
  <2>6. ASSUME NEW i \in 1 .. Len(ledger)
        PROVE  Begins(ledger[i].blocks, mats'[i])
    <3>1. /\ i \in 1 .. Len(mats) /\ ledger[i].blocks \in Blocks
          /\ Begins(ledger[i].blocks, mats[i])
      BY <1>2, EpochFacts
    <3>2. CASE i = e
      <4>1. /\ mats'[i] = cut /\ n \in Nat /\ n >= Len(ledger[i].blocks)
            /\ Len(ledger[i].blocks) \in Nat
        <5>1. Len(mats[e]) \in Nat /\ Len(ledger[i].blocks) \in Nat
          BY <2>2, <3>1, BlocksFacts
        <5>2. e <= Len(ledger) /\ mats'[i] = cut
          BY <1>2, <2>5, <3>1, <3>2
        <5>3. n >= Len(ledger[i].blocks)
          BY <2>3, <3>2, <5>2
        <5> QED
          BY <5>1, <5>2, <5>3
      <4>2. \A k \in 1 .. Len(ledger[i].blocks) : k \in 1 .. n
        BY <4>1
      <4> QED
        BY <2>4, <3>1, <3>2, <4>1, <4>2 DEF Begins
    <3>3. CASE i # e
      BY <2>5, <3>1, <3>3
    <3> QED
      BY <3>2, <3>3
  <2>7. LedgerOK'
    BY <1>1, <1>2, <2>5, <2>6 DEF LedgerOK, Begins, Filed
  <2>8. parts \subseteq parts' /\ parts' \subseteq Gen \X (1 .. MaxSize)
    BY <1>1, <1>2 DEF TypesOK
  <2> QED
    BY <1>1, <2>5, <2>7, <2>8, MatsChange
<1> QED
  BY <1>3, <1>4

LEMMA BuildStep ==
  ASSUME IInv, Build
  PROVE  IInv'
<1>1. /\ UNCHANGED <<source, handle, ledger, mats, parts, overlay, state, cap>>
      /\ \/ stage' = [epoch |-> 0, n |-> source.size, size |-> source.size,
                      mtime |-> source.mtime, stable |-> TRUE, receipt |-> FALSE]
         \/ stage' = [state EXCEPT !.receipt = FALSE]
  BY DEF Build, disk
<1>2. TypesOK /\ LedgerOK /\ CaptureOK /\ PointersOK
  BY DEF IInv
<1>3. /\ source.size \in 0 .. MaxSize /\ source.mtime \in 0 .. MaxChanges + 1
      /\ state \in Pointer
  BY <1>2, Constants DEF TypesOK, Size, Gen
<1>4. /\ stage' \in Pointer
      /\ stage'.epoch = 0 \/ (stage'.epoch = state.epoch /\ stage'.n = state.n)
  <2> DEFINE Time == 0 .. MaxChanges + 1
  <2>1. /\ source.mtime \in Time
        /\ Pointer = [epoch : Nat, n : 0 .. MaxSize, size : 0 .. MaxSize,
                      mtime : Time, stable : BOOLEAN, receipt : BOOLEAN]
    BY <1>3 DEF Pointer
  <2>2. CASE stage' = [state EXCEPT !.receipt = FALSE]
    <3> HIDE DEF Time
    <3> QED
      BY <1>3, <2>1, <2>2
  <2>3. CASE stage' = [epoch |-> 0, n |-> source.size, size |-> source.size,
                       mtime |-> source.mtime, stable |-> TRUE, receipt |-> FALSE]
    <3> HIDE DEF Time
    <3> QED
      BY <1>3, <2>1, <2>3
  <2> QED
    BY <1>1, <2>2, <2>3
<1>5. TypesOK'
  BY <1>1, <1>2, <1>4 DEF TypesOK, Gen, Size, Live, Entry, Blocks, Pointer,
     BoundaryCap, OpenCap, CommitCap, Stamp
<1>6. LedgerOK' /\ CaptureOK'
  BY <1>1, <1>2 DEF LedgerOK, CaptureOK, Begins, Filed
<1>7. PointersOK'
  BY <1>1, <1>2, <1>4 DEF PointersOK, Names
<1> QED
  BY <1>5, <1>6, <1>7 DEF IInv

LEMMA PublishStep ==
  ASSUME IInv, Publish
  PROVE  IInv'
<1>1. /\ UNCHANGED <<source, handle, ledger, mats, parts, overlay, cap>>
      /\ state' = stage /\ stage' = NoStage
  BY DEF Publish
<1>2. TypesOK /\ LedgerOK /\ CaptureOK /\ PointersOK
  BY DEF IInv
<1>3. stage' \in Pointer /\ stage'.epoch = 0
  BY <1>1, Constants DEF NoStage, Pointer
<1>4. TypesOK'
  BY <1>1, <1>2, <1>3 DEF TypesOK, Gen, Size, Live, Entry, Blocks, Pointer,
     BoundaryCap, OpenCap, CommitCap, Stamp
<1>5. LedgerOK' /\ CaptureOK'
  BY <1>1, <1>2 DEF LedgerOK, CaptureOK, Begins, Filed
<1>6. PointersOK'
  BY <1>1, <1>2, <1>3 DEF PointersOK, Names
<1> QED
  BY <1>4, <1>5, <1>6 DEF IInv

-----------------------------------------------------------------------------
(* The invariant.                                                          *)

LEMMA InitOK == Init => IInv
<1> SUFFICES ASSUME Init PROVE IInv
  OBVIOUS
<1>1. PICK n \in 0 .. MaxSize : source = [ino |-> 1, gen |-> 1, size |-> n, mtime |-> 1]
  BY DEF Init
<1>2. 1 \in Gen /\ 0 \in Size /\ 0 \in 0 .. MaxChanges + 1
  BY Constants DEF Gen, Size
<1>3. /\ source \in [ino : Gen, gen : Gen, size : Size, mtime : Gen]
      /\ source.ino <= source.mtime /\ source.gen <= source.mtime
  BY <1>1, <1>2 DEF Size
<1>4. NoStage \in Pointer
  BY <1>2 DEF NoStage, Pointer, Size
<1>5. ledger = <<>> /\ mats = <<>> /\ Len(ledger) = 0 /\ Len(mats) = 0
  BY EmptySeq DEF Init
<1>6. ledger \in Seq(Entry) /\ mats \in Seq(Blocks)
  BY <1>5, EmptySeq
<1>7. TypesOK
  BY <1>2, <1>3, <1>4, <1>6 DEF Init, TypesOK
<1>8. LedgerOK
  BY <1>5 DEF LedgerOK
<1>9. CaptureOK
  BY DEF Init, CaptureOK, Idle, OpenSteps, CommitSteps
<1>10. PointersOK
  BY DEF Init, PointersOK, Names, NoStage
<1> QED
  BY <1>7, <1>8, <1>9, <1>10 DEF IInv

LEMMA StepOK == IInv /\ [Next]_vars => IInv'
<1> SUFFICES ASSUME IInv, [Next]_vars PROVE IInv'
  OBVIOUS
<1>1. CASE Grow \/ Replace \/ Rewrite
  BY <1>1, SourceSteps
<1>2. CASE Hook \/ Watch
  BY <1>2, BeginStep DEF Hook, Watch
<1>3. CASE Capture
  <2>1. CASE Continue
    BY <2>1, ContinueStep
  <2>2. CASE NewEpoch
    BY <2>2, NewEpochStep
  <2>3. CASE NothingToCapture \/ ShortRead
    BY <2>3, EndSteps
  <2>4. CASE OpenSource \/ Copied
    BY <2>4, OpenAndCopied
  <2>5. CASE CopyBlock
    BY <2>5, CopyBlockStep
  <2>6. CASE StatAgain
    BY <2>6, StatStep
  <2>7. CASE CommitLedger
    BY <2>7, CommitStep
  <2>8. CASE WriteOverlay
    BY <2>8, OverlayStep
  <2>9. CASE WriteState \/ WriteReceipt
    BY <2>9, StateSteps
  <2> QED
    BY <1>3, <2>1, <2>2, <2>3, <2>4, <2>5, <2>6, <2>7, <2>8, <2>9 DEF Capture
<1>4. CASE Crash
  BY <1>4, CrashStep
<1>5. CASE Build
  BY <1>5, BuildStep
<1>6. CASE Publish
  BY <1>6, PublishStep
<1>7. CASE UNCHANGED vars
  <2>1. TypesOK'
    BY <1>7 DEF IInv, TypesOK, vars, disk, Gen, Size, Live, Entry, Blocks, Pointer,
       BoundaryCap, OpenCap, CommitCap, Stamp
  <2> QED
    BY <1>7, <2>1, SourceChanges DEF vars
<1> QED
  BY <1>1, <1>2, <1>3, <1>4, <1>5, <1>6, <1>7 DEF Next

\* Ledger, materialization, block files and pointers fit together at every
\* step of a capture, whatever died before it.
THEOREM Invariant == Spec => []IInv
<1> QED
  BY InitOK, StepOK, PTL DEF Spec

\* The variables have their types, and a capture works on the current epoch
\* or the one after it.
THEOREM TypeCorrect == Spec => []TypeOK
<1>1. IInv => TypeOK
  <2> SUFFICES ASSUME IInv PROVE TypeOK
    OBVIOUS
  <2>1. TypesOK /\ LedgerOK /\ CaptureOK
    BY DEF IInv
  <2>2. /\ source.size \in 0 .. MaxSize
        /\ {source.ino, source.gen, source.mtime} \subseteq 1 .. MaxChanges + 1
    BY <2>1 DEF TypesOK, Gen, Size
  <2>3. /\ \A e \in DOMAIN ledger : ledger[e].blocks \in Blocks
        /\ \A e \in DOMAIN mats : mats[e] \in Blocks
        /\ Len(mats) \in {Len(ledger), Len(ledger) + 1}
    BY <2>1, DiskFacts DEF LedgerOK
  <2>4. /\ parts \subseteq (1 .. MaxChanges + 1) \X (1 .. MaxSize)
        /\ {state, stage} \subseteq Pointer
    BY <2>1 DEF TypesOK, Gen
  <2>5. cap.pc \in {"idle", "boundary"} \union OpenSteps \union CommitSteps
    BY <2>1 DEF TypesOK, Idle, BoundaryCap, OpenCap, CommitCap
  <2>6. cap.pc \notin {"idle", "boundary"} =>
          cap.epoch \in {Len(ledger), Len(ledger) + 1} \ {0}
    <3> SUFFICES ASSUME cap.pc \notin {"idle", "boundary"}
                 PROVE  cap.epoch \in {Len(ledger), Len(ledger) + 1} \ {0}
      OBVIOUS
    <3>1. /\ cap.epoch \in {Len(ledger), Len(ledger) + 1}
          /\ cap.epoch \in 1 .. Len(mats)
      BY <2>1, <2>5 DEF CaptureOK
    <3> QED
      BY <3>1
  <2> QED
    BY <2>2, <2>3, <2>4, <2>5, <2>6 DEF TypeOK, OpenSteps, CommitSteps
<1> QED
  BY <1>1, Invariant, PTL

\* Whatever a capture died of, every committed block is in the epoch's
\* materialization, at its place, and in a block file of its own.
THEOREM LedgerBacked == Spec => []LedgerIsBacked
<1>1. IInv => LedgerIsBacked
  <2> SUFFICES ASSUME IInv PROVE LedgerIsBacked
    OBVIOUS
  <2>1. TypesOK /\ LedgerOK /\ DOMAIN ledger = 1 .. Len(ledger)
    BY DiskFacts DEF IInv
  <2> SUFFICES ASSUME NEW e \in DOMAIN ledger
               PROVE  /\ IsPrefix(ledger[e].blocks, mats[e])
                      /\ \A i \in DOMAIN ledger[e].blocks : <<ledger[e].blocks[i], i>> \in parts
    BY DEF LedgerIsBacked
  <2>2. /\ ledger[e].blocks \in Blocks /\ mats[e] \in Blocks
        /\ Begins(ledger[e].blocks, mats[e]) /\ Filed(ledger[e].blocks)
    BY <2>1, EpochFacts
  <2>3. DOMAIN ledger[e].blocks = 1 .. Len(ledger[e].blocks)
    BY <2>2, LenProperties DEF Blocks
  <2>4. IsPrefix(ledger[e].blocks, mats[e])
    BY <2>2, PrefixFacts DEF Blocks
  <2> QED
    BY <2>2, <2>3, <2>4 DEF Filed
<1> QED
  BY <1>1, Invariant, PTL

\* The overlay never points past the ledger, nor the capture state past
\* either, whichever writer wrote it last.
THEOREM PointersBacked == Spec => []PointersAreBacked
<1>1. IInv => PointersAreBacked
  BY DEF IInv, PointersOK, Names, PointersAreBacked
<1> QED
  BY <1>1, Invariant, PTL

\* What is committed stays: a superseded epoch is frozen, and the current one
\* changes at its end only.
THEOREM CommittedGrows == Spec => CommittedOnlyGrows
<1> DEFINE Committed == \A e \in DOMAIN ledger :
                          /\ e \in DOMAIN ledger'
                          /\ IsPrefix(ledger[e].blocks, ledger'[e].blocks)
                          /\ e < Len(ledger) => ledger'[e] = ledger[e]
<1>1. IInv /\ IInv' /\ [Next]_vars => [Committed]_vars
  <2> SUFFICES ASSUME IInv, IInv', [Next]_vars PROVE Committed
    OBVIOUS
  <2>1. /\ TypesOK /\ DOMAIN ledger = 1 .. Len(ledger) /\ Len(ledger) \in Nat
        /\ TypesOK' /\ ledger' \in Seq(Entry)
    BY DiskFacts DEF IInv, TypesOK
  <2>2. DOMAIN ledger' = 1 .. Len(ledger') /\ Len(ledger') \in Nat
    BY <2>1, LenProperties
  <2>3. Grows
    <3>1. CASE CommitLedger
      BY <3>1, CommitChanges
    <3>2. CASE UNCHANGED ledger
      <4>1. \A e \in 1 .. Len(ledger) : ledger[e].blocks \in Blocks
        BY <2>1, DiskFacts
      <4>2. \A e \in 1 .. Len(ledger) : Begins(ledger[e].blocks, ledger[e].blocks)
        BY <4>1, BlocksFacts DEF Begins
      <4> QED
        BY <2>1, <3>2, <4>2 DEF Grows
    <3>3. CommitLedger \/ UNCHANGED ledger
      BY DEF Next, Grow, Replace, Rewrite, Hook, Watch, Begin, Capture, Continue, NewEpoch,
         NothingToCapture, OpenSource, CopyBlock, ShortRead, Copied, StatAgain,
         WriteOverlay, WriteState, WriteReceipt, Crash, Build, Publish, vars, disk
    <3> QED
      BY <3>1, <3>2, <3>3
  <2> SUFFICES ASSUME NEW e \in DOMAIN ledger
               PROVE  /\ e \in DOMAIN ledger'
                      /\ IsPrefix(ledger[e].blocks, ledger'[e].blocks)
                      /\ e < Len(ledger) => ledger'[e] = ledger[e]
    OBVIOUS
  <2>4. e \in 1 .. Len(ledger) /\ e \in 1 .. Len(ledger')
    BY <2>1, <2>2, <2>3 DEF Grows
  <2>5. ledger[e].blocks \in Blocks /\ ledger'[e].blocks \in Blocks
    <3>1. ledger'[e] \in Entry
      BY <2>1, <2>4, ElementOfSeq
    <3> QED
      BY <2>1, <2>4, <3>1, DiskFacts DEF Entry
  <2>6. Begins(ledger[e].blocks, ledger'[e].blocks)
    BY <2>3, <2>4 DEF Grows
  <2>7. IsPrefix(ledger[e].blocks, ledger'[e].blocks)
    BY <2>5, <2>6, PrefixFacts DEF Blocks
  <2> QED
    BY <2>2, <2>3, <2>4, <2>7 DEF Grows
<1> QED
  BY <1>1, Invariant, PTL DEF Spec, CommittedOnlyGrows

-----------------------------------------------------------------------------
(* Stable captures.                                                        *)

\* Nobody rewrites the transcript in place while a capture copies it.
InPlaceIsQuiet == "rewrite" \notin Shakes

LEMMA InodesAreNumbers ==
  ASSUME IInv
  PROVE  source.ino \in Nat /\ (cap # Idle => cap.before.ino \in Nat)
BY CapFacts, Constants DEF IInv, TypesOK, Gen, Stamp

\* The ledger is as before, and so are the pointers.
LEMMA WholeStay ==
  ASSUME WritingOK, UNCHANGED <<ledger, state, stage>>
  PROVE  (Whole(state) /\ Whole(stage))'
BY DEF WritingOK, Whole, OneWriting

LEMMA LastStays ==
  ASSUME WritingOK, UNCHANGED <<ledger, source>>
  PROVE  (ledger # <<>> =>
           LET last == ledger[Len(ledger)]
           IN /\ last.ino <= source.ino
              /\ last.ino = source.ino => OneWriting(last.blocks, Len(last.blocks)))'
BY DEF WritingOK, OneWriting

LEMMA WritingSource ==
  ASSUME InPlaceIsQuiet, IInv, WritingOK, Grow \/ Replace \/ Rewrite
  PROVE  WritingOK'
<1>1. /\ source.ino \in Nat /\ (cap # Idle => cap.before.ino \in Nat)
      /\ (cap.pc # "idle" => cap # Idle)
      /\ ledger # <<>> => ledger[Len(ledger)].ino \in Nat
  <2>1. ledger # <<>> => ledger[Len(ledger)] \in Entry
    <3>1. ledger \in Seq(Entry)
      BY DEF IInv, TypesOK
    <3> QED
      BY <3>1, EmptySeq, LenProperties, ElementOfSeq
  <2>2. ledger # <<>> => ledger[Len(ledger)].ino \in Nat
    BY <2>1, Constants DEF Entry, Gen
  <2> QED
    BY <2>2, InodesAreNumbers DEF Idle
<1>2. UNCHANGED <<ledger, mats, parts, overlay, state, cap, stage>>
  BY DEF Grow, Replace, Rewrite, disk
<1>3. (Whole(state) /\ Whole(stage))'
  BY <1>2, WholeStay
<1>4. CASE Grow
  <2>1. source'.ino = source.ino /\ source'.gen = source.gen /\ handle' = handle
    BY <1>4 DEF Grow, IInv, TypesOK
  <2> QED
    BY <1>2, <1>3, <2>1 DEF WritingOK, OneWriting
<1>5. CASE Replace
  <2>1. source'.ino = source.ino + 1 /\ (cap.pc # "copy" => handle' = handle)
    BY <1>5 DEF Replace
  <2>2. source'.ino \in Nat /\ source.ino < source'.ino
    BY <1>1, <2>1
  <2>3. cap.pc # "idle" => cap.before.ino < source'.ino /\ cap.before.ino <= source'.ino
                           /\ cap.before.ino # source'.ino
    BY <1>1, <2>2 DEF WritingOK
  <2>4. ledger # <<>> => ledger[Len(ledger)].ino <= source'.ino
                         /\ ledger[Len(ledger)].ino # source'.ino
    BY <1>1, <2>2 DEF WritingOK
  <2> QED
    BY <1>2, <1>3, <2>1, <2>3, <2>4 DEF WritingOK, OneWriting, OpenSteps, CommitSteps
<1>6. CASE Rewrite
  <2>1. source'.ino = source.ino /\ handle' = handle /\ cap.pc \notin OpenSteps
    BY <1>6 DEF Rewrite, May, Copying, OpenSteps, InPlaceIsQuiet, IInv, TypesOK
  <2> QED
    BY <1>2, <1>3, <2>1 DEF WritingOK, OneWriting
<1> QED
  BY <1>4, <1>5, <1>6

LEMMA WritingBegin ==
  ASSUME IInv, WritingOK, Begin
  PROVE  WritingOK'
<1>1. /\ cap.pc = "idle" /\ cap'.pc = "boundary" /\ cap'.before.ino = source.ino
      /\ UNCHANGED <<source, handle, ledger, state, stage>>
  BY DEF Begin, Idle, Stat, disk
<1>2. source.ino <= source.ino
  BY InodesAreNumbers
<1> QED
  BY <1>1, <1>2, WholeStay, LastStays DEF WritingOK, OpenSteps, CommitSteps

\* The capture is over, or has died.
LEMMA WritingIdle ==
  ASSUME WritingOK, cap' = Idle, handle' = Live, UNCHANGED <<source, ledger, state, stage>>
  PROVE  WritingOK'
<1>1. cap'.pc = "idle"
  BY DEF Idle
<1> QED
  BY <1>1, WholeStay, LastStays DEF WritingOK, OpenSteps, CommitSteps

LEMMA WritingContinue ==
  ASSUME IInv, WritingOK, Continue
  PROVE  WritingOK'
<1> DEFINE blocks == ledger[Len(ledger)].blocks
<1>1. /\ cap.pc = "boundary" /\ ledger # <<>>
      /\ ledger[Len(ledger)].ino = cap.before.ino
      /\ blocks = <<>> \/ source.gen = blocks[Len(blocks)]
      /\ cap' = [pc |-> "open", before |-> cap.before, epoch |-> Len(ledger), blocks |-> blocks]
      /\ UNCHANGED <<source, handle, ledger, state, stage>>
  BY DEF Continue, Continues, BoundaryHolds, Epoch, Last
<1>2. /\ cap'.pc = "open" /\ cap'.before = cap.before /\ cap'.blocks = blocks
  BY <1>1
<1>3. /\ handle = Live /\ cap.before.ino <= source.ino
      /\ source.ino = cap.before.ino => OneWriting(blocks, Len(blocks))
  BY <1>1 DEF WritingOK
<1>4. blocks \in Blocks
  <2>1. ledger \in Seq(Entry)
    BY DEF IInv, TypesOK
  <2>2. Len(ledger) \in 1 .. Len(ledger)
    BY <1>1, <2>1, EmptySeq, LenProperties
  <2> QED
    BY <2>2, DiskFacts DEF IInv
<1> HIDE DEF blocks
<1>5. blocks = <<>> => Len(blocks) = 0
  BY EmptySeq
<1>6. source.ino = cap.before.ino => \A i \in 1 .. Len(blocks) : blocks[i] = source.gen
  BY <1>1, <1>3, <1>4, <1>5, BlocksFacts DEF OneWriting, blocks
<1> QED
  BY <1>1, <1>2, <1>3, <1>6, WholeStay, LastStays DEF WritingOK, OpenSteps, CommitSteps

LEMMA WritingNewEpoch ==
  ASSUME IInv, WritingOK, NewEpoch
  PROVE  WritingOK'
<1>1. /\ cap.pc = "boundary" /\ cap'.pc = "open" /\ cap'.before = cap.before
      /\ cap'.blocks = <<>> /\ Len(<<>>) = 0
      /\ UNCHANGED <<source, handle, ledger, state, stage>>
  BY EmptySeq DEF NewEpoch, Epoch
<1> QED
  BY <1>1, WholeStay, LastStays DEF WritingOK, OpenSteps, CommitSteps

LEMMA WritingOpenAndCopied ==
  ASSUME IInv, WritingOK, OpenSource \/ Copied
  PROVE  WritingOK'
<1>1. cap.pc \in {"open", "copy"} /\ cap \in OpenCap
  BY CapFacts DEF OpenSource, Copied, OpenSteps, IInv
<1>2. /\ cap'.pc \in {"copy", "stat"} /\ cap'.blocks = cap.blocks /\ cap'.before = cap.before
      /\ cap.pc = "copy" => handle' = Live
      /\ cap.pc = "open" => handle' = handle /\ cap'.pc = "copy"
      /\ UNCHANGED <<source, ledger, state, stage>>
  BY <1>1 DEF OpenSource, Copied, OpenCap, disk
<1> QED
  BY <1>1, <1>2, WholeStay, LastStays DEF WritingOK, OpenSteps, CommitSteps

LEMMA WritingCopyBlock ==
  ASSUME IInv, WritingOK, CopyBlock
  PROVE  WritingOK'
<1> DEFINE gen == Readable.gen
           blocks == Append(cap.blocks, gen)
<1>1. /\ cap \in OpenCap /\ cap.pc = "copy" /\ cap' = [cap EXCEPT !.blocks = blocks]
      /\ UNCHANGED <<source, handle, ledger, state, stage>>
  BY CapFacts DEF CopyBlock, IInv, OpenSteps
<1>2. gen \in Gen /\ cap.blocks \in Blocks
  BY <1>1, SourceFacts DEF OpenCap, IInv
<1>3. /\ Len(cap.blocks) \in Nat /\ Len(blocks) = Len(cap.blocks) + 1
      /\ \A i \in 1 .. Len(cap.blocks) : blocks[i] = cap.blocks[i]
      /\ blocks[Len(cap.blocks) + 1] = gen
  <2> HIDE DEF gen
  <2> QED
    BY <1>2, BlocksFacts, AppendProperties DEF Blocks, Gen
<1> HIDE DEF blocks
<1>4. cap'.pc = "copy" /\ cap'.before = cap.before /\ cap'.blocks = blocks
  BY <1>1 DEF OpenCap
<1>5. source.ino = cap.before.ino =>
        handle = Live /\ \A i \in 1 .. Len(blocks) : blocks[i] = source.gen
  <2> SUFFICES ASSUME source.ino = cap.before.ino
               PROVE  handle = Live /\ \A i \in 1 .. Len(blocks) : blocks[i] = source.gen
    OBVIOUS
  <2>1. handle = Live /\ \A i \in 1 .. Len(cap.blocks) : cap.blocks[i] = source.gen
    BY <1>1 DEF WritingOK, OpenSteps
  <2>2. gen = source.gen
    BY <2>1 DEF Readable
  <2> HIDE DEF gen
  <2> QED
    BY <1>3, <2>1, <2>2
<1> QED
  BY <1>1, <1>4, <1>5, WholeStay, LastStays DEF WritingOK, OpenSteps, CommitSteps

LEMMA WritingStat ==
  ASSUME IInv, WritingOK, StatAgain
  PROVE  WritingOK'
<1>1. /\ cap.pc = "stat" /\ cap'.pc = "ledger" /\ cap'.before = cap.before
      /\ cap'.blocks = cap.blocks /\ cap'.stable = (Stat = cap.before)
      /\ UNCHANGED <<source, handle, ledger, state, stage>>
  BY DEF StatAgain, disk
<1>2. cap'.stable => source.ino = cap.before.ino
  <2>1. cap'.stable => Stat = cap.before
    BY <1>1
  <2>2. Stat.ino = source.ino
    BY DEF Stat
  <2> QED
    BY <2>1, <2>2
<1>3. source.ino = cap.before.ino => OneWriting(cap.blocks, Len(cap.blocks))
  BY <1>1 DEF WritingOK, OpenSteps, OneWriting
<1> QED
  BY <1>1, <1>2, <1>3, WholeStay, LastStays DEF WritingOK, OpenSteps, CommitSteps

LEMMA WritingCommit ==
  ASSUME IInv, WritingOK, CommitLedger
  PROVE  WritingOK'
<1>1. /\ cap \in CommitCap /\ cap.pc = "ledger" /\ cap'.pc = "overlay"
      /\ cap'.before = cap.before /\ cap'.blocks = cap.blocks /\ cap'.stable = cap.stable
      /\ UNCHANGED <<source, handle, state, stage>>
  BY CapFacts DEF CommitLedger, CommitSteps, IInv, CommitCap
<1>2. /\ Len(ledger') = cap.epoch /\ Grows
      /\ ledger'[cap.epoch] = [ino |-> cap.before.ino, blocks |-> cap.blocks]
  BY CommitChanges
<1>3. /\ cap.before.ino <= source.ino
      /\ source.ino = cap.before.ino => OneWriting(cap.blocks, Len(cap.blocks))
  BY <1>1 DEF WritingOK, CommitSteps
<1>4. ASSUME NEW p, p \in {state, stage}, p.epoch # 0, p.stable
      PROVE  OneWriting(ledger'[p.epoch].blocks, p.n)
  <2> DEFINE e == p.epoch
             n == p.n
  <2>1. e \in Nat /\ n \in Nat /\ e # 0
    BY <1>4, PointerFacts DEF IInv
  <2>2. e <= Len(ledger) /\ n <= Len(ledger[e].blocks) /\ Len(ledger) \in Nat
    BY <1>4, DiskFacts DEF IInv, PointersOK, Names
  <2>3. OneWriting(ledger[e].blocks, n)
    BY <1>4 DEF WritingOK, Whole
  <2> HIDE DEF e, n
  <2>4. e \in 1 .. Len(ledger)
    BY <2>1, <2>2
  <2>5. Begins(ledger[e].blocks, ledger'[e].blocks) /\ Len(ledger[e].blocks) \in Nat
    BY <1>2, <2>4, DiskFacts, BlocksFacts DEF Grows, IInv
  <2>6. \A i \in 1 .. n : ledger'[e].blocks[i] = ledger[e].blocks[i]
    BY <2>1, <2>2, <2>5 DEF Begins
  <2>7. OneWriting(ledger'[e].blocks, n)
    BY <2>3, <2>6 DEF OneWriting
  <2> QED
    BY <2>7 DEF e, n
<1>5. (Whole(state) /\ Whole(stage))'
  BY <1>1, <1>4 DEF Whole, OneWriting
<1> QED
  BY <1>1, <1>2, <1>3, <1>5 DEF WritingOK, OneWriting, OpenSteps, CommitSteps

LEMMA WritingPointers ==
  ASSUME IInv, WritingOK, WriteOverlay \/ WriteState
  PROVE  WritingOK'
<1>1. cap.pc \in {"overlay", "state"}
  BY DEF WriteOverlay, WriteState
<1>2. cap \in CommitCap /\ ledger[cap.epoch].blocks = cap.blocks
  BY <1>1, CommittedFacts
<1>3. /\ cap'.pc \in {"state", "receipt"} /\ cap'.before = cap.before
      /\ cap'.blocks = cap.blocks /\ cap'.stable = cap.stable
      /\ UNCHANGED <<source, handle, ledger, stage>>
      /\ state' = state \/ state' = CaptureState(FALSE)
  BY <1>2 DEF WriteOverlay, WriteState, CommitCap
<1>4. cap.stable => OneWriting(cap.blocks, Len(cap.blocks))
  BY <1>1 DEF WritingOK, CommitSteps
<1>5. (Whole(state) /\ Whole(stage))'
  BY <1>2, <1>3, <1>4 DEF WritingOK, Whole, OneWriting, CaptureState
<1> QED
  BY <1>1, <1>3, <1>5, LastStays DEF WritingOK, OneWriting, OpenSteps, CommitSteps

LEMMA WritingReceipt ==
  ASSUME IInv, WritingOK, WriteReceipt
  PROVE  WritingOK'
<1>1. /\ cap.pc = "receipt" /\ cap'.pc = "idle" /\ handle' = Live
      /\ state' = CaptureState(TRUE) /\ UNCHANGED <<source, ledger, stage>>
  BY DEF WriteReceipt, Idle, WritingOK
<1>2. ledger[cap.epoch].blocks = cap.blocks
  BY <1>1, CommittedFacts
<1>3. cap.stable => OneWriting(cap.blocks, Len(cap.blocks))
  BY <1>1 DEF WritingOK, CommitSteps
<1>4. (Whole(state) /\ Whole(stage))'
  BY <1>1, <1>2, <1>3 DEF WritingOK, Whole, OneWriting, CaptureState
<1> QED
  BY <1>1, <1>4, LastStays DEF WritingOK, OpenSteps, CommitSteps

\* A publication writes the pointer it has read, or one of its own.
LEMMA WritingPublication ==
  ASSUME IInv, WritingOK, Build \/ Publish
  PROVE  WritingOK'
<1>1. UNCHANGED <<source, handle, ledger, cap>>
  BY DEF Build, Publish, disk
<1>2. (Whole(state) /\ Whole(stage))'
  <2>1. CASE Build
    <3>1. /\ state' = state
          /\ \/ stage'.epoch = 0
             \/ stage' = [state EXCEPT !.receipt = FALSE]
      BY <2>1 DEF Build, disk
    <3>2. \/ stage'.epoch = 0
          \/ /\ stage'.epoch = state.epoch /\ stage'.n = state.n
             /\ stage'.stable = state.stable
      BY <3>1 DEF IInv, TypesOK, Pointer
    <3> QED
      BY <1>1, <3>1, <3>2 DEF WritingOK, Whole, OneWriting
  <2>2. CASE Publish
    <3>1. state' = stage /\ stage'.epoch = 0
      BY <2>2 DEF Publish, NoStage
    <3> QED
      BY <1>1, <3>1 DEF WritingOK, Whole, OneWriting
  <2> QED
    BY <2>1, <2>2
<1> QED
  BY <1>1, <1>2, LastStays DEF WritingOK, OneWriting

LEMMA WritingStep == InPlaceIsQuiet /\ IInv /\ WritingOK /\ [Next]_vars => WritingOK'
<1> SUFFICES ASSUME InPlaceIsQuiet, IInv, WritingOK, [Next]_vars PROVE WritingOK'
  OBVIOUS
<1>1. CASE Grow \/ Replace \/ Rewrite
  BY <1>1, WritingSource
<1>2. CASE Hook \/ Watch
  BY <1>2, WritingBegin DEF Hook, Watch
<1>3. CASE Capture
  <2>1. CASE Continue
    BY <2>1, WritingContinue
  <2>2. CASE NewEpoch
    BY <2>2, WritingNewEpoch
  <2>3. CASE NothingToCapture \/ ShortRead
    <3>1. cap' = Idle /\ handle' = Live /\ UNCHANGED <<source, ledger, state, stage>>
      BY <2>3 DEF NothingToCapture, ShortRead, disk, WritingOK
    <3> QED
      BY <3>1, WritingIdle
  <2>4. CASE OpenSource \/ Copied
    BY <2>4, WritingOpenAndCopied
  <2>5. CASE CopyBlock
    BY <2>5, WritingCopyBlock
  <2>6. CASE StatAgain
    BY <2>6, WritingStat
  <2>7. CASE CommitLedger
    BY <2>7, WritingCommit
  <2>8. CASE WriteOverlay \/ WriteState
    BY <2>8, WritingPointers
  <2>9. CASE WriteReceipt
    BY <2>9, WritingReceipt
  <2> QED
    BY <1>3, <2>1, <2>2, <2>3, <2>4, <2>5, <2>6, <2>7, <2>8, <2>9 DEF Capture
<1>4. CASE Crash
  BY <1>4, WritingIdle DEF Crash
<1>5. CASE Build \/ Publish
  BY <1>5, WritingPublication
<1>6. CASE UNCHANGED vars
  BY <1>6, WholeStay, LastStays DEF vars, disk, WritingOK, OneWriting
<1> QED
  BY <1>1, <1>2, <1>3, <1>4, <1>5, <1>6 DEF Next

\* Unless the transcript is rewritten in place under a copying capture, a
\* capture state that calls its source stable names blocks that the transcript
\* once held together, though it is replaced and appended to at any time.
THEOREM StableWriting == InPlaceIsQuiet => (Spec => []StableIsOneWriting)
<1>1. Init => WritingOK
  <2> SUFFICES ASSUME Init PROVE WritingOK
    OBVIOUS
  <2>1. handle = Live /\ cap.pc = "idle" /\ ledger = <<>>
    BY DEF Init, Idle
  <2>2. state.epoch = 0 /\ stage.epoch = 0
    BY DEF Init, NoStage
  <2> QED
    BY <2>1, <2>2 DEF WritingOK, Whole, OpenSteps, CommitSteps
<1>2. WritingOK => StableIsOneWriting
  BY DEF WritingOK, Whole, OneWriting, StableIsOneWriting
<1> SUFFICES ASSUME InPlaceIsQuiet PROVE Spec => []StableIsOneWriting
  OBVIOUS
<1>3. IInv /\ WritingOK /\ [Next]_vars => WritingOK'
  BY WritingStep
<1> QED
  BY <1>1, <1>2, <1>3, Invariant, PTL DEF Spec
=============================================================================
