----------------------------- MODULE CaptureLedger -----------------------------
(***************************************************************************)
(* The raw capture of one session.  A capture copies what is new in the    *)
(* transcript, block by block, into content-addressed block files and an   *)
(* append-only materialization, and then writes three documents: the       *)
(* ledger, the live-tail overlay and the capture state.  Captures exclude  *)
(* each other by the capture lock; the transcript belongs to another       *)
(* program and changes at any time, and a publication writes a capture     *)
(* state of its own without that lock.                                     *)
(*                                                                         *)
(* Source: scripts/aoa_session_memory.py (append_raw_capture_ledger, its   *)
(* callers, indexed_raw_capture_state, reconcile_capture_watch).           *)
(*                                                                         *)
(* A transcript is a number of blocks, all of one writing: what is written *)
(* over it is another writing, and differs in every block.  A captured     *)
(* block is the writing it was read from; its place is its index.          *)
(***************************************************************************)
EXTENDS Naturals, SequencesExt

CONSTANTS
    MaxSize,    \* bound on the blocks of the transcript
    MaxChanges, \* bound on the changes of the transcript
    MaxBuilds,  \* bound on publications of the session
    MaxCrashes, \* bound on captures that die or run out of their deadline
    Shakes      \* the changes that may also happen while a capture copies

Changes == {"append", "replace", "rewrite"}

ASSUME CaptureConstants ==
    /\ {MaxSize, MaxChanges, MaxBuilds, MaxCrashes} \subseteq Nat
    /\ Shakes \subseteq Changes

VARIABLES
    source,  \* the transcript: inode, writing, size, modification time
    handle,  \* the file a copying capture has open: Live, or one since replaced
    ledger,  \* the committed epochs
    mats,    \* the materialization of every epoch
    parts,   \* the block files
    overlay, \* the live-tail overlay
    state,   \* the capture state, the pointer readers start from
    cap,     \* the capture that holds the lock
    stage,   \* the capture state a publication has built
    builds,
    crashes

disk == <<ledger, mats, parts, overlay, state>>
bounds == <<builds, crashes>>
vars == <<source, handle, disk, cap, stage, bounds>>

Idle == [pc |-> "idle"]
NoStage == [epoch |-> 0, n |-> 0, size |-> 0, mtime |-> 0,
            stable |-> FALSE, receipt |-> FALSE]
Live == [gen |-> 0, size |-> 0]

Init ==
    /\ source \in {[ino |-> 1, gen |-> 1, size |-> n, mtime |-> 1] :
                    n \in 0 .. MaxSize}
    /\ handle = Live
    /\ ledger = <<>>
    /\ mats = <<>>
    /\ parts = {}
    /\ overlay = [epoch |-> 0, n |-> 0]
    /\ state = NoStage
    /\ cap = Idle
    /\ stage = NoStage
    /\ builds = 0
    /\ crashes = 0

-----------------------------------------------------------------------------
(* The transcript, as its owner changes it.                                *)

Copying == cap.pc \in {"boundary", "open", "copy", "stat"}

May(change) ==
    /\ source.mtime <= MaxChanges
    /\ Copying => change \in Shakes

Grow ==
    /\ May("append")
    /\ source.size < MaxSize
    /\ source' = [source EXCEPT !.size = @ + 1, !.mtime = @ + 1]
    /\ UNCHANGED <<handle, disk, cap, stage, bounds>>

\* An open handle keeps the file that was replaced.
Replace ==
    /\ May("replace")
    /\ \E size \in 0 .. MaxSize :
         source' = [ino |-> source.ino + 1, gen |-> source.gen + 1,
                    size |-> size, mtime |-> source.mtime + 1]
    /\ handle' = IF cap.pc = "copy" /\ handle = Live
                   THEN [gen |-> source.gen, size |-> source.size]
                   ELSE handle
    /\ UNCHANGED <<disk, cap, stage, bounds>>

\* Truncated and written again in place.
Rewrite ==
    /\ May("rewrite")
    /\ \E size \in 0 .. MaxSize :
         source' = [source EXCEPT !.gen = @ + 1, !.size = size,
                                  !.mtime = @ + 1]
    /\ UNCHANGED <<handle, disk, cap, stage, bounds>>

-----------------------------------------------------------------------------
(* A capture.                                                              *)

\* Mutant: the time is not compared.
CurrentBySize ==
    /\ state.receipt
    /\ state.size = source.size

\* What the watch takes for a capture that needs no repetition.
CaptureCurrent ==
    /\ state.receipt
    /\ state.size = source.size
    /\ state.mtime = source.mtime

\* The metadata of the transcript: every change gives it another time.
Stat == [ino |-> source.ino, size |-> source.size, mtime |-> source.mtime]

\* The lock is taken, the ledger read, and the transcript's metadata.
Begin ==
    /\ cap = Idle
    /\ cap' = [pc |-> "boundary", before |-> Stat]
    /\ UNCHANGED <<source, handle, disk, stage, bounds>>

Hook == Begin
Watch == ~CaptureCurrent /\ Begin

\* Mutant: the size alone is compared.
BoundaryUnread(blocks) == source.size >= Len(blocks)

\* The last committed block still is in the transcript.
BoundaryHolds(blocks) ==
    \/ blocks = <<>>
    \/ /\ source.size >= Len(blocks)
       /\ source.gen = Last(blocks)
       /\ <<Last(blocks), Len(blocks)>> \in parts

Continues ==
    /\ ledger # <<>>
    /\ Last(ledger).ino = cap.before.ino
    /\ cap.before.size >= Len(Last(ledger).blocks)
    /\ BoundaryHolds(Last(ledger).blocks)

\* Mutant: the current epoch starts again in place.
EpochInPlace(blocks, new) ==
    [pc |-> "open", before |-> cap.before,
     epoch |-> IF ledger = <<>> THEN 1 ELSE Len(ledger), blocks |-> blocks]

Epoch(blocks, new) ==
    [pc |-> "open", before |-> cap.before,
     epoch |-> Len(ledger) + (IF new THEN 1 ELSE 0), blocks |-> blocks]

\* Mutant: what is behind the watermark stays.
TruncatedNever(e, blocks) == mats

\* What a capture that died has left behind the watermark is cut off.
Truncated(e, blocks) == [mats EXCEPT ![e] = SubSeq(@, 1, Len(blocks))]

Continue ==
    /\ cap.pc = "boundary"
    /\ Continues
    /\ LET e == Len(ledger)
           blocks == ledger[e].blocks
       IN  /\ Len(mats[e]) >= Len(blocks)
           /\ mats' = Truncated(e, blocks)
           /\ cap' = Epoch(blocks, FALSE)
    /\ UNCHANGED <<source, handle, ledger, parts, overlay, state, stage, bounds>>

NewEpoch ==
    /\ cap.pc = "boundary"
    /\ ~Continues
    /\ cap.before.size > 0
    /\ mats' = Append(SubSeq(mats, 1, Len(ledger)), <<>>)
    /\ cap' = Epoch(<<>>, TRUE)
    /\ UNCHANGED <<source, handle, ledger, parts, overlay, state, stage, bounds>>

\* Nothing is materialized of an empty transcript, whose size is then asked.
NothingToCapture ==
    /\ cap.pc = "boundary"
    /\ ~Continues
    /\ cap.before.size = 0
    /\ cap' = Idle
    /\ UNCHANGED <<source, handle, disk, stage, bounds>>

OpenSource ==
    /\ cap.pc = "open"
    /\ cap' = [cap EXCEPT !.pc = "copy"]
    /\ UNCHANGED <<source, handle, disk, stage, bounds>>

Readable == IF handle = Live THEN source ELSE handle
Offset == Len(cap.blocks)

CopyBlock ==
    /\ cap.pc = "copy"
    /\ Offset < cap.before.size
    /\ Offset < Readable.size
    /\ parts' = parts \union {<<Readable.gen, Offset + 1>>}
    /\ mats' = [mats EXCEPT ![cap.epoch] = Append(@, Readable.gen)]
    /\ cap' = [cap EXCEPT !.blocks = Append(@, Readable.gen)]
    /\ UNCHANGED <<source, handle, ledger, overlay, state, stage, bounds>>

ShortRead ==
    /\ cap.pc = "copy"
    /\ Offset < cap.before.size
    /\ Offset >= Readable.size
    /\ cap' = Idle
    /\ handle' = Live
    /\ UNCHANGED <<source, disk, stage, bounds>>

\* The materialization is durable.
Copied ==
    /\ cap.pc = "copy"
    /\ Offset = cap.before.size
    /\ cap' = [cap EXCEPT !.pc = "stat"]
    /\ handle' = Live
    /\ UNCHANGED <<source, disk, stage, bounds>>

\* Mutant: an unstable capture is published without the ledger.
StatAgainKeepingUnstable ==
    /\ cap.pc = "stat"
    /\ cap' = [pc |-> IF Stat = cap.before THEN "ledger" ELSE "overlay",
               before |-> cap.before, epoch |-> cap.epoch, blocks |-> cap.blocks,
               after |-> Stat, stable |-> Stat = cap.before]
    /\ UNCHANGED <<source, handle, disk, stage, bounds>>

StatAgain ==
    /\ cap.pc = "stat"
    /\ cap' = [pc |-> "ledger", before |-> cap.before, epoch |-> cap.epoch,
               blocks |-> cap.blocks, after |-> Stat, stable |-> Stat = cap.before]
    /\ UNCHANGED <<source, handle, disk, stage, bounds>>

\* Mutant: the epoch that continues is appended a second time.
CommitLedgerTwice ==
    /\ cap.pc = "ledger"
    /\ ledger' = Append(ledger, [ino |-> cap.before.ino, blocks |-> cap.blocks])
    /\ cap' = [cap EXCEPT !.pc = "overlay"]
    /\ UNCHANGED <<source, handle, mats, parts, overlay, state, stage, bounds>>

CommitLedger ==
    /\ cap.pc = "ledger"
    /\ ledger' = SubSeq(ledger, 1, cap.epoch - 1) \o
                 <<[ino |-> cap.before.ino, blocks |-> cap.blocks]>>
    /\ cap' = [cap EXCEPT !.pc = "overlay"]
    /\ UNCHANGED <<source, handle, mats, parts, overlay, state, stage, bounds>>

WriteOverlay ==
    /\ cap.pc = "overlay"
    /\ overlay' = [epoch |-> cap.epoch, n |-> Len(cap.blocks)]
    /\ cap' = [cap EXCEPT !.pc = "state"]
    /\ UNCHANGED <<source, handle, ledger, mats, parts, state, stage, bounds>>

CaptureState(receipt) ==
    [epoch |-> cap.epoch, n |-> Len(cap.blocks),
     size |-> cap.after.size, mtime |-> cap.after.mtime,
     stable |-> cap.stable, receipt |-> receipt]

WriteState ==
    /\ cap.pc = "state"
    /\ state' = CaptureState(FALSE)
    /\ cap' = [cap EXCEPT !.pc = "receipt"]
    /\ UNCHANGED <<source, handle, ledger, mats, parts, overlay, stage, bounds>>

WriteReceipt ==
    /\ cap.pc = "receipt"
    /\ state' = CaptureState(TRUE)
    /\ cap' = Idle
    /\ UNCHANGED <<source, handle, ledger, mats, parts, overlay, stage, bounds>>

\* The worker dies, or runs out of its deadline: of what was not made durable
\* any prefix is there.
Crash ==
    /\ cap # Idle
    /\ crashes < MaxCrashes
    /\ crashes' = crashes + 1
    /\ cap' = Idle
    /\ handle' = Live
    /\ IF cap.pc = "copy"
         THEN \E n \in 0 .. Len(mats[cap.epoch]) :
                /\ cap.epoch <= Len(ledger) => n >= Len(ledger[cap.epoch].blocks)
                /\ mats' = [mats EXCEPT ![cap.epoch] = SubSeq(@, 1, n)]
         ELSE UNCHANGED mats
    /\ UNCHANGED <<source, ledger, parts, overlay, state, stage, builds>>

-----------------------------------------------------------------------------
(* A publication of the session.                                           *)

\* From a copy of the transcript, or from what is captured.
Build ==
    /\ stage = NoStage
    /\ builds < MaxBuilds
    /\ builds' = builds + 1
    /\ stage' \in {[epoch |-> 0, n |-> source.size, size |-> source.size,
                    mtime |-> source.mtime, stable |-> TRUE, receipt |-> FALSE],
                   [state EXCEPT !.receipt = FALSE]}
    /\ UNCHANGED <<source, handle, disk, cap, crashes>>

\* The staged capture state replaces the one there is by then.
Publish ==
    /\ stage # NoStage
    /\ state' = stage
    /\ stage' = NoStage
    /\ UNCHANGED <<source, handle, ledger, mats, parts, overlay, cap, bounds>>

-----------------------------------------------------------------------------

Capture ==
    \/ Continue \/ NewEpoch \/ NothingToCapture \/ OpenSource
    \/ CopyBlock \/ ShortRead \/ Copied \/ StatAgain
    \/ CommitLedger \/ WriteOverlay \/ WriteState \/ WriteReceipt

Next ==
    \/ Grow \/ Replace \/ Rewrite
    \/ Hook \/ Watch \/ Capture \/ Crash
    \/ Build \/ Publish

Spec == Init /\ [][Next]_vars

\* A capture that holds the lock goes on, and the timer of the watch ticks.
\* Nothing is assumed of hooks: they may be missed.
FairSpec == Spec /\ WF_vars(Capture) /\ WF_vars(Watch) /\ WF_vars(Publish)

-----------------------------------------------------------------------------

Blocks == Seq(1 .. MaxChanges + 1)

Pointer == [epoch : Nat, n : 0 .. MaxSize, size : 0 .. MaxSize,
            mtime : 0 .. MaxChanges + 1, stable : BOOLEAN, receipt : BOOLEAN]

\* The variables have their types, and a capture works on the current epoch
\* or the one after it.
TypeOK ==
    /\ source.size \in 0 .. MaxSize
    /\ {source.ino, source.gen, source.mtime} \subseteq 1 .. MaxChanges + 1
    /\ \A e \in DOMAIN ledger : ledger[e].blocks \in Blocks
    /\ \A e \in DOMAIN mats : mats[e] \in Blocks
    /\ Len(mats) \in {Len(ledger), Len(ledger) + 1}
    /\ parts \subseteq (1 .. MaxChanges + 1) \X (1 .. MaxSize)
    /\ {state, stage} \subseteq Pointer
    /\ cap.pc \in {"idle", "boundary", "open", "copy", "stat", "ledger",
                   "overlay", "state", "receipt"}
    /\ cap.pc \notin {"idle", "boundary"} =>
         cap.epoch \in {Len(ledger), Len(ledger) + 1} \ {0}

\* Whatever a capture died of, every committed block is in the epoch's
\* materialization, at its place, and in a block file of its own.
LedgerIsBacked ==
    \A e \in DOMAIN ledger :
        /\ IsPrefix(ledger[e].blocks, mats[e])
        /\ \A i \in DOMAIN ledger[e].blocks :
             <<ledger[e].blocks[i], i>> \in parts

\* The overlay never points past the ledger, nor the capture state past
\* either, whichever writer wrote it last.
PointersAreBacked ==
    \A p \in {overlay, state} :
        p.epoch # 0 =>
          /\ p.epoch <= Len(ledger)
          /\ p.n <= Len(ledger[p.epoch].blocks)
          /\ p.epoch <= overlay.epoch
          /\ p.epoch = overlay.epoch => p.n <= overlay.n

\* A capture state that calls its source stable names blocks that the
\* transcript once held together: never a splice of two writings.
StableIsOneWriting ==
    state.epoch # 0 /\ state.stable =>
        \A i, j \in 1 .. state.n :
            ledger[state.epoch].blocks[i] = ledger[state.epoch].blocks[j]

\* What is committed stays: a superseded epoch is frozen, and the current one
\* changes at its end only.
CommittedOnlyGrows ==
    [][\A e \in DOMAIN ledger :
         /\ e \in DOMAIN ledger'
         /\ IsPrefix(ledger[e].blocks, ledger'[e].blocks)
         /\ e < Len(ledger) => ledger'[e] = ledger[e]]_vars

Captured ==
    /\ ledger # <<>>
    /\ Last(ledger).blocks = [i \in 1 .. source.size |-> source.gen]

\* With no hook at all, the watch captures all of a transcript that is no
\* longer changed, unless its last capture was called unstable.
StableIsComplete ==
    <>[](source.size = 0 \/ Captured \/ ~state.stable)

\* The same without exception.
EverythingCaptured == <>[](source.size = 0 \/ Captured)
=============================================================================
