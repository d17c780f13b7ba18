------------------------------- MODULE LiveTail -------------------------------
(***************************************************************************)
(* The live tail of one session: the lines that are captured and not yet   *)
(* projected.  After a capture has committed its ledger it indexes the new *)
(* complete lines into shard files, names the shards in one manifest, then *)
(* unlinks the shards it replaced, and last writes the overlay, which      *)
(* holds the manifest's digest.  A search reads the session manifest, the  *)
(* overlay, the postings manifest and the shards, without a lock.          *)
(*                                                                         *)
(* Source: scripts/aoa_session_memory.py                                   *)
(* (update_persistent_live_tail_postings,                                  *)
(* persistent_live_tail_source_snapshot,                                   *)
(* live_tail_exact_search_from_persistent_postings).                       *)
(*                                                                         *)
(* A text is counted in pieces, and ends are the pieces that end a line:   *)
(* texts with the same lines count as the same content.  A projection is   *)
(* the text it is of, which may be any file's, shorter or longer than what *)
(* is captured, and may end in the middle of a line.  A shard file is      *)
(* named by what it holds, the time of its writing included, and a digest  *)
(* is what it is of.  Shards and entries are sets: the code sorts the ones *)
(* by ordinal, the others by line.                                         *)
(***************************************************************************)
EXTENDS Naturals, FiniteSetsExt

CONSTANTS
    MaxPieces, \* bound on the captured pieces of each epoch
    MaxEpochs, \* bound on the epochs of the source
    Projectable, \* the texts that may be projected
    MaxProjections, \* bound on how many of them are
    Times,     \* what the clock may show a capture
    ShardMax,  \* entries of a shard (PERSISTENT_LIVE_TAIL_POSTINGS_SHARD_MAX_ENTRIES)
    MaxFaults  \* bound on captures that die and shards that cannot be unlinked

\* A text: its length, and where its lines end.
Texts == {t \in [n : Nat, ends : SUBSET Nat] : t.ends \subseteq 1 .. t.n}

ASSUME LiveTailConstants ==
    /\ Projectable \subseteq Texts
    /\ {MaxEpochs, MaxProjections, MaxFaults} \subseteq Nat
    /\ MaxEpochs > 0 /\ MaxPieces \in [1 .. MaxEpochs -> Nat]
    /\ ShardMax \in Nat \ {0}

VARIABLES
    ledger,    \* the current epoch: its text, and its attested prefixes
    projected, \* the current projection, and all so far
    files,     \* the shard files
    posts,     \* the postings manifest
    overlay,
    w,         \* the capture that holds the lock
    r,         \* a search
    faults

tail == <<files, posts, overlay>>
vars == <<ledger, projected, tail, w, r, faults>>

Idle == [pc |-> "idle"]

NoPosts == [epoch |-> 0, done |-> 0, lines |-> 0, captured |-> 0,
            ppieces |-> 0, plines |-> 0, shards |-> {}, own |-> TRUE]

Nothing == [n |-> 0, ends |-> {}]

Init ==
    /\ ledger = [epoch |-> 1, text |-> Nothing, attested |-> {}]
    /\ projected = [now |-> Nothing, all |-> {Nothing}]
    /\ files = {}
    /\ posts = NoPosts
    /\ overlay = [epoch |-> 0, n |-> 0, attested |-> {}, digest |-> NoPosts]
    /\ w = Idle
    /\ r = Idle
    /\ faults = 0

-----------------------------------------------------------------------------
(* Lines.                                                                  *)

\* The last line end up to the end of the text, and start if there is none.
CompleteEnd(text, start) == Max({start} \union {e \in text.ends : e > start})

\* The lines that end after start and not after piece k.
LineCount(text, start, k) == Cardinality(text.ends \cap (start + 1 .. k))

\* The line that ends with piece e, read from piece start on: its number,
\* when lines are before start, and its pieces.
Entry(text, start, lines, e) ==
    [line |-> lines + LineCount(text, start, e),
     pieces |-> {i \in start + 1 .. e : text.ends \cap (i .. e - 1) = {}}]

\* The entries of the complete lines after piece start.
Entries(text, start, lines) ==
    {Entry(text, start, lines, e) : e \in {e \in text.ends : e > start}}

-----------------------------------------------------------------------------
(* The projection, published without the lock.                             *)

\* The lines that a projection says it has: a torn last one is counted.
ProjectedLines(p) == Cardinality(p.ends \union ({p.n} \ {0}))

\* It ends where a line does.
Aligned(p) == p.n \in {0} \union p.ends

\* The digests of p and of so much of the text are equal.
IsPrefix(p, text) == p.n <= text.n /\ p.ends = text.ends \cap (1 .. p.n)

\* A projection is made from a copy of the transcript or from a capture: of
\* less or more than is captured, or of another file.
Publish ==
    /\ \E p \in Projectable \ {projected.now} :
         /\ p \in projected.all \/ Cardinality(projected.all) <= MaxProjections
         /\ projected' = [now |-> p, all |-> projected.all \union {p}]
    /\ UNCHANGED <<ledger, tail, w, r, faults>>

\* The digest of a projection of exactly what is captured is bound to the
\* epoch, under the lock.
Attest ==
    /\ w = Idle
    /\ projected.now = ledger.text
    /\ ledger.text.n > 0
    /\ ledger' = [ledger EXCEPT !.attested = @ \union {ledger.text.n}]
    /\ UNCHANGED <<projected, tail, w, r, faults>>

-----------------------------------------------------------------------------
(* A capture, from the commit of its ledger on.                            *)

\* The digest of the projected prefix is at hand if the capture starts where
\* the projection ends, or from the beginning: the length of the projection
\* is attested if the digest is its own, and not any more if not.
Attested(was, p, start, text) ==
    IF p.n > 0 /\ (p.n = start \/ (start = 0 /\ p.n <= text.n))
    THEN IF IsPrefix(p, text) THEN was \union {p.n} ELSE was \ {p.n}
    ELSE was

\* The session manifest was read before the lock was taken: any projection so
\* far may be the one it names.
Capture ==
    /\ w = Idle
    /\ \E p \in projected.all :
         /\ \/ \E n \in ledger.text.n .. MaxPieces[ledger.epoch] :
                 \E more \in SUBSET (ledger.text.n + 1 .. n) :
                    LET text == [n |-> n, ends |-> ledger.text.ends \union more]
                    IN  /\ n > 0
                        /\ ledger' = [epoch |-> ledger.epoch, text |-> text,
                                      attested |-> Attested(ledger.attested, p,
                                                            ledger.text.n, text)]
            \/ /\ ledger.epoch < MaxEpochs
               /\ \E n \in 1 .. MaxPieces[ledger.epoch + 1] :
                  \E ends \in SUBSET (1 .. n) :
                    LET text == [n |-> n, ends |-> ends]
                    IN  ledger' = [epoch |-> ledger.epoch + 1, text |-> text,
                                   attested |-> Attested({}, p, 0, text)]
         /\ w' = [pc |-> "plan", p |-> p]
    /\ UNCHANGED <<projected, tail, r, faults>>

\* The manifest is of this epoch, and the projection has not gone back.
Continues == posts.epoch = ledger.epoch /\ ProjectedLines(w.p) >= posts.plines

Frontier ==
    IF Continues
    THEN [done |-> posts.done, lines |-> posts.lines, shards |-> posts.shards]
    ELSE [done |-> Min({w.p.n, ledger.text.n}), lines |-> ProjectedLines(w.p),
          shards |-> {}]

\* The last line of the shard is after line.
Beyond(s, line) == \E e \in s.entries : e.line > line

\* Shards of the projected lines only are dropped.
Retained == {s \in Frontier.shards : Beyond(s, ProjectedLines(w.p))}

Crossed == \E s \in Retained : \E e \in s.entries : e.line <= ProjectedLines(w.p)

Newest == CHOOSE s \in Retained : \A t \in Retained : t.ord <= s.ord

Open == Retained # {} /\ Cardinality(Newest.entries) < ShardMax

\* The place of an entry, from 0, among entries in the order of their lines.
Position(entries, e) == Cardinality({f \in entries : f.line < e.line})

Chunk(entries, ord, now) ==
    {[epoch |-> ledger.epoch, ord |-> ord + k, now |-> now,
      entries |-> {e \in entries : Position(entries, e) \div ShardMax = k}] :
       k \in {Position(entries, e) \div ShardMax : e \in entries}}

New == Entries(ledger.text, Frontier.done, Frontier.lines)

\* The shards that stay, and those that are written.  All that is retained is
\* written again when a shard has projected lines, or when a new line gives
\* away a secret in an old one; else only a last shard that has room.
Shards(secret, now) ==
    IF secret \/ Crossed
    THEN LET all == UNION {s.entries : s \in Retained}
         IN  [kept |-> {},
              written |-> Chunk({e \in all : e.line > ProjectedLines(w.p)}
                                 \union New, 0, now)]
    ELSE IF Open
    THEN [kept |-> Retained \ {Newest},
          written |-> Chunk(Newest.entries \union New, Newest.ord, now)]
    ELSE [kept |-> Retained,
          written |-> Chunk(New, IF Retained = {} THEN 0 ELSE Newest.ord + 1,
                            now)]

\* Nothing changed since the manifest was written.
NoOp ==
    /\ posts.epoch = ledger.epoch
    /\ CompleteEnd(ledger.text, Frontier.done) = Frontier.done
    /\ posts.captured = ledger.text.n
    /\ posts.ppieces = w.p.n
    /\ posts.plines = ProjectedLines(w.p)

\* The manifest that will name shards.  own is history: all the projections
\* these postings know of are of the text, and the one they were begun at
\* ends at a line end.
Manifest(shards) ==
    [epoch |-> ledger.epoch,
     done |-> CompleteEnd(ledger.text, Frontier.done),
     lines |-> Frontier.lines
               + LineCount(ledger.text, Frontier.done, ledger.text.n),
     captured |-> ledger.text.n,
     ppieces |-> w.p.n,
     plines |-> ProjectedLines(w.p),
     shards |-> shards,
     own |-> /\ IsPrefix(w.p, ledger.text)
             /\ IF Continues THEN posts.own ELSE Aligned(w.p)]

\* Mutant: shards that are named still are unlinked too.
StaleAndKept(shards) == Frontier.shards

\* The shards the new manifest does not name any more.
Stale(shards) == Frontier.shards \ shards

SkipPostings ==
    /\ w.pc = "plan"
    /\ NoOp
    /\ w' = [pc |-> "overlay"]
    /\ UNCHANGED <<ledger, projected, tail, r, faults>>

\* The shards that are read to be written again must be there.
Plan ==
    /\ w.pc = "plan"
    /\ ~NoOp
    /\ \E secret \in BOOLEAN, now \in Times :
         LET s == Shards(secret, now)
             shards == s.kept \union s.written
         IN  /\ secret => New # {}
             /\ Retained \ s.kept \subseteq files
             /\ w' = [pc |-> "shards", todo |-> s.written,
                      manifest |-> Manifest(shards),
                      stale |-> Stale(shards)]
    /\ UNCHANGED <<ledger, projected, tail, r, faults>>

\* In the order of their ordinals.
WriteShard ==
    /\ w.pc = "shards"
    /\ \E s \in w.todo :
         /\ \A t \in w.todo : s.ord <= t.ord
         /\ files' = files \union {s}
         /\ w' = [w EXCEPT !.todo = @ \ {s}]
    /\ UNCHANGED <<ledger, projected, posts, overlay, r, faults>>

WriteManifest ==
    /\ w.pc = "shards"
    /\ w.todo = {}
    /\ posts' = w.manifest
    /\ w' = [pc |-> "unlink", stale |-> w.stale]
    /\ UNCHANGED <<ledger, projected, files, overlay, r, faults>>

\* A shard that cannot be unlinked stays.
UnlinkStale ==
    /\ w.pc = "unlink"
    /\ \E s \in w.stale :
         /\ w' = [w EXCEPT !.stale = @ \ {s}]
         /\ \/ files' = files \ {s} /\ UNCHANGED faults
            \/ /\ faults < MaxFaults
               /\ faults' = faults + 1
               /\ UNCHANGED files
    /\ UNCHANGED <<ledger, projected, posts, overlay, r>>

WriteOverlay ==
    /\ w.pc = "overlay" \/ (w.pc = "unlink" /\ w.stale = {})
    /\ overlay' = [epoch |-> ledger.epoch, n |-> ledger.text.n,
                   attested |-> ledger.attested, digest |-> posts]
    /\ w' = Idle
    /\ UNCHANGED <<ledger, projected, files, posts, r, faults>>

Crash ==
    /\ w # Idle
    /\ faults < MaxFaults
    /\ faults' = faults + 1
    /\ w' = Idle
    /\ UNCHANGED <<ledger, projected, tail, r>>

-----------------------------------------------------------------------------
(* A search.  It gives up, and another route answers, whenever what it     *)
(* reads does not fit.                                                     *)

ReadProjection ==
    /\ r = Idle
    /\ r' = [pc |-> "overlay", a |-> projected.now]
    /\ UNCHANGED <<ledger, projected, tail, w, faults>>

\* The overlay must be that of the ledger, and attest the projected prefix.
\* Where the prefix ends is not looked at.
Admits(a) ==
    /\ overlay.epoch = ledger.epoch
    /\ overlay.n = ledger.text.n
    /\ overlay.n > a.n
    /\ a.n \in overlay.attested
    /\ IsPrefix(a, ledger.text)

ReadOverlay ==
    /\ r.pc = "overlay"
    /\ r' = IF Admits(r.a)
              THEN [pc |-> "manifest", a |-> r.a, text |-> ledger.text,
                    o |-> overlay]
              ELSE Idle
    /\ UNCHANGED <<ledger, projected, tail, w, faults>>

ReadManifest ==
    /\ r.pc = "manifest"
    /\ r' = IF /\ posts = r.o.digest
               /\ posts.epoch = r.o.epoch
               /\ posts.captured = r.o.n
              THEN [pc |-> "shards", a |-> r.a, text |-> r.text, o |-> r.o,
                    todo |-> {s \in posts.shards : Beyond(s, ProjectedLines(r.a))},
                    found |-> {}]
              ELSE Idle
    /\ UNCHANGED <<ledger, projected, tail, w, faults>>

\* The lines of a shard that are not projected, each with the shard that it
\* comes from: every one is taken to match.
Matches(s) ==
    {<<s, e>> : e \in {e \in s.entries : /\ e.line > ProjectedLines(r.a)
                                      /\ \A i \in e.pieces : i > r.a.n}}

\* Mutant: a shard that is not there is passed over.
AfterShardSkipping(s) ==
    [r EXCEPT !.todo = @ \ {s},
              !.found = (IF s \in files THEN Matches(s) ELSE {}) \union @]

AfterShard(s) ==
    IF s \in files
      THEN [r EXCEPT !.todo = @ \ {s}, !.found = Matches(s) \union @]
      ELSE Idle

\* The newest first.
ReadShard ==
    /\ r.pc = "shards"
    /\ \E s \in r.todo :
         /\ \A t \in r.todo : t.ord <= s.ord
         /\ r' = AfterShard(s)
    /\ UNCHANGED <<ledger, projected, tail, w, faults>>

\* Without a match another route answers.
Answered == r.pc = "shards" /\ r.todo = {} /\ r.found # {}

Answer ==
    /\ r.pc = "shards"
    /\ r.todo = {}
    /\ r' = Idle
    /\ UNCHANGED <<ledger, projected, tail, w, faults>>

-----------------------------------------------------------------------------

Search == ReadProjection \/ ReadOverlay \/ ReadManifest \/ ReadShard \/ Answer

Index ==
    \/ SkipPostings \/ Plan \/ WriteShard \/ WriteManifest
    \/ UnlinkStale \/ WriteOverlay

Next == Publish \/ Attest \/ Capture \/ Index \/ Crash \/ Search

Spec == Init /\ [][Next]_vars

-----------------------------------------------------------------------------

\* The complete lines of a text.
Lines(text) == Entries(text, 0, 0)

\* What was captured of a text up to piece k.
Prefix(text, k) == [n |-> k, ends |-> text.ends \cap (1 .. k)]

After(lines, a) == {e \in lines : e.line > a}

\* The shards in the order of their ordinals have their lines in order, and
\* each line once.
InOrder(shards) ==
    \A s, t \in shards :
      /\ s.ord = t.ord => s = t
      /\ s.ord < t.ord => \A e \in s.entries, f \in t.entries : e.line < f.line

\* A capture that died, or is at work, never leaves a manifest that names a
\* shard which is not there; and a manifest that was begun at a line end of
\* its own text has every complete line after the projected ones exactly once,
\* under its own number.
ManifestIsExact ==
    /\ posts.shards \subseteq files
    /\ posts.own /\ posts.epoch = ledger.epoch =>
        /\ InOrder(posts.shards)
        /\ After(UNION {s.entries : s \in posts.shards}, posts.plines) =
             After(Lines(Prefix(ledger.text, posts.captured)), posts.plines)

\* What a search answers from postings is the captured text at one moment: no
\* line is given twice, torn or misnumbered, and none is left out but those
\* that a newer projection has, whole or the beginning of; a shard read later
\* has earlier lines.  Shards are replaced and unlinked meanwhile.
AnswerFits ==
    LET lines == {m[2] : m \in r.found}
        exact == After(Lines(r.text), ProjectedLines(r.a))
        later == r.o.digest.plines
    IN  /\ \A m, o \in r.found :
             /\ m[2].line = o[2].line => m = o
             /\ m[1].ord < o[1].ord => m[2].line < o[2].line
        /\ lines \subseteq exact
        /\ After(exact, later) \subseteq lines

AnswerIsExact == Answered /\ r.o.digest.own => AnswerFits

\* The same of all postings, also of those that were begun at a projection of
\* another file or in the middle of a line: fails (MCLiveTailRefs.cfg).
AnswerIsAlwaysExact == Answered => AnswerFits

\* A line that ends after all that is projected is found: fails
\* (MCLiveTailTorn.cfg) for the rest of a line that a projection has torn,
\* though the boundary is reported as a line end.
TornLineIsFound ==
    Answered /\ r.o.digest.own =>
        \A l \in Lines(r.text) :
          (\A k \in {r.a.n, r.o.digest.ppieces} : \E i \in l.pieces : i > k)
            => \E m \in r.found : m[2] = l
=============================================================================
