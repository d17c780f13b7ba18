---------------------------- MODULE LiveTailProofs ----------------------------
(***************************************************************************)
(* Theorems about LiveTail, for texts, shards, epochs and projections of   *)
(* any number: the postings manifest is exact, and so is what a search     *)
(* answers from it without a lock.                                         *)
(*                                                                         *)
(* The invariant follows a manifest from the plan of the capture to the    *)
(* file, to its digest in the overlay and into the hand of a search.  What *)
(* it says of a manifest (Exact) is about the text that was captured when  *)
(* it was made: captures that append to the text leave that alone, and a   *)
(* new epoch sets the manifest aside.                                      *)
(***************************************************************************)
EXTENDS LiveTail, FiniteSetTheorems, TLAPS

Lined == [line : Nat, pieces : SUBSET Nat]

Shard == [epoch : Nat, ord : Nat, now : Times, entries : SUBSET Lined]

Manifests == [epoch : Nat, done : Nat, lines : Nat, captured : Nat,
              ppieces : Nat, plines : Nat, shards : SUBSET Shard, own : BOOLEAN]

\* The shards of a manifest are finitely many, and so are their entries.
Small(m) ==
    /\ IsFiniteSet(m.shards)
    /\ \A s \in m.shards : IsFiniteSet(s.entries)
    /\ \E b \in Nat : \A s \in m.shards : s.ord <= b

Overlays == [epoch : Nat, n : Nat, attested : SUBSET Nat, digest : Manifests]

Writers ==
    {Idle} \union [pc : {"plan"}, p : Texts] \union [pc : {"overlay"}]
    \union [pc : {"shards"}, todo : SUBSET Shard, manifest : Manifests,
            stale : SUBSET Shard]
    \union [pc : {"unlink"}, stale : SUBSET Shard]

Found == Shard \X Lined

Searches ==
    {Idle} \union [pc : {"overlay"}, a : Texts]
    \union [pc : {"manifest"}, a : Texts, text : Texts, o : Overlays]
    \union [pc : {"shards"}, a : Texts, text : Texts, o : Overlays,
            todo : SUBSET Shard, found : SUBSET Found]

\* Every variable is of its type, and what is named is finite.
TypeOK ==
    /\ ledger \in [epoch : 1 .. MaxEpochs, text : Texts, attested : SUBSET Nat]
    /\ projected \in [now : Texts, all : SUBSET Texts]
    /\ files \subseteq Shard
    /\ posts \in Manifests
    /\ Small(posts)
    /\ overlay \in Overlays
    /\ w \in Writers
    /\ w.pc = "shards" => Small(w.manifest)
    /\ r \in Searches
    /\ faults \in 0 .. MaxFaults

\* A manifest has read all of text, and its shards hold the lines of text, all
\* those after the projected ones among them.
Exact(m, text) ==
    /\ m.done = 0 \/ m.done \in text.ends
    /\ \A e \in text.ends : e <= m.done
    /\ m.lines = Cardinality(text.ends)
    /\ \A s \in m.shards : s.entries \subseteq Lines(text)
    /\ \A l \in Lines(text) :
         l.line > m.plines => \E s \in m.shards : l \in s.entries
    /\ InOrder(m.shards)

ExactIn(m, text) ==
    m.own => m.captured <= text.n /\ Exact(m, Prefix(text, m.captured))

Kept(m) ==
    /\ m.epoch <= ledger.epoch
    /\ m.epoch = ledger.epoch => ExactIn(m, ledger.text)

ManifestsOK ==
    /\ Kept(posts)
    /\ Kept(overlay.digest)
    /\ w.pc = "shards" => Kept(w.manifest)

\* What is named is there, or will be before it is named; what is unlinked is
\* not named.
FilesOK ==
    /\ posts.shards \subseteq files
    /\ w.pc = "shards" =>
         /\ w.manifest.shards \subseteq files \union w.todo
         /\ w.stale \intersect w.manifest.shards = {}
    /\ w.pc = "unlink" => w.stale \intersect posts.shards = {}

\* What a search has read is the text, the overlay and the manifest of one
\* moment, and it has the matches of the shards that it need not read any more.
SearchOK ==
    /\ r.pc \in {"manifest", "shards"} =>
         /\ IsPrefix(r.a, r.text)
         /\ r.o.n = r.text.n
         /\ r.o.digest.epoch = r.o.epoch => ExactIn(r.o.digest, r.text)
    /\ r.pc = "shards" =>
         /\ r.o.digest.epoch = r.o.epoch
         /\ r.o.digest.captured = r.o.n
         /\ r.todo \subseteq r.o.digest.shards
         /\ r.found \subseteq UNION {Matches(s) : s \in r.o.digest.shards}
         /\ \A s \in r.o.digest.shards \ r.todo : Matches(s) \subseteq r.found

IInv == TypeOK /\ ManifestsOK /\ FilesOK /\ SearchOK

-----------------------------------------------------------------------------
(* Numbers and sets.                                                       *)

\* A set of naturals below a bound has a greatest element.
LEMMA Greatest ==
  ASSUME NEW S \in SUBSET Nat, S # {}, NEW b \in Nat, \A x \in S : x <= b
  PROVE  /\ Max(S) \in S
         /\ \A x \in S : x <= Max(S)
<1> DEFINE D == {b - x : x \in S}
<1>1. D \subseteq Nat /\ D # {}
  OBVIOUS
<1>2. PICK d \in D : \A e \in D : ~ (<<e, d>> \in OpToRel(<, Nat))
  BY <1>1, WFMin, NatLessThanWellFounded
<1>3. \A e \in D : ~ (e < d)
  BY <1>1, <1>2 DEF OpToRel
<1>4. PICK m \in S : d = b - m
  OBVIOUS
<1>5. \A x \in S : m >= x
  <2>1. SUFFICES ASSUME NEW x \in S PROVE m >= x
    OBVIOUS
  <2>2. b - x \in D /\ x \in Nat /\ m \in Nat
    OBVIOUS
  <2>3. ~ (b - x < d)
    <3> HIDE DEF D
    <3> QED
      BY <2>2, <1>3
  <2> QED
    BY <2>2, <2>3, <1>4
<1>6. \E x \in S : \A y \in S : x >= y
  BY <1>5
<1> QED
  BY <1>6 DEF Max

\* What is indexed by a finite set is finite.
LEMMA ImageIsFinite ==
  ASSUME NEW S, IsFiniteSet(S), NEW f, f = [x \in S |-> f[x]]
  PROVE  IsFiniteSet({f[x] : x \in S})
<1>1. f \in Surjection(S, {f[x] : x \in S})
  BY DEF Surjection
<1> QED
  BY <1>1, FS_Surjection

-----------------------------------------------------------------------------
(* Lines.                                                                  *)

LEMMA EndsAreFinite ==
  ASSUME NEW text \in Texts, NEW i \in Nat, NEW k \in Nat
  PROVE  /\ IsFiniteSet(text.ends)
         /\ IsFiniteSet(text.ends \cap (i + 1 .. k))
         /\ LineCount(text, i, k) \in Nat
<1>1. text.ends \in SUBSET Nat /\ text.n \in Nat /\ \A e \in text.ends : e <= text.n
  BY DEF Texts
<1>2. IsFiniteSet(text.ends)
  BY <1>1, FS_BoundedSetOfNaturals
<1>3. IsFiniteSet(text.ends \cap (i + 1 .. k))
  BY <1>2, FS_Intersection
<1> QED
  BY <1>2, <1>3, FS_CardinalityType DEF LineCount

\* The last line end is found.
LEMMA LastEnd ==
  ASSUME NEW text \in Texts, NEW start \in Nat
  PROVE  /\ CompleteEnd(text, start) \in Nat
         /\ CompleteEnd(text, start) >= start
         /\ CompleteEnd(text, start) = start \/ CompleteEnd(text, start) \in text.ends
         /\ \A e \in text.ends : e <= CompleteEnd(text, start)
<1> DEFINE S == {start} \union {e \in text.ends : e > start}
<1>1. S \in SUBSET Nat /\ S # {}
  BY DEF Texts
<1>2. /\ start + text.n \in Nat
      /\ \A x \in S : x <= start + text.n
  BY DEF Texts
<1>3. Max(S) \in S /\ \A x \in S : x <= Max(S)
  <2> HIDE DEF S
  <2> QED
    BY <1>1, <1>2, Greatest
<1>4. CompleteEnd(text, start) = Max(S)
  BY DEF CompleteEnd
<1>5. \A e \in text.ends : e \in Nat /\ (e > start \/ e <= start)
  BY DEF Texts
<1> QED
  BY <1>1, <1>3, <1>4, <1>5

\* Lines are counted piece by piece.
LEMMA CountAdds ==
  ASSUME NEW text \in Texts, NEW i \in Nat, NEW j \in Nat, NEW k \in Nat,
         i <= j, j <= k
  PROVE  LineCount(text, i, k) = LineCount(text, i, j) + LineCount(text, j, k)
<1> DEFINE A == text.ends \cap (i + 1 .. j)
           B == text.ends \cap (j + 1 .. k)
<1>1. IsFiniteSet(A) /\ IsFiniteSet(B)
  BY EndsAreFinite
<1>2. A \cap B = {} /\ A \union B = text.ends \cap (i + 1 .. k)
  BY DEF Texts
<1>3. Cardinality(A \cap B) = 0
  BY <1>2, FS_EmptySet
<1>4. Cardinality(A) \in Nat /\ Cardinality(B) \in Nat
  BY <1>1, FS_CardinalityType
<1>5. Cardinality(A \union B) = Cardinality(A) + Cardinality(B)
  <2> HIDE DEF A, B
  <2>1. Cardinality(A \union B) = Cardinality(A) + Cardinality(B) - Cardinality(A \cap B)
    BY <1>1, FS_Union
  <2> QED
    BY <2>1, <1>3, <1>4
<1> QED
  BY <1>2, <1>5 DEF LineCount

\* There is a line between two pieces exactly if a line ends there.
LEMMA CountOfLine ==
  ASSUME NEW text \in Texts, NEW i \in Nat, NEW k \in Nat
  PROVE  /\ LineCount(text, i, k) = 0 <=> text.ends \cap (i + 1 .. k) = {}
         /\ k \in text.ends /\ i < k => LineCount(text, i, k) > 0
<1> DEFINE A == text.ends \cap (i + 1 .. k)
<1>1. IsFiniteSet(A)
  BY EndsAreFinite
<1>2. Cardinality(A) = 0 <=> A = {}
  BY <1>1, FS_EmptySet
<1>3. Cardinality(A) \in Nat
  BY <1>1, FS_CardinalityType
<1>4. k \in text.ends /\ i < k => k \in A
  OBVIOUS
<1> QED
  BY <1>2, <1>3, <1>4 DEF LineCount

\* Later lines have greater numbers.
LEMMA CountGrows ==
  ASSUME NEW text \in Texts, NEW i \in Nat, NEW k \in Nat
  PROVE  /\ i <= k => LineCount(text, 0, i) <= LineCount(text, 0, k)
         /\ k \in text.ends /\ i < k => LineCount(text, 0, i) < LineCount(text, 0, k)
<1>1. /\ LineCount(text, 0, i) \in Nat
      /\ LineCount(text, i, k) \in Nat
  BY EndsAreFinite
<1>2. i <= k => LineCount(text, 0, k) = LineCount(text, 0, i) + LineCount(text, i, k)
  BY CountAdds
<1> QED
  BY <1>1, <1>2, CountOfLine


\* The line of a text that ends with piece e.
Line(text, e) == Entry(text, 0, 0, e)

\* What is read of a line does not depend on the line end that the reading
\* has begun at, if the lines before are counted.
LEMMA EntryIsLine ==
  ASSUME NEW text \in Texts, NEW start \in Nat,
         start = 0 \/ start \in text.ends,
         NEW e \in text.ends, e > start
  PROVE  Entry(text, start, LineCount(text, 0, start), e) = Line(text, e)
<1>1. text.ends \subseteq Nat /\ e \in Nat /\ 0 \in Nat
  BY DEF Texts
<1>2. LineCount(text, 0, e) = LineCount(text, 0, start) + LineCount(text, start, e)
  BY <1>1, CountAdds
<1>3. LineCount(text, 0, e) \in Nat
  BY <1>1, EndsAreFinite
<1>4. {i \in start + 1 .. e : text.ends \cap (i .. e - 1) = {}}
        = {i \in 0 + 1 .. e : text.ends \cap (i .. e - 1) = {}}
  <2>1. SUFFICES ASSUME NEW i \in 0 + 1 .. e, text.ends \cap (i .. e - 1) = {}
                 PROVE  i \in start + 1 .. e
    BY <1>1
  <2>2. CASE start = 0
    BY <2>2, <2>1
  <2>3. CASE start \in text.ends /\ i <= start
    <3>1. start \in i .. e - 1
      BY <2>3, <2>1, <1>1
    <3> QED
      BY <3>1, <2>3, <2>1
  <2> QED
    BY <2>2, <2>3, <2>1, <1>1
<1>5. 0 + LineCount(text, 0, e) = LineCount(text, 0, start) + LineCount(text, start, e)
  BY <1>2, <1>3
<1> QED
  BY <1>4, <1>5, Zenon DEF Entry, Line

\* The entries after a line end are the lines after it.
LEMMA EntriesAreLines ==
  ASSUME NEW text \in Texts, NEW start \in Nat,
         start = 0 \/ start \in text.ends
  PROVE  Entries(text, start, LineCount(text, 0, start)) =
           {Line(text, e) : e \in {e \in text.ends : e > start}}
<1>1. \A e \in {e \in text.ends : e > start} :
        Entry(text, start, LineCount(text, 0, start), e) = Line(text, e)
  BY EntryIsLine
<1> QED
  BY <1>1 DEF Entries

LEMMA LinesOfText ==
  ASSUME NEW text \in Texts
  PROVE  Lines(text) = {Line(text, e) : e \in text.ends}
<1>1. \A e \in text.ends : e > 0
  BY DEF Texts
<1> QED
  BY <1>1 DEF Lines, Entries, Line

\* Entries are of their type, and finitely many.
LEMMA EntriesAreTyped ==
  ASSUME NEW text \in Texts, NEW start \in Nat, NEW lines \in Nat
  PROVE  /\ Entries(text, start, lines) \subseteq Lined
         /\ IsFiniteSet(Entries(text, start, lines))
<1> DEFINE E == {e \in text.ends : e > start}
           f == [e \in E |-> Entry(text, start, lines, e)]
<1>1. E \subseteq Nat
  BY DEF Texts
<1>2. \A e \in E : Entry(text, start, lines, e) \in Lined
  <2>1. SUFFICES ASSUME NEW e \in E PROVE Entry(text, start, lines, e) \in Lined
    OBVIOUS
  <2>2. LineCount(text, start, e) \in Nat
    BY <1>1, EndsAreFinite
  <2>3. {i \in start + 1 .. e : text.ends \cap (i .. e - 1) = {}} \in SUBSET Nat
    OBVIOUS
  <2> QED
    BY <2>2, <2>3 DEF Entry, Lined
<1>3. IsFiniteSet(E)
  <2>1. E \in SUBSET text.ends
    OBVIOUS
  <2>2. IsFiniteSet(text.ends)
    BY EndsAreFinite
  <2> QED
    BY <2>1, <2>2, FS_Subset
<1>4. IsFiniteSet({f[e] : e \in E})
  <2>1. f = [e \in E |-> f[e]]
    OBVIOUS
  <2> HIDE DEF f, E
  <2> QED
    BY <1>3, <2>1, ImageIsFinite
<1>5. Entries(text, start, lines) = {f[e] : e \in E}
  BY DEF Entries
<1> QED
  BY <1>2, <1>4, <1>5 DEF Entries

\* A text begins with its prefixes.
LEMMA PrefixIsText ==
  ASSUME NEW text \in Texts, NEW k \in Nat
  PROVE  /\ Prefix(text, k) \in Texts
         /\ Prefix(text, k).n = k
         /\ Prefix(text, k).ends = {e \in text.ends : e <= k}
         /\ \A e \in text.ends : e <= k => Line(Prefix(text, k), e) = Line(text, e)
<1>1. text.ends \subseteq Nat /\ \A e \in text.ends : e >= 1
  BY DEF Texts
<1>2. Prefix(text, k).n = k /\ Prefix(text, k).ends = text.ends \cap (1 .. k)
  BY DEF Prefix
<1>3. Prefix(text, k) \in Texts
  BY DEF Prefix, Texts
<1>4. Prefix(text, k).ends = {e \in text.ends : e <= k}
  BY <1>1, <1>2
<1>5. ASSUME NEW e \in text.ends, e <= k
      PROVE  Line(Prefix(text, k), e) = Line(text, e)
  <2>1. Prefix(text, k).ends \cap (0 + 1 .. e) = text.ends \cap (0 + 1 .. e)
    BY <1>1, <1>2, <1>5
  <2>2. \A i \in 0 + 1 .. e : Prefix(text, k).ends \cap (i .. e - 1) = text.ends \cap (i .. e - 1)
    BY <1>1, <1>2, <1>5
  <2> QED
    BY <2>1, <2>2 DEF Line, Entry, LineCount
<1> QED
  BY <1>2, <1>3, <1>4, <1>5

LEMMA LinesOfPrefix ==
  ASSUME NEW text \in Texts, NEW k \in Nat
  PROVE  Lines(Prefix(text, k)) = {Line(text, e) : e \in {e \in text.ends : e <= k}}
<1>1. Lines(Prefix(text, k)) = {Line(Prefix(text, k), e) : e \in Prefix(text, k).ends}
  BY PrefixIsText, LinesOfText
<1> QED
  BY <1>1, PrefixIsText

\* A line is numbered with the lines up to its end.
LEMMA LineNumber ==
  ASSUME NEW text \in Texts, NEW e \in text.ends
  PROVE  Line(text, e).line = LineCount(text, 0, e)
<1>1. LineCount(text, 0, e) \in Nat
  BY EndsAreFinite DEF Texts
<1> QED
  BY <1>1 DEF Line, Entry

\* The lines in the order of their ends.
LEMMA LinesInOrder ==
  ASSUME NEW text \in Texts, NEW e \in text.ends
  PROVE  /\ \A k \in Nat : Line(text, e).line > LineCount(text, 0, k) <=> e > k
         /\ \A f \in text.ends : Line(text, e).line < Line(text, f).line <=> e < f
         /\ \A f \in text.ends : Line(text, e).line = Line(text, f).line => e = f
         /\ \A k \in {0} \union text.ends :
              e > k => \A i \in Line(text, e).pieces : i > k
<1>1. text.ends \subseteq Nat /\ e \in Nat
  BY DEF Texts
<1>2. \A k \in Nat : LineCount(text, 0, k) \in Nat
  BY EndsAreFinite
<1>3. \A k \in Nat : Line(text, e).line > LineCount(text, 0, k) <=> e > k
  BY <1>1, <1>2, LineNumber, CountGrows
<1>4. \A f \in text.ends : Line(text, e).line < Line(text, f).line <=> e < f
  BY <1>1, <1>2, LineNumber, CountGrows
<1>5. \A f \in text.ends : Line(text, e).line = Line(text, f).line => e = f
  BY <1>1, <1>2, LineNumber, CountGrows
<1>6. ASSUME NEW k \in {0} \union text.ends, e > k, NEW i \in Line(text, e).pieces
      PROVE  i > k
  <2>1. i \in 1 .. e /\ text.ends \cap (i .. e - 1) = {}
    BY <1>6 DEF Line, Entry
  <2>2. k \in Nat
    BY <1>1
  <2>3. ~ (k \in text.ends /\ i <= k)
    <3>1. i <= k => k \in i .. e - 1
      BY <1>1, <1>6, <2>1, <2>2
    <3> QED
      BY <3>1, <2>1
  <2> QED
    BY <2>1, <2>2, <2>3
<1> QED
  BY <1>3, <1>4, <1>5, <1>6


-----------------------------------------------------------------------------
(* Projections.                                                            *)

\* A projection counts its line ends, and one more line if the last is torn.
LEMMA ProjectionCounts ==
  ASSUME NEW p \in Texts
  PROVE  /\ ProjectedLines(p) \in Nat
         /\ ProjectedLines(p) >= Cardinality(p.ends)
         /\ Aligned(p) => ProjectedLines(p) = Cardinality(p.ends)
         /\ ~ Aligned(p) => ProjectedLines(p) = Cardinality(p.ends) + 1
<1>1. p.n \in Nat /\ p.ends \subseteq 1 .. p.n
  BY DEF Texts
<1>2. IsFiniteSet(p.ends)
  BY <1>1, EndsAreFinite
<1>3. Cardinality(p.ends) \in Nat
  BY <1>2, FS_CardinalityType
<1>4. CASE Aligned(p)
  <2>1. p.ends \union ({p.n} \ {0}) = p.ends
    BY <1>1, <1>4 DEF Aligned
  <2> QED
    BY <1>3, <1>4, <2>1 DEF ProjectedLines
<1>5. CASE ~ Aligned(p)
  <2>1. p.ends \union ({p.n} \ {0}) = p.ends \union {p.n} /\ p.n \notin p.ends
    BY <1>5 DEF Aligned
  <2>2. Cardinality(p.ends \union {p.n}) = Cardinality(p.ends) + 1
    BY <1>2, <2>1, FS_AddElement
  <2> QED
    BY <1>3, <1>5, <2>1, <2>2 DEF ProjectedLines
<1> QED
  BY <1>4, <1>5

\* Of a text whose prefix it is, it counts the lines up to its end.
LEMMA PrefixCounts ==
  ASSUME NEW text \in Texts, NEW p \in Texts, IsPrefix(p, text)
  PROVE  /\ p.n \in Nat /\ p.n <= text.n
         /\ \A e \in text.ends : e <= p.n => e \in p.ends
         /\ p.ends \subseteq text.ends
         /\ Cardinality(p.ends) = LineCount(text, 0, p.n)
<1>1. p.n \in Nat /\ p.ends = text.ends \cap (1 .. p.n) /\ p.n <= text.n
  BY DEF Texts, IsPrefix
<1>2. text.ends \subseteq Nat /\ \A e \in text.ends : e >= 1
  BY DEF Texts
<1>3. 0 + 1 .. p.n = 1 .. p.n
  BY <1>1
<1> QED
  BY <1>1, <1>2, <1>3 DEF LineCount

\* A line that comes after all those that it counts, a torn one too, has no
\* piece of it.
LEMMA UncountedIsBeyond ==
  ASSUME NEW text \in Texts, NEW p \in Texts, IsPrefix(p, text),
         NEW e \in text.ends, Line(text, e).line > ProjectedLines(p),
         NEW i \in Line(text, e).pieces
  PROVE  i > p.n
<1>1. /\ text.ends \subseteq Nat /\ e \in Nat /\ e >= 1
      /\ \A f \in text.ends : f >= 1
      /\ p.n \in Nat
      /\ IsFiniteSet(p.ends)
  <2>1. /\ text.ends \in SUBSET Nat /\ text.ends \subseteq 1 .. text.n
        /\ p.n \in Nat /\ text.n \in Nat
    BY DEF Texts
  <2>2. IsFiniteSet(p.ends)
    BY <2>1, EndsAreFinite
  <2> QED
    BY <2>1, <2>2
<1>2. i \in 1 .. e /\ text.ends \cap (i .. e - 1) = {}
  BY DEF Line, Entry
<1>3. SUFFICES ASSUME i <= p.n PROVE FALSE
  BY <1>1, <1>2
<1>4. /\ Cardinality(p.ends) \in Nat /\ ProjectedLines(p) \in Nat
      /\ LineCount(text, 0, e) \in Nat
      /\ LineCount(text, 0, e) > ProjectedLines(p)
      /\ LineCount(text, 0, e) > Cardinality(p.ends)
  <2>1. Cardinality(p.ends) \in Nat /\ LineCount(text, 0, e) \in Nat
    BY <1>1, FS_CardinalityType, EndsAreFinite
  <2> QED
    BY <2>1, ProjectionCounts, LineNumber
<1>5. e > p.n
  <2>1. SUFFICES ASSUME e <= p.n PROVE FALSE
    BY <1>1
  <2>2. LineCount(text, 0, e) <= LineCount(text, 0, p.n)
    BY <1>1, <2>1, CountGrows
  <2> QED
    BY <1>4, <2>2, PrefixCounts
<1>6. p.n \notin p.ends
  <2>1. p.n \in i .. e - 1
    BY <1>1, <1>2, <1>3, <1>5
  <2> QED
    BY <1>2, <2>1, PrefixCounts
<1>7. ~ Aligned(p)
  BY <1>1, <1>2, <1>3, <1>6 DEF Aligned
<1>8. text.ends \cap (0 + 1 .. e) \subseteq p.ends \union {e}
  <2>1. SUFFICES ASSUME NEW f \in text.ends, f <= e, f # e PROVE f \in p.ends
    OBVIOUS
  <2>2. f < i
    BY <1>1, <1>2, <2>1
  <2>3. f <= p.n
    BY <1>1, <1>2, <1>3, <2>2
  <2> QED
    BY <2>3, PrefixCounts
<1>9. /\ IsFiniteSet(p.ends \union {e})
      /\ Cardinality(p.ends \union {e}) = Cardinality(p.ends) + 1
  <2>1. e \notin p.ends
    BY <1>1, <1>5 DEF Texts
  <2> QED
    BY <1>1, <2>1, FS_AddElement
<1>10. LineCount(text, 0, e) <= Cardinality(p.ends) + 1
  <2>1. Cardinality(text.ends \cap (0 + 1 .. e)) <= Cardinality(p.ends \union {e})
    BY <1>8, <1>9, FS_Subset
  <2> QED
    BY <1>9, <2>1 DEF LineCount
<1> QED
  BY <1>4, <1>7, <1>10, ProjectionCounts

-----------------------------------------------------------------------------
(* Shards.                                                                 *)

LEMMA Quotients ==
  ASSUME NEW a \in Nat, NEW b \in Nat, NEW m \in Nat \ {0}
  PROVE  /\ a \div m \in 0 .. a
         /\ a \div m < b \div m => a < b
<1>1. a \div m \in Nat /\ a = m * (a \div m) + (a % m) /\ a % m \in 0 .. m - 1
  OBVIOUS
<1>2. b \div m \in Nat /\ b = m * (b \div m) + (b % m) /\ b % m \in 0 .. m - 1
  OBVIOUS
<1>3. a \div m <= a
  BY <1>1
<1>4. ASSUME a \div m < b \div m PROVE a < b
  <2> DEFINE p == a \div m
             q == b \div m
  <2>1. p \in Nat /\ q \in Nat /\ p + 1 <= q
    BY <1>1, <1>2, <1>4
  <2>2. m * (p + 1) <= m * q
    <3> HIDE DEF p, q
    <3> QED
      BY <2>1
  <2>3. m * (p + 1) = m * p + m
    <3> HIDE DEF p
    <3> QED
      BY <2>1
  <2> QED
    BY <1>1, <1>2, <2>2, <2>3
<1> QED
  BY <1>1, <1>3, <1>4


\* An entry's place grows with its line.
LEMMA PositionGrows ==
  ASSUME NEW E \in SUBSET Lined, IsFiniteSet(E), NEW e \in E, NEW f \in E
  PROVE  /\ Position(E, e) \in 0 .. Cardinality(E)
         /\ Position(E, e) < Position(E, f) => e.line < f.line
<1> DEFINE Less(g) == {h \in E : h.line < g.line}
<1>1. \A g \in E : Less(g) \in SUBSET E
  OBVIOUS
<1>2. \A g \in E : IsFiniteSet(Less(g)) /\ Cardinality(Less(g)) <= Cardinality(E)
  BY <1>1, FS_Subset
<1>3. \A g \in E : Cardinality(Less(g)) \in Nat
  BY <1>2, FS_CardinalityType
<1>4. Cardinality(E) \in Nat
  BY FS_CardinalityType
<1>5. e.line \in Nat /\ f.line \in Nat /\ \A h \in E : h.line \in Nat
  BY DEF Lined
<1>6. ASSUME ~ (e.line < f.line)
      PROVE  Cardinality(Less(f)) <= Cardinality(Less(e))
  <2>1. Less(f) \in SUBSET Less(e)
    BY <1>5, <1>6
  <2> HIDE DEF Less
  <2> QED
    BY <2>1, <1>2, FS_Subset
<1>7. /\ Position(E, e) = Cardinality(Less(e))
      /\ Position(E, f) = Cardinality(Less(f))
  BY DEF Position
<1> HIDE DEF Less
<1> QED
  BY <1>2, <1>3, <1>4, <1>6, <1>7

\* Shards that are written hold exactly the entries, in order, from the
\* ordinal on.
LEMMA Chunks ==
  ASSUME NEW E \in SUBSET Lined, IsFiniteSet(E), NEW ord \in Nat, NEW now \in Times,
         ledger.epoch \in Nat
  PROVE  /\ Chunk(E, ord, now) \subseteq Shard
         /\ \A s \in Chunk(E, ord, now) :
              s.entries \subseteq E /\ IsFiniteSet(s.entries)
         /\ \A s \in Chunk(E, ord, now) : s.ord \in ord .. ord + Cardinality(E)
         /\ \A e \in E : \E s \in Chunk(E, ord, now) : e \in s.entries
         /\ InOrder(Chunk(E, ord, now))
         /\ IsFiniteSet(Chunk(E, ord, now))
<1> DEFINE Place(e) == Position(E, e) \div ShardMax
           K == {Place(e) : e \in E}
           Cut(k) == [epoch |-> ledger.epoch, ord |-> ord + k, now |-> now,
                      entries |-> {e \in E : Place(e) = k}]
           C == Chunk(E, ord, now)
<1>1. C = {Cut(k) : k \in K}
  BY DEF Chunk
<1>2. ShardMax \in Nat \ {0} /\ Cardinality(E) \in Nat
  BY LiveTailConstants, FS_CardinalityType
<1>3. \A e \in E : Position(E, e) \in 0 .. Cardinality(E)
  BY PositionGrows
<1>4. \A e \in E : Place(e) \in 0 .. Cardinality(E)
  <2>1. \A e \in E : Place(e) \in 0 .. Position(E, e)
    BY <1>2, <1>3, Quotients
  <2> HIDE DEF Place
  <2> QED
    BY <1>2, <1>3, <2>1
<1>5. \A e, f \in E : Place(e) < Place(f) => e.line < f.line
  BY <1>2, <1>3, Quotients, PositionGrows
<1>6. IsFiniteSet(K)
  <2> DEFINE g == [e \in E |-> Place(e)]
  <2>1. g = [e \in E |-> g[e]] /\ K = {g[e] : e \in E}
    OBVIOUS
  <2> HIDE DEF g, K
  <2> QED
    BY <2>1, ImageIsFinite
<1> HIDE DEF Place
<1>7. IsFiniteSet(C)
  <2> DEFINE h == [k \in K |-> Cut(k)]
  <2>1. h = [k \in K |-> h[k]] /\ C = {h[k] : k \in K}
    BY <1>1
  <2> HIDE DEF h, K, C
  <2> QED
    BY <2>1, <1>6, ImageIsFinite
<1>8. K \subseteq 0 .. Cardinality(E)
  BY <1>4
<1>9. ASSUME NEW k \in K
      PROVE  /\ Cut(k) \in Shard
             /\ Cut(k).entries \subseteq E
             /\ IsFiniteSet(Cut(k).entries)
             /\ Cut(k).ord \in ord .. ord + Cardinality(E)
  <2>1. k \in 0 .. Cardinality(E)
    BY <1>8
  <2>2. {e \in E : Place(e) = k} \in SUBSET E
    OBVIOUS
  <2>3. IsFiniteSet({e \in E : Place(e) = k})
    BY <2>2, FS_Subset
  <2>4. ord + k \in Nat /\ ord + k \in ord .. ord + Cardinality(E)
    BY <2>1, <1>2
  <2>5. Cut(k) \in Shard
    BY <2>2, <2>4 DEF Shard
  <2> QED
    BY <2>2, <2>3, <2>4, <2>5
<1>10. \A e \in E : Place(e) \in K /\ e \in Cut(Place(e)).entries
  OBVIOUS
<1>11. ASSUME NEW k \in K, NEW l \in K
       PROVE  /\ Cut(k).ord = Cut(l).ord => Cut(k) = Cut(l)
              /\ Cut(k).ord < Cut(l).ord =>
                   \A e \in Cut(k).entries, f \in Cut(l).entries : e.line < f.line
  <2>1. k \in Nat /\ l \in Nat
    BY <1>8, <1>2
  <2>2. Cut(k).ord = ord + k /\ Cut(l).ord = ord + l
    OBVIOUS
  <2>3. Cut(k).ord = Cut(l).ord => k = l
    BY <2>1, <2>2
  <2>4. Cut(k).ord < Cut(l).ord => k < l
    BY <2>1, <2>2
  <2> QED
    BY <2>3, <2>4, <1>5
<1> HIDE DEF Cut, K
<1>12. C \subseteq Shard /\ \A s \in C :
         s.entries \subseteq E /\ IsFiniteSet(s.entries) /\ s.ord \in ord .. ord + Cardinality(E)
  BY <1>1, <1>9
<1>13. \A e \in E : \E s \in C : e \in s.entries
  BY <1>1, <1>10
<1>14. InOrder(C)
  BY <1>1, <1>11 DEF InOrder
<1> QED
  BY <1>7, <1>12, <1>13, <1>14


-----------------------------------------------------------------------------
(* What a capture plans.                                                   *)

LEMMA PlanTypes ==
  ASSUME TypeOK, w.pc = "plan"
  PROVE  /\ w.p \in Texts
         /\ ProjectedLines(w.p) \in Nat
         /\ ledger.text \in Texts
         /\ ledger.epoch \in Nat
         /\ Frontier.done \in Nat
         /\ Frontier.lines \in Nat
         /\ Frontier.shards \subseteq posts.shards
<1>1. w.p \in Texts
  BY DEF TypeOK, Writers, Idle
<1>2. ledger.text \in Texts /\ ledger.epoch \in Nat
  BY DEF TypeOK
<1>3. w.p.n \in Nat /\ ProjectedLines(w.p) \in Nat
  BY <1>1, ProjectionCounts DEF Texts
<1>4. ledger.text.n \in Nat
  BY <1>2 DEF Texts
<1>5. Min({w.p.n, ledger.text.n}) \in Nat
  <2> DEFINE a == w.p.n
             b == ledger.text.n
  <2>1. \E x \in {a, b} : \A y \in {a, b} : x <= y
    <3> HIDE DEF a, b
    <3>1. a \in Nat /\ b \in Nat
      BY <1>3, <1>4 DEF a, b
    <3>2. CASE a <= b
      BY <3>1, <3>2
    <3>3. CASE b <= a
      BY <3>1, <3>3
    <3> QED
      BY <3>1, <3>2, <3>3
  <2>2. Min({a, b}) \in {a, b}
    BY <2>1 DEF Min
  <2> QED
    BY <2>2, <1>3, <1>4
<1>6. posts.done \in Nat /\ posts.lines \in Nat
  BY DEF TypeOK, Manifests
<1> QED
  BY <1>1, <1>2, <1>3, <1>5, <1>6 DEF Frontier

LEMMA RetainedTypes ==
  ASSUME TypeOK, w.pc = "plan"
  PROVE  /\ Retained \subseteq posts.shards
         /\ Retained \subseteq Shard
         /\ IsFiniteSet(Retained)
         /\ \A s \in Retained : IsFiniteSet(s.entries)
         /\ IsFiniteSet(UNION {s.entries : s \in Retained})
         /\ UNION {s.entries : s \in Retained} \subseteq Lined
         /\ \E b \in Nat : \A s \in Retained : s.ord <= b
<1>1. Retained \in SUBSET posts.shards
  BY PlanTypes DEF Retained
<1>2. posts.shards \subseteq Shard /\ Small(posts)
  BY DEF TypeOK, Manifests
<1>3. IsFiniteSet(Retained)
  BY <1>1, <1>2, FS_Subset DEF Small
<1>4. \A s \in Retained : IsFiniteSet(s.entries) /\ s.entries \subseteq Lined
  BY <1>1, <1>2 DEF Small, Shard
<1>5. IsFiniteSet({s.entries : s \in Retained})
  <2> DEFINE f == [s \in Retained |-> s.entries]
  <2>1. f = [s \in Retained |-> f[s]] /\ {s.entries : s \in Retained} = {f[s] : s \in Retained}
    OBVIOUS
  <2> HIDE DEF f
  <2> QED
    BY <2>1, <1>3, ImageIsFinite
<1>6. IsFiniteSet(UNION {s.entries : s \in Retained})
  <2>1. \A T \in {s.entries : s \in Retained} : IsFiniteSet(T)
    BY <1>4
  <2> QED
    BY <2>1, <1>5, FS_UNION
<1>7. \E b \in Nat : \A s \in Retained : s.ord <= b
  BY <1>1, <1>2 DEF Small
<1> QED
  BY <1>1, <1>2, <1>3, <1>4, <1>6, <1>7

\* The last retained shard is the one with the greatest ordinal.
LEMMA NewestIsLast ==
  ASSUME TypeOK, w.pc = "plan", Retained # {}
  PROVE  /\ Newest \in Retained
         /\ \A t \in Retained : t.ord <= Newest.ord
<1> DEFINE O == {s.ord : s \in Retained}
<1>1. O \in SUBSET Nat /\ O # {}
  BY RetainedTypes DEF Shard
<1>2. PICK b \in Nat : \A x \in O : x <= b
  BY RetainedTypes
<1>3. Max(O) \in O /\ \A x \in O : x <= Max(O)
  <2> HIDE DEF O
  <2> QED
    BY <1>1, <1>2, Greatest
<1>4. \E s \in Retained : \A t \in Retained : t.ord <= s.ord
  BY <1>3
<1> QED
  BY <1>4 DEF Newest

LEMMA NewTypes ==
  ASSUME TypeOK, w.pc = "plan"
  PROVE  New \subseteq Lined /\ IsFiniteSet(New)
BY PlanTypes, EntriesAreTyped DEF New

\* Whatever the reason for writing, what is written are chunks of the new
\* lines and of the retained shards that are not kept.
LEMMA WhatIsWritten ==
  ASSUME TypeOK, w.pc = "plan", NEW secret \in BOOLEAN, NEW now \in Times
  PROVE  \E E \in SUBSET Lined, ord \in Nat :
           /\ IsFiniteSet(E)
           /\ Shards(secret, now).written = Chunk(E, ord, now)
           /\ Shards(secret, now).kept \subseteq Retained
           /\ New \subseteq E
           /\ \A e \in E : e \in New \/ \E t \in Retained : e \in t.entries
           /\ \A t \in Retained \ Shards(secret, now).kept :
                \A e \in t.entries : e.line > ProjectedLines(w.p) => e \in E
           /\ InOrder(Retained) =>
                \A t \in Shards(secret, now).kept :
                  /\ t.ord < ord
                  /\ \A e \in t.entries, f \in E : f \in New \/ e.line < f.line
<1> DEFINE all == UNION {s.entries : s \in Retained}
<1>1. CASE secret \/ Crossed
  <2> DEFINE E == {e \in all : e.line > ProjectedLines(w.p)} \union New
  <2>1. Shards(secret, now) = [kept |-> {}, written |-> Chunk(E, 0, now)]
    BY <1>1 DEF Shards
  <2>2. E \in SUBSET Lined
    BY RetainedTypes, NewTypes
  <2>3. IsFiniteSet(E)
    <3>1. IsFiniteSet(all)
      BY RetainedTypes
    <3>2. {e \in all : e.line > ProjectedLines(w.p)} \in SUBSET all
      OBVIOUS
    <3>3. IsFiniteSet({e \in all : e.line > ProjectedLines(w.p)})
      BY <3>1, <3>2, FS_Subset
    <3> QED
      BY <3>3, NewTypes, FS_Union
  <2>4. \A e \in E : e \in New \/ \E t \in Retained : e \in t.entries
    OBVIOUS
  <2>5. \A t \in Retained : \A e \in t.entries : e.line > ProjectedLines(w.p) => e \in E
    OBVIOUS
  <2>6. New \subseteq E
    OBVIOUS
  <2> HIDE DEF E
  <2> QED
    BY <2>1, <2>2, <2>3, <2>4, <2>5, <2>6
<1>2. CASE ~(secret \/ Crossed) /\ Open
  <2> DEFINE E == Newest.entries \union New
  <2>1. Shards(secret, now) = [kept |-> Retained \ {Newest},
                               written |-> Chunk(E, Newest.ord, now)]
    BY <1>2 DEF Shards
  <2>2. Newest \in Retained /\ \A t \in Retained : t.ord <= Newest.ord
    BY <1>2, NewestIsLast DEF Open
  <2>3. /\ Newest.entries \subseteq Lined
        /\ IsFiniteSet(Newest.entries)
        /\ Newest.ord \in Nat
        /\ \A t \in Retained : t.ord \in Nat
    BY <2>2, RetainedTypes DEF Shard
  <2>4. E \in SUBSET Lined /\ IsFiniteSet(E)
    BY <2>3, NewTypes, FS_Union
  <2>5. ASSUME InOrder(Retained), NEW t \in Retained \ {Newest}
        PROVE  /\ t.ord < Newest.ord
               /\ \A e \in t.entries, f \in Newest.entries : e.line < f.line
    BY <2>2, <2>3, <2>5 DEF InOrder
  <2>6. \A e \in E : e \in New \/ e \in Newest.entries
    OBVIOUS
  <2>7. New \subseteq E /\ Newest.entries \subseteq E
    OBVIOUS
  <2> HIDE DEF E
  <2> QED
    BY <2>1, <2>2, <2>3, <2>4, <2>5, <2>6, <2>7
<1>3. CASE ~(secret \/ Crossed) /\ ~Open
  <2> DEFINE ord == IF Retained = {} THEN 0 ELSE Newest.ord + 1
  <2>1. Shards(secret, now) = [kept |-> Retained, written |-> Chunk(New, ord, now)]
    BY <1>3 DEF Shards
  <2>2. \A t \in Retained : t.ord \in Nat
    BY RetainedTypes DEF Shard
  <2>3. ord \in Nat /\ \A t \in Retained : t.ord < ord
    BY <2>2, NewestIsLast
  <2> HIDE DEF ord
  <2> QED
    BY <2>1, <2>3, NewTypes
<1> QED
  BY <1>1, <1>2, <1>3


\* The shards of the planned manifest: of their type, finitely many, with new
\* or retained lines only, all those that they must have, and in order.
LEMMA PlannedShards ==
  ASSUME TypeOK, w.pc = "plan", NEW secret \in BOOLEAN, NEW now \in Times,
         NEW S, S = Shards(secret, now).kept \union Shards(secret, now).written
  PROVE  /\ Shards(secret, now).kept \subseteq Retained
         /\ Shards(secret, now).written \subseteq Shard
         /\ S \subseteq Shard
         /\ IsFiniteSet(S)
         /\ \A s \in S : IsFiniteSet(s.entries)
         /\ \E b \in Nat : \A s \in S : s.ord <= b
         /\ \A s \in S : \A e \in s.entries :
              e \in New \/ \E t \in Retained : e \in t.entries
         /\ \A t \in Retained : \A e \in t.entries :
              e.line > ProjectedLines(w.p) => \E s \in S : e \in s.entries
         /\ \A e \in New : \E s \in S : e \in s.entries
         /\ /\ InOrder(Retained)
            /\ \A t \in Retained : \A e \in t.entries, f \in New : e.line < f.line
            => InOrder(S)
<1> DEFINE kept == Shards(secret, now).kept
           written == Shards(secret, now).written
<1>1. PICK E \in SUBSET Lined, ord \in Nat :
           /\ IsFiniteSet(E)
           /\ written = Chunk(E, ord, now)
           /\ kept \subseteq Retained
           /\ New \subseteq E
           /\ \A e \in E : e \in New \/ \E t \in Retained : e \in t.entries
           /\ \A t \in Retained \ kept :
                \A e \in t.entries : e.line > ProjectedLines(w.p) => e \in E
           /\ InOrder(Retained) =>
                \A t \in kept :
                  /\ t.ord < ord
                  /\ \A e \in t.entries, f \in E : f \in New \/ e.line < f.line
  BY WhatIsWritten
<1> HIDE DEF kept, written
<1>2. /\ written \subseteq Shard
      /\ \A s \in written : s.entries \subseteq E /\ IsFiniteSet(s.entries)
      /\ \A s \in written : s.ord \in ord .. ord + Cardinality(E)
      /\ \A e \in E : \E s \in written : e \in s.entries
      /\ InOrder(written)
      /\ IsFiniteSet(written)
  BY <1>1, PlanTypes, Chunks
<1>3. S = kept \union written
  BY DEF kept, written
<1>4. S \subseteq Shard /\ IsFiniteSet(S) /\ \A s \in S : IsFiniteSet(s.entries)
  <2>1. kept \in SUBSET Retained
    BY <1>1
  <2>2. IsFiniteSet(kept)
    BY <2>1, RetainedTypes, FS_Subset
  <2>3. IsFiniteSet(kept \union written)
    BY <2>2, <1>2, FS_Union
  <2> QED
    BY <2>1, <2>3, <1>2, <1>3, RetainedTypes
<1>5. \E b \in Nat : \A s \in S : s.ord <= b
  <2>1. PICK b \in Nat : \A s \in Retained : s.ord <= b
    BY RetainedTypes
  <2>2. Cardinality(E) \in Nat
    BY <1>1, FS_CardinalityType
  <2>3. /\ b + ord + Cardinality(E) \in Nat
        /\ \A s \in S : s.ord <= b + ord + Cardinality(E)
    <3>1. \A s \in kept : s.ord \in Nat /\ s.ord <= b
      BY <2>1, <1>1, RetainedTypes DEF Shard
    <3> QED
      BY <3>1, <2>2, <1>2, <1>3
  <2> QED
    BY <2>3
<1>6. \A s \in S : \A e \in s.entries : e \in New \/ \E t \in Retained : e \in t.entries
  BY <1>1, <1>2, <1>3
<1>7. ASSUME NEW t \in Retained, NEW e \in t.entries, e.line > ProjectedLines(w.p)
      PROVE  \E s \in S : e \in s.entries
  <2>1. CASE t \in kept
    BY <2>1, <1>3
  <2>2. CASE t \notin kept
    BY <2>2, <1>1, <1>2, <1>3, <1>7
  <2> QED
    BY <2>1, <2>2
<1>8. \A e \in New : \E s \in S : e \in s.entries
  BY <1>1, <1>2, <1>3
<1>9. ASSUME InOrder(Retained),
             \A t \in Retained : \A e \in t.entries, f \in New : e.line < f.line
      PROVE  InOrder(S)
  <2>1. \A t \in kept : \A s \in written :
          t.ord < s.ord /\ \A e \in t.entries, f \in s.entries : e.line < f.line
    <3>1. SUFFICES ASSUME NEW t \in kept, NEW s \in written
                   PROVE  /\ t.ord < s.ord
                          /\ \A e \in t.entries, f \in s.entries : e.line < f.line
      OBVIOUS
    <3>2. t \in Retained /\ t.ord \in Nat
      BY <1>1, RetainedTypes DEF Shard
    <3>3. s.ord \in Nat /\ s.ord >= ord /\ s.entries \subseteq E
      BY <1>1, <1>2, FS_CardinalityType
    <3>4. t.ord < ord /\ \A e \in t.entries, f \in E : f \in New \/ e.line < f.line
      BY <1>1, <1>9
    <3> QED
      BY <3>2, <3>3, <3>4, <1>9
  <2>2. \A s \in S : s.ord \in Nat
    BY <1>4 DEF Shard
  <2>3. \A t \in kept : t \in Retained
    BY <1>1
  <2>4. SUFFICES ASSUME NEW s \in S, NEW t \in S
                 PROVE  /\ s.ord = t.ord => s = t
                        /\ s.ord < t.ord =>
                             \A e \in s.entries, f \in t.entries : e.line < f.line
    BY DEF InOrder
  <2>5. CASE s \in kept /\ t \in kept
    BY <2>3, <2>5, <1>9 DEF InOrder
  <2>6. CASE s \in kept /\ t \in written
    BY <2>1, <2>2, <2>6
  <2>7. CASE s \in written /\ t \in kept
    BY <2>1, <2>2, <2>7
  <2>8. CASE s \in written /\ t \in written
    BY <1>2, <2>8 DEF InOrder
  <2> QED
    BY <1>3, <2>5, <2>6, <2>7, <2>8
<1> QED
  BY <1>1, <1>2, <1>4, <1>5, <1>6, <1>7, <1>8, <1>9 DEF kept, written

LEMMA PrefixOfAll ==
  ASSUME NEW text \in Texts
  PROVE  Prefix(text, text.n) = text
<1>1. text = [n |-> text.n, ends |-> text.ends] /\ text.ends \subseteq 1 .. text.n
  BY DEF Texts
<1>2. text.ends \cap (1 .. text.n) = text.ends
  BY <1>1
<1> QED
  BY <1>1, <1>2 DEF Prefix

\* If the planned manifest is the source's own, its frontier is a line end,
\* and the shards up to there have all lines that are not projected.
LEMMA FrontierIsExact ==
  ASSUME IInv, w.pc = "plan",
         IF Continues THEN posts.own ELSE IsPrefix(w.p, ledger.text) /\ Aligned(w.p)
  PROVE  /\ Frontier.done = 0 \/ Frontier.done \in ledger.text.ends
         /\ Frontier.lines = LineCount(ledger.text, 0, Frontier.done)
         /\ \A t \in Frontier.shards : \A l \in t.entries :
              \E e \in ledger.text.ends : e <= Frontier.done /\ l = Line(ledger.text, e)
         /\ \A e \in ledger.text.ends :
              e <= Frontier.done /\ Line(ledger.text, e).line > ProjectedLines(w.p)
              => \E t \in Frontier.shards : Line(ledger.text, e) \in t.entries
         /\ InOrder(Frontier.shards)
<1> DEFINE T == ledger.text
<1>1. /\ TypeOK
      /\ T \in Texts
      /\ w.p \in Texts
      /\ w.p.n \in Nat /\ ProjectedLines(w.p) \in Nat
  <2>1. TypeOK /\ T \in Texts /\ w.p \in Texts /\ ProjectedLines(w.p) \in Nat
    BY PlanTypes DEF IInv, TypeOK
  <2> QED
    BY <2>1 DEF Texts
<1>2. CASE Continues
  <2> DEFINE P == Prefix(T, posts.captured)
  <2>1. /\ Frontier.done = posts.done
        /\ Frontier.lines = posts.lines
        /\ Frontier.shards = posts.shards
        /\ ProjectedLines(w.p) >= posts.plines
    BY <1>2 DEF Frontier, Continues
  <2>2. /\ posts.captured \in Nat /\ posts.plines \in Nat
        /\ posts.captured <= T.n
        /\ Exact(posts, P)
    BY <1>2, <1>1 DEF IInv, ManifestsOK, Kept, ExactIn, Continues, TypeOK, Manifests
  <2>3. /\ P \in Texts
        /\ P.ends = {e \in T.ends : e <= posts.captured}
        /\ Lines(P) = {Line(T, e) : e \in {e \in T.ends : e <= posts.captured}}
    BY <1>1, <2>2, PrefixIsText, LinesOfPrefix
  <2> HIDE DEF P, T
  <2>4. /\ posts.done = 0 \/ posts.done \in T.ends
        /\ \A e \in T.ends : e <= posts.captured <=> e <= posts.done
    <3>1. T.ends \subseteq Nat /\ \A e \in T.ends : e >= 1
      BY <1>1 DEF Texts
    <3>2. posts.done = 0 \/ (posts.done \in T.ends /\ posts.done <= posts.captured)
      BY <2>2, <2>3 DEF Exact
    <3>3. \A e \in T.ends : e <= posts.captured => e <= posts.done
      BY <2>2, <2>3 DEF Exact
    <3> QED
      BY <3>1, <3>2, <3>3, <2>2
  <2>5. posts.lines = LineCount(T, 0, posts.done)
    <3>1. P.ends = T.ends \cap (0 + 1 .. posts.done)
      BY <2>3, <2>4, <1>1 DEF Texts
    <3> QED
      BY <3>1, <2>2 DEF Exact, LineCount
  <2>6. \A t \in posts.shards : \A l \in t.entries :
          \E e \in T.ends : e <= posts.done /\ l = Line(T, e)
    BY <2>2, <2>3, <2>4 DEF Exact
  <2>7. ASSUME NEW e \in T.ends, e <= posts.done, Line(T, e).line > ProjectedLines(w.p)
        PROVE  \E t \in posts.shards : Line(T, e) \in t.entries
    <3>1. Line(T, e) \in Lines(P)
      BY <2>3, <2>4, <2>7
    <3>2. Line(T, e).line \in Nat
      <4>1. e \in Nat
        BY <1>1 DEF Texts
      <4>2. T \in Texts
        BY <1>1
      <4>3. Line(T, e).line = LineCount(T, 0, e)
        BY <4>2, LineNumber
      <4>4. LineCount(T, 0, e) \in Nat
        BY <4>1, <4>2, EndsAreFinite
      <4> QED
        BY <4>3, <4>4
    <3>3. Line(T, e).line > posts.plines
      BY <3>2, <2>1, <2>2, <2>7, <1>1
    <3> QED
      BY <3>1, <3>3, <2>2 DEF Exact
  <2>8. InOrder(posts.shards)
    BY <2>2 DEF Exact
  <2> QED
    BY <2>1, <2>4, <2>5, <2>6, <2>7, <2>8 DEF T
<1>3. CASE ~Continues
  <2>1. /\ w.p.n <= T.n /\ T.n \in Nat
        /\ w.p.n = 0 \/ w.p.n \in T.ends
        /\ ProjectedLines(w.p) = LineCount(T, 0, w.p.n)
    <3>1. IsPrefix(w.p, T) /\ Aligned(w.p)
      BY <1>3
    <3> QED
      BY <3>1, <1>1, PrefixCounts, ProjectionCounts DEF Aligned, Texts
  <2>2. Min({w.p.n, T.n}) = w.p.n
    <3> DEFINE a == w.p.n
               b == T.n
    <3>1. a \in Nat /\ b \in Nat /\ a <= b
      BY <2>1, <1>1
    <3> HIDE DEF a, b
    <3>2. \E x \in {a, b} : \A y \in {a, b} : x <= y
      BY <3>1
    <3>3. Min({a, b}) \in {a, b} /\ \A y \in {a, b} : Min({a, b}) <= y
      BY <3>2 DEF Min
    <3>4. Min({a, b}) = a
      BY <3>1, <3>3
    <3> QED
      BY <3>4 DEF a, b
  <2>3. /\ Frontier.done = w.p.n
        /\ Frontier.lines = ProjectedLines(w.p)
        /\ Frontier.shards = {}
    BY <1>3, <2>2 DEF Frontier
  <2>4. ASSUME NEW e \in T.ends, e <= w.p.n
        PROVE  ~ (Line(T, e).line > ProjectedLines(w.p))
    <3>1. e \in Nat
      BY <1>1 DEF Texts
    <3>2. Line(T, e).line > LineCount(T, 0, w.p.n) <=> e > w.p.n
      BY <1>1, LinesInOrder
    <3> QED
      BY <3>1, <3>2, <2>1, <2>4, <1>1
  <2> QED
    BY <2>1, <2>3, <2>4, <1>1 DEF InOrder
<1> QED
  BY <1>2, <1>3


\* The manifest that is planned is of its type and exact.
LEMMA PlannedManifest ==
  ASSUME IInv, w.pc = "plan", NEW secret \in BOOLEAN, NEW now \in Times,
         NEW S, S = Shards(secret, now).kept \union Shards(secret, now).written
  PROVE  /\ Manifest(S) \in Manifests
         /\ Small(Manifest(S))
         /\ Manifest(S).epoch = ledger.epoch
         /\ ExactIn(Manifest(S), ledger.text)
<1> DEFINE T == ledger.text
           M == Manifest(S)
           d == CompleteEnd(T, Frontier.done)
<1>1. /\ TypeOK
      /\ T \in Texts
      /\ T.n \in Nat
      /\ T.ends \subseteq Nat
      /\ Frontier.done \in Nat
      /\ Frontier.lines \in Nat
  BY PlanTypes DEF IInv, Texts
<1>2. /\ d \in Nat
      /\ d >= Frontier.done
      /\ d = Frontier.done \/ d \in T.ends
      /\ \A e \in T.ends : e <= d
  BY <1>1, LastEnd
<1>3. LineCount(T, Frontier.done, T.n) \in Nat
  BY <1>1, EndsAreFinite
<1>4. /\ S \subseteq Shard
      /\ IsFiniteSet(S)
      /\ \A s \in S : IsFiniteSet(s.entries)
      /\ \E b \in Nat : \A s \in S : s.ord <= b
      /\ \A s \in S : \A e \in s.entries :
           e \in New \/ \E t \in Retained : e \in t.entries
      /\ \A t \in Retained : \A e \in t.entries :
           e.line > ProjectedLines(w.p) => \E s \in S : e \in s.entries
      /\ \A e \in New : \E s \in S : e \in s.entries
      /\ /\ InOrder(Retained)
         /\ \A t \in Retained : \A e \in t.entries, f \in New : e.line < f.line
         => InOrder(S)
  BY <1>1, PlannedShards
<1>5. /\ M.epoch = ledger.epoch
      /\ M.done = d
      /\ M.lines = Frontier.lines + LineCount(T, Frontier.done, T.n)
      /\ M.captured = T.n
      /\ M.plines = ProjectedLines(w.p)
      /\ M.shards = S
      /\ M.own => /\ IsPrefix(w.p, ledger.text)
                  /\ IF Continues THEN posts.own ELSE Aligned(w.p)
  BY DEF Manifest
<1>6. M \in Manifests
  <2>1. w.p.n \in Nat /\ ProjectedLines(w.p) \in Nat /\ ledger.epoch \in Nat
    BY <1>1, PlanTypes DEF Texts
  <2>2. Frontier.lines + LineCount(T, Frontier.done, T.n) \in Nat
    BY <1>1, <1>3
  <2>3. (/\ IsPrefix(w.p, ledger.text)
         /\ IF Continues THEN posts.own ELSE Aligned(w.p)) \in BOOLEAN
    OBVIOUS
  <2> HIDE DEF T, d
  <2> QED
    BY <2>1, <2>2, <2>3, <1>1, <1>2, <1>4 DEF Manifest, Manifests, T, d
<1>7. Small(M)
  BY <1>4, <1>5 DEF Small
<1> HIDE DEF M, T, d
<1>8. ASSUME M.own PROVE Exact(M, T)
  <2>1. /\ Frontier.done = 0 \/ Frontier.done \in T.ends
        /\ Frontier.lines = LineCount(T, 0, Frontier.done)
        /\ \A t \in Frontier.shards : \A l \in t.entries :
             \E e \in T.ends : e <= Frontier.done /\ l = Line(T, e)
        /\ \A e \in T.ends :
             e <= Frontier.done /\ Line(T, e).line > ProjectedLines(w.p)
             => \E t \in Frontier.shards : Line(T, e) \in t.entries
        /\ InOrder(Frontier.shards)
    BY <1>5, <1>8, FrontierIsExact DEF T
  <2>2. New = {Line(T, e) : e \in {e \in T.ends : e > Frontier.done}}
    BY <2>1, <1>1, EntriesAreLines DEF New, T
  <2>3. M.done = 0 \/ M.done \in T.ends
    BY <1>2, <1>5, <2>1
  <2>4. M.lines = Cardinality(T.ends)
    <3>1. Frontier.done <= T.n
      BY <2>1, <1>1 DEF Texts
    <3>2. LineCount(T, 0, T.n) = LineCount(T, 0, Frontier.done) + LineCount(T, Frontier.done, T.n)
      BY <3>1, <1>1, CountAdds
    <3>3. T.ends \cap (0 + 1 .. T.n) = T.ends
      BY <1>1 DEF Texts
    <3> QED
      BY <3>2, <3>3, <1>5, <2>1 DEF LineCount
  <2>5. Retained = {t \in Frontier.shards : \E e \in t.entries : e.line > ProjectedLines(w.p)}
    BY DEF Retained, Beyond
  <2>6. Lines(T) = {Line(T, e) : e \in T.ends}
    BY <1>1, LinesOfText
  <2>7. \A s \in S : s.entries \subseteq Lines(T)
    BY <1>4, <2>1, <2>2, <2>5, <2>6
  <2>8. ASSUME NEW e \in T.ends, Line(T, e).line > ProjectedLines(w.p)
        PROVE  \E s \in S : Line(T, e) \in s.entries
    <3>1. CASE e > Frontier.done
      BY <3>1, <2>2, <1>4
    <3>2. CASE e <= Frontier.done
      <4>1. PICK t \in Frontier.shards : Line(T, e) \in t.entries
        BY <3>2, <2>1, <2>8
      <4>2. t \in Retained
        BY <4>1, <2>5, <2>8
      <4> QED
        BY <4>1, <4>2, <1>4, <2>8
    <3> QED
      BY <3>1, <3>2, <1>1
  <2>9. InOrder(S)
    <3>1. InOrder(Retained)
      BY <2>1, <2>5 DEF InOrder
    <3>2. ASSUME NEW t \in Retained, NEW l \in t.entries, NEW m \in New
          PROVE  l.line < m.line
      <4>1. PICK e \in T.ends : e <= Frontier.done /\ l = Line(T, e)
        BY <2>1, <2>5
      <4>2. PICK f \in T.ends : f > Frontier.done /\ m = Line(T, f)
        BY <2>2
      <4>3. e < f
        BY <4>1, <4>2, <1>1
      <4> QED
        BY <4>1, <4>2, <4>3, <1>1, LinesInOrder
    <3> QED
      BY <3>1, <3>2, <1>4
  <2> QED
    BY <1>2, <1>5, <2>3, <2>4, <2>6, <2>7, <2>8, <2>9 DEF Exact
<1>9. M.own => M.captured <= T.n /\ Exact(M, Prefix(T, M.captured))
  BY <1>1, <1>5, <1>8, PrefixOfAll
<1> QED
  BY <1>5, <1>6, <1>7, <1>9 DEF ExactIn, M, T


-----------------------------------------------------------------------------
(* The steps keep the invariant.                                           *)

\* What was exact stays exact when lines are appended.
LEMMA TextGrows ==
  ASSUME NEW T \in Texts, NEW U \in Texts, T.n <= U.n,
         U.ends \cap (1 .. T.n) = T.ends
  PROVE  \A m \in Manifests : ExactIn(m, T) => ExactIn(m, U)
<1>1. T.n \in Nat /\ U.n \in Nat /\ T.ends \subseteq 1 .. T.n
  BY DEF Texts
<1>2. \A k \in Nat : k <= T.n => U.ends \cap (1 .. k) = T.ends \cap (1 .. k)
  BY <1>1
<1>3. ASSUME NEW m \in Manifests, ExactIn(m, T)
      PROVE  ExactIn(m, U)
  <2>1. m.captured \in Nat
    BY DEF Manifests
  <2>2. m.captured <= T.n => Prefix(U, m.captured) = Prefix(T, m.captured)
    BY <1>2, <2>1 DEF Prefix
  <2> QED
    BY <1>1, <1>3, <2>1, <2>2 DEF ExactIn
<1> QED
  BY <1>3

\* A writer at a step has what the step needs.
LEMMA WriterForms ==
  ASSUME TypeOK
  PROVE  /\ w.pc = "plan" => w.p \in Texts
         /\ w.pc = "shards" =>
              /\ w = [pc |-> "shards", todo |-> w.todo, manifest |-> w.manifest,
                      stale |-> w.stale]
              /\ w.todo \subseteq Shard
              /\ w.manifest \in Manifests
              /\ w.stale \subseteq Shard
              /\ Small(w.manifest)
         /\ w.pc = "unlink" =>
              w = [pc |-> "unlink", stale |-> w.stale] /\ w.stale \subseteq Shard
BY DEF TypeOK, Writers, Idle

\* So has a search.
LEMMA SearchForms ==
  ASSUME TypeOK
  PROVE  /\ r.pc = "overlay" => r.a \in Texts
         /\ r.pc = "manifest" =>
              r.a \in Texts /\ r.text \in Texts /\ r.o \in Overlays
         /\ r.pc = "shards" =>
              /\ r = [pc |-> "shards", a |-> r.a, text |-> r.text, o |-> r.o,
                      todo |-> r.todo, found |-> r.found]
              /\ r.a \in Texts
              /\ r.text \in Texts
              /\ r.o \in Overlays
              /\ r.todo \subseteq Shard
              /\ r.found \subseteq Found
BY DEF TypeOK, Searches, Idle

LEMMA InitIInv == Init => IInv
<1> SUFFICES ASSUME Init PROVE IInv
  OBVIOUS
<1>1. MaxFaults \in Nat
  BY LiveTailConstants
<1>2. NoPosts \in Manifests /\ Small(NoPosts) /\ NoPosts.shards = {} /\ NoPosts.epoch = 0
  BY FS_EmptySet DEF NoPosts, Manifests, Small
<1>3. ledger.epoch = 1 /\ ledger.text \in Texts
  BY DEF Init, Nothing, Texts
<1>4. Nothing \in Texts
  BY DEF Nothing, Texts
<1>5. ledger \in [epoch : 1 .. MaxEpochs, text : Texts, attested : SUBSET Nat]
  BY <1>4, LiveTailConstants DEF Init
<1>6. w = Idle /\ r = Idle /\ w.pc = "idle" /\ r.pc = "idle"
  BY DEF Init, Idle
<1>7. TypeOK
  BY <1>1, <1>2, <1>4, <1>5, <1>6 DEF Init, TypeOK, Overlays, Writers, Searches
<1>9. ManifestsOK
  BY <1>2, <1>3, <1>6 DEF ManifestsOK, Kept, Init
<1>10. FilesOK /\ SearchOK
  BY <1>2, <1>6 DEF FilesOK, SearchOK, Init
<1> QED
  BY <1>7, <1>9, <1>10 DEF IInv

LEMMA SearchSame ==
  ASSUME SearchOK, UNCHANGED r
  PROVE  SearchOK'
BY DEF SearchOK, Matches

LEMMA PublishStep ==
  ASSUME IInv, Publish
  PROVE  IInv'
<1>1. PICK p \in Projectable :
        projected' = [now |-> p, all |-> projected.all \union {p}]
  BY DEF Publish
<1>2. UNCHANGED <<ledger, files, posts, overlay, w, r, faults>>
  BY DEF Publish, tail
<1>3. p \in Texts /\ projected.all \subseteq Texts
  BY LiveTailConstants DEF IInv, TypeOK
<1>4. projected' \in [now : Texts, all : SUBSET Texts]
  BY <1>1, <1>3
<1>5. TypeOK'
  BY <1>2, <1>4 DEF IInv, TypeOK, Small
<1>6. ManifestsOK' /\ FilesOK' /\ SearchOK'
  BY <1>2, SearchSame DEF IInv, ManifestsOK, Kept, FilesOK
<1> QED
  BY <1>5, <1>6 DEF IInv

LEMMA AttestStep ==
  ASSUME IInv, Attest
  PROVE  IInv'
<1>1. /\ ledger' = [ledger EXCEPT !.attested = @ \union {ledger.text.n}]
      /\ UNCHANGED <<projected, files, posts, overlay, w, r, faults>>
  BY DEF Attest, tail
<1>2. /\ TypeOK
      /\ ledger \in [epoch : 1 .. MaxEpochs, text : Texts, attested : SUBSET Nat]
      /\ ledger.text.n \in Nat
  BY DEF IInv, TypeOK, Texts
<1>3. ledger'.epoch = ledger.epoch /\ ledger'.text = ledger.text
  BY <1>1, <1>2
<1>4. ledger' \in [epoch : 1 .. MaxEpochs, text : Texts, attested : SUBSET Nat]
  BY <1>1, <1>2
<1>5. TypeOK'
  BY <1>1, <1>2, <1>4 DEF TypeOK, Small
<1>6. ManifestsOK' /\ FilesOK' /\ SearchOK'
  BY <1>1, <1>3, SearchSame DEF IInv, ManifestsOK, Kept, FilesOK
<1> QED
  BY <1>5, <1>6 DEF IInv


\* A capture appends to the text, or begins a new epoch, of which there is no
\* manifest yet.
LEMMA CaptureStep ==
  ASSUME IInv, Capture
  PROVE  IInv'
<1>1. PICK p \in projected.all :
        /\ \/ \E n \in ledger.text.n .. MaxPieces[ledger.epoch] :
                \E more \in SUBSET (ledger.text.n + 1 .. n) :
                   LET text == [n |-> n, ends |-> ledger.text.ends \union more]
                   IN  /\ n > 0
                       /\ ledger' = [epoch |-> ledger.epoch, text |-> text,
                                     attested |-> Attested(ledger.attested, p,
                                                           ledger.text.n, text)]
           \/ /\ ledger.epoch < MaxEpochs
              /\ \E n \in 1 .. MaxPieces[ledger.epoch + 1] :
                 \E ends \in SUBSET (1 .. n) :
                   LET text == [n |-> n, ends |-> ends]
                   IN  ledger' = [epoch |-> ledger.epoch + 1, text |-> text,
                                  attested |-> Attested({}, p, 0, text)]
        /\ w' = [pc |-> "plan", p |-> p]
  BY DEF Capture
<1>2. UNCHANGED <<projected, files, posts, overlay, r, faults>>
  BY DEF Capture, tail
<1>3. /\ TypeOK /\ ManifestsOK /\ FilesOK /\ SearchOK
      /\ ledger.epoch \in 1 .. MaxEpochs /\ ledger.attested \subseteq Nat
      /\ ledger.text \in Texts /\ ledger.text.n \in Nat
      /\ ledger.text.ends \subseteq 1 .. ledger.text.n
      /\ MaxEpochs \in Nat
      /\ \A k \in 1 .. MaxEpochs : MaxPieces[k] \in Nat
  BY LiveTailConstants DEF IInv, TypeOK, Texts
<1>4. p \in Texts /\ p.n \in Nat
  BY <1>3 DEF TypeOK, Texts
<1>5. \A was \in SUBSET Nat : \A start, text : Attested(was, p, start, text) \in SUBSET Nat
  BY <1>4 DEF Attested
<1>6. w' \in Writers /\ w'.pc = "plan"
  BY <1>1, <1>4 DEF Writers
<1>7. CASE \E n \in ledger.text.n .. MaxPieces[ledger.epoch] :
             \E more \in SUBSET (ledger.text.n + 1 .. n) :
               LET text == [n |-> n, ends |-> ledger.text.ends \union more]
               IN  /\ n > 0
                   /\ ledger' = [epoch |-> ledger.epoch, text |-> text,
                                 attested |-> Attested(ledger.attested, p,
                                                       ledger.text.n, text)]
  <2>0. PICK n \in ledger.text.n .. MaxPieces[ledger.epoch] :
             \E more \in SUBSET (ledger.text.n + 1 .. n) :
               ledger' = [epoch |-> ledger.epoch,
                          text |-> [n |-> n, ends |-> ledger.text.ends \union more],
                          attested |-> Attested(ledger.attested, p, ledger.text.n,
                            [n |-> n, ends |-> ledger.text.ends \union more])]
    BY <1>7
  <2>1. PICK more \in SUBSET (ledger.text.n + 1 .. n) :
               ledger' = [epoch |-> ledger.epoch,
                          text |-> [n |-> n, ends |-> ledger.text.ends \union more],
                          attested |-> Attested(ledger.attested, p, ledger.text.n,
                            [n |-> n, ends |-> ledger.text.ends \union more])]
    BY <2>0
  <2>2. n \in Nat /\ n >= ledger.text.n
    BY <1>3
  <2> DEFINE U == [n |-> n, ends |-> ledger.text.ends \union more]
             A == Attested(ledger.attested, p, ledger.text.n, U)
  <2>3. U.n = n /\ U.ends = ledger.text.ends \union more
    OBVIOUS
  <2>4. U \in Texts
    <3>1. ledger.text.ends \union more \subseteq 1 .. n
      <4>1. ledger.text.ends \subseteq 1 .. n
        <5>1. ledger.text.ends \subseteq 1 .. ledger.text.n /\ ledger.text.n \in Nat
          BY <1>3
        <5> QED
          BY <5>1, <2>2
      <4>2. more \subseteq 1 .. n
        <5>1. more \subseteq ledger.text.n + 1 .. n /\ ledger.text.n \in Nat
          BY <1>3
        <5> QED
          BY <5>1, <2>2
      <4> QED
        BY <4>1, <4>2
    <3> QED
      BY <2>2, <3>1 DEF Texts
  <2>5. A \in SUBSET Nat
    BY <1>3, <1>5
  <2>6. ledger' = [epoch |-> ledger.epoch, text |-> U, attested |-> A]
    BY <2>1
  <2>7. \A m \in Manifests : ExactIn(m, ledger.text) => ExactIn(m, U)
    <3>1. /\ ledger.text.n <= U.n
          /\ U.ends \cap (1 .. ledger.text.n) = ledger.text.ends
      BY <1>3, <2>2
    <3> HIDE DEF U
    <3> QED
      BY <3>1, <2>4, <1>3, TextGrows
  <2> HIDE DEF U, A
  <2>8. /\ ledger' \in [epoch : 1 .. MaxEpochs, text : Texts, attested : SUBSET Nat]
        /\ ledger'.epoch = ledger.epoch /\ ledger'.text = U
    BY <1>3, <2>4, <2>5, <2>6
  <2>9. TypeOK'
    BY <2>8, <1>2, <1>3, <1>6 DEF TypeOK, Small
  <2>10. posts \in Manifests /\ overlay.digest \in Manifests
    BY <1>3 DEF TypeOK, Overlays
  <2>11. ManifestsOK'
    BY <2>7, <2>8, <2>10, <1>2, <1>3, <1>6 DEF ManifestsOK, Kept
  <2> QED
    BY <2>9, <2>11, <1>2, <1>3, <1>6, SearchSame DEF IInv, FilesOK
<1>8. CASE /\ ledger.epoch < MaxEpochs
           /\ \E n \in 1 .. MaxPieces[ledger.epoch + 1] :
              \E ends \in SUBSET (1 .. n) :
                LET text == [n |-> n, ends |-> ends]
                IN  ledger' = [epoch |-> ledger.epoch + 1, text |-> text,
                               attested |-> Attested({}, p, 0, text)]
  <2>0. PICK n \in 1 .. MaxPieces[ledger.epoch + 1] :
             \E ends \in SUBSET (1 .. n) :
               ledger' = [epoch |-> ledger.epoch + 1, text |-> [n |-> n, ends |-> ends],
                          attested |-> Attested({}, p, 0, [n |-> n, ends |-> ends])]
    BY <1>8
  <2>1. PICK ends \in SUBSET (1 .. n) :
               ledger' = [epoch |-> ledger.epoch + 1, text |-> [n |-> n, ends |-> ends],
                          attested |-> Attested({}, p, 0, [n |-> n, ends |-> ends])]
    BY <2>0
  <2>2. ledger.epoch + 1 \in 1 .. MaxEpochs /\ ledger.epoch + 1 \in Nat /\ n \in Nat
    BY <1>3, <1>8
  <2> DEFINE U == [n |-> n, ends |-> ends]
             A == Attested({}, p, 0, U)
  <2>3. U \in Texts
    <3>1. ends \in SUBSET Nat /\ ends \subseteq 1 .. n
      BY <2>2
    <3>2. U \in [n : Nat, ends : SUBSET Nat]
      BY <2>2, <3>1
    <3> QED
      BY <3>1, <3>2 DEF Texts
  <2>4. A \in SUBSET Nat
    BY <1>5
  <2>5. ledger' = [epoch |-> ledger.epoch + 1, text |-> U, attested |-> A]
    BY <2>1
  <2> HIDE DEF U, A
  <2>6. /\ ledger' \in [epoch : 1 .. MaxEpochs, text : Texts, attested : SUBSET Nat]
        /\ ledger'.epoch = ledger.epoch + 1
    BY <2>2, <2>3, <2>4, <2>5
  <2>7. TypeOK'
    BY <2>6, <1>2, <1>3, <1>6 DEF TypeOK, Small
  <2>8. \A k \in Nat : k <= ledger.epoch => k <= ledger'.epoch /\ k # ledger'.epoch
    BY <2>6, <1>3
  <2>9. posts.epoch \in Nat /\ overlay.digest.epoch \in Nat
    BY <1>3 DEF TypeOK, Overlays, Manifests
  <2>10. ManifestsOK'
    BY <2>8, <2>9, <1>2, <1>3, <1>6 DEF ManifestsOK, Kept
  <2> QED
    BY <2>7, <2>10, <1>2, <1>3, <1>6, SearchSame DEF IInv, FilesOK
<1> QED
  BY <1>1, <1>7, <1>8

LEMMA SkipPostingsStep ==
  ASSUME IInv, SkipPostings
  PROVE  IInv'
<1>1. /\ w' = [pc |-> "overlay"]
      /\ UNCHANGED <<ledger, projected, files, posts, overlay, r, faults>>
  BY DEF SkipPostings, tail
<1>2. w' \in Writers /\ w'.pc = "overlay"
  BY <1>1 DEF Writers
<1>3. TypeOK'
  BY <1>1, <1>2 DEF IInv, TypeOK, Small
<1> QED
  BY <1>1, <1>2, <1>3, SearchSame DEF IInv, ManifestsOK, Kept, FilesOK

LEMMA PlanStep ==
  ASSUME IInv, Plan
  PROVE  IInv'
<1>1. PICK secret \in BOOLEAN, now \in Times :
        LET s == Shards(secret, now)
            shards == s.kept \union s.written
        IN  w' = [pc |-> "shards", todo |-> s.written,
                  manifest |-> Manifest(shards), stale |-> Stale(shards)]
  BY DEF Plan
<1> DEFINE kept == Shards(secret, now).kept
           written == Shards(secret, now).written
           S == kept \union written
           M == Manifest(S)
<1>2. /\ w.pc = "plan"
      /\ UNCHANGED <<ledger, projected, files, posts, overlay, r, faults>>
  BY DEF Plan, tail
<1>3. w' = [pc |-> "shards", todo |-> written, manifest |-> M, stale |-> Stale(S)]
  BY <1>1
<1>4. TypeOK
  BY DEF IInv
<1>5. M \in Manifests /\ Small(M) /\ M.epoch = ledger.epoch /\ ExactIn(M, ledger.text)
  BY <1>2, PlannedManifest
<1>6. kept \subseteq Retained /\ written \subseteq Shard
  <2>1. PICK X : X = Shards(secret, now).kept \union Shards(secret, now).written
    OBVIOUS
  <2> QED
    BY <2>1, <1>2, <1>4, PlannedShards
<1>7. Stale(S) \subseteq posts.shards /\ Stale(S) \cap S = {} /\ posts.shards \subseteq Shard
  BY <1>2, <1>4, PlanTypes DEF Stale, TypeOK, Manifests
<1>8. Retained \subseteq files /\ M.shards = S
  BY <1>2, <1>4, RetainedTypes DEF IInv, FilesOK, Manifest
<1> HIDE DEF kept, written, M
<1>9. w' \in Writers
  BY <1>3, <1>5, <1>6, <1>7 DEF Writers
<1>10. /\ w'.pc = "shards" /\ w'.todo = written /\ w'.manifest = M
       /\ w'.stale = Stale(S)
  BY <1>3
<1>11. TypeOK'
  BY <1>2, <1>4, <1>5, <1>9, <1>10 DEF TypeOK, Small
<1>13. ManifestsOK'
  <2>1. ledger.epoch <= ledger.epoch
    BY <1>4 DEF TypeOK
  <2> QED
    BY <2>1, <1>2, <1>5, <1>10 DEF IInv, ManifestsOK, Kept
<1>14. FilesOK'
  BY <1>2, <1>6, <1>7, <1>8, <1>10 DEF IInv, FilesOK
<1> QED
  BY <1>2, <1>11, <1>13, <1>14, SearchSame DEF IInv

LEMMA WriteShardStep ==
  ASSUME IInv, WriteShard
  PROVE  IInv'
<1>1. PICK s \in w.todo : /\ files' = files \union {s}
                          /\ w' = [w EXCEPT !.todo = @ \ {s}]
  BY DEF WriteShard
<1>2. /\ w.pc = "shards"
      /\ UNCHANGED <<ledger, projected, posts, overlay, r, faults>>
  BY DEF WriteShard
<1>3. TypeOK
  BY DEF IInv
<1>4. /\ w = [pc |-> "shards", todo |-> w.todo, manifest |-> w.manifest, stale |-> w.stale]
      /\ w.todo \subseteq Shard /\ w.manifest \in Manifests /\ w.stale \subseteq Shard
      /\ Small(w.manifest)
  BY <1>2, <1>3, WriterForms
<1>5. w' = [pc |-> "shards", todo |-> w.todo \ {s}, manifest |-> w.manifest,
            stale |-> w.stale]
  BY <1>1, <1>4
<1>6. /\ w'.pc = "shards" /\ w'.todo = w.todo \ {s} /\ w'.manifest = w.manifest
      /\ w'.stale = w.stale
  BY <1>5
<1>7. w' \in Writers
  BY <1>4, <1>5 DEF Writers
<1>8. TypeOK'
  BY <1>1, <1>2, <1>3, <1>4, <1>6, <1>7 DEF TypeOK, Small
<1>9. ManifestsOK'
  BY <1>2, <1>6 DEF IInv, ManifestsOK, Kept
<1>10. FilesOK'
  BY <1>1, <1>2, <1>6 DEF IInv, FilesOK
<1> QED
  BY <1>2, <1>8, <1>9, <1>10, SearchSame DEF IInv

LEMMA WriteManifestStep ==
  ASSUME IInv, WriteManifest
  PROVE  IInv'
<1>1. /\ w.pc = "shards" /\ w.todo = {}
      /\ posts' = w.manifest
      /\ w' = [pc |-> "unlink", stale |-> w.stale]
      /\ UNCHANGED <<ledger, projected, files, overlay, r, faults>>
  BY DEF WriteManifest
<1>2. TypeOK
  BY DEF IInv
<1>3. w.manifest \in Manifests /\ w.stale \subseteq Shard /\ Small(w.manifest)
  BY <1>1, <1>2, WriterForms
<1>4. w' \in Writers /\ w'.pc = "unlink" /\ w'.stale = w.stale
  BY <1>1, <1>3 DEF Writers
<1>5. TypeOK'
  BY <1>1, <1>2, <1>3, <1>4 DEF TypeOK, Small
<1>6. ManifestsOK' /\ FilesOK'
  BY <1>1, <1>4 DEF IInv, ManifestsOK, Kept, FilesOK
<1> QED
  BY <1>1, <1>5, <1>6, SearchSame DEF IInv

LEMMA UnlinkStaleStep ==
  ASSUME IInv, UnlinkStale
  PROVE  IInv'
<1>1. PICK s \in w.stale :
        /\ w' = [w EXCEPT !.stale = @ \ {s}]
        /\ \/ files' = files \ {s} /\ UNCHANGED faults
           \/ /\ faults < MaxFaults
              /\ faults' = faults + 1
              /\ UNCHANGED files
  BY DEF UnlinkStale
<1>2. w.pc = "unlink" /\ UNCHANGED <<ledger, projected, posts, overlay, r>>
  BY DEF UnlinkStale
<1>3. TypeOK
  BY DEF IInv
<1>4. w = [pc |-> "unlink", stale |-> w.stale] /\ w.stale \subseteq Shard
  BY <1>2, <1>3, WriterForms
<1>5. w' = [pc |-> "unlink", stale |-> w.stale \ {s}]
  BY <1>1, <1>4
<1>6. w' \in Writers /\ w'.pc = "unlink" /\ w'.stale = w.stale \ {s}
  BY <1>4, <1>5 DEF Writers
<1>7. faults' \in 0 .. MaxFaults
  BY <1>1, <1>3, LiveTailConstants DEF TypeOK
<1>8. TypeOK'
  <2>1. files' \subseteq Shard
    BY <1>1, <1>3 DEF TypeOK
  <2> QED
    BY <2>1, <1>2, <1>3, <1>6, <1>7 DEF TypeOK, Small
<1>9. ManifestsOK'
  BY <1>2, <1>6 DEF IInv, ManifestsOK, Kept
<1>10. FilesOK'
  BY <1>1, <1>2, <1>6 DEF IInv, FilesOK
<1> QED
  BY <1>2, <1>8, <1>9, <1>10, SearchSame DEF IInv

LEMMA WriteOverlayStep ==
  ASSUME IInv, WriteOverlay
  PROVE  IInv'
<1>1. /\ overlay' = [epoch |-> ledger.epoch, n |-> ledger.text.n,
                     attested |-> ledger.attested, digest |-> posts]
      /\ w' = Idle
      /\ UNCHANGED <<ledger, projected, files, posts, r, faults>>
  BY DEF WriteOverlay
<1>2. w' \in Writers /\ w'.pc = "idle"
  BY <1>1 DEF Writers, Idle
<1>3. overlay' \in Overlays /\ overlay'.digest = posts
  BY <1>1 DEF IInv, TypeOK, Overlays, Texts
<1>4. TypeOK'
  BY <1>1, <1>2, <1>3 DEF IInv, TypeOK, Small
<1>5. ManifestsOK' /\ FilesOK'
  BY <1>1, <1>2, <1>3 DEF IInv, ManifestsOK, Kept, FilesOK
<1> QED
  BY <1>1, <1>4, <1>5, SearchSame DEF IInv

LEMMA CrashStep ==
  ASSUME IInv, Crash
  PROVE  IInv'
<1>1. /\ faults < MaxFaults
      /\ faults' = faults + 1
      /\ w' = Idle
      /\ UNCHANGED <<ledger, projected, files, posts, overlay, r>>
  BY DEF Crash, tail
<1>2. w' \in Writers /\ w'.pc = "idle"
  BY <1>1 DEF Writers, Idle
<1>3. faults' \in 0 .. MaxFaults
  BY <1>1, LiveTailConstants DEF IInv, TypeOK
<1>4. TypeOK'
  BY <1>1, <1>2, <1>3 DEF IInv, TypeOK, Small
<1>5. ManifestsOK' /\ FilesOK'
  BY <1>1, <1>2 DEF IInv, ManifestsOK, Kept, FilesOK
<1> QED
  BY <1>1, <1>4, <1>5, SearchSame DEF IInv


\* A search changes nothing but itself.
LEMMA SearchOnly ==
  ASSUME IInv, UNCHANGED <<ledger, projected, tail, w, faults>>,
         r' \in Searches, SearchOK'
  PROVE  IInv'
<1>1. UNCHANGED <<ledger, projected, files, posts, overlay, w, faults>>
  BY DEF tail
<1>2. TypeOK'
  BY <1>1 DEF IInv, TypeOK, Small
<1>3. ManifestsOK' /\ FilesOK'
  BY <1>1 DEF IInv, ManifestsOK, Kept, FilesOK
<1> QED
  BY <1>2, <1>3 DEF IInv

LEMMA SearchEnds ==
  ASSUME IInv, UNCHANGED <<ledger, projected, tail, w, faults>>, r' = Idle
  PROVE  IInv'
<1>1. r' \in Searches /\ r'.pc = "idle"
  BY DEF Searches, Idle
<1>2. SearchOK'
  BY <1>1 DEF SearchOK
<1> QED
  BY <1>1, <1>2, SearchOnly

LEMMA ReadProjectionStep ==
  ASSUME IInv, ReadProjection
  PROVE  IInv'
<1>1. /\ r' = [pc |-> "overlay", a |-> projected.now]
      /\ UNCHANGED <<ledger, projected, tail, w, faults>>
  BY DEF ReadProjection
<1>2. projected.now \in Texts
  BY DEF IInv, TypeOK
<1>3. r' \in Searches /\ r'.pc = "overlay" /\ r'.a = projected.now
  BY <1>1, <1>2 DEF Searches
<1>4. SearchOK'
  BY <1>3 DEF SearchOK
<1> QED
  BY <1>1, <1>2, <1>3, <1>4, SearchOnly

\* An overlay that is admitted is that of the text, and its manifest, if it is
\* of the same epoch, exact in it.
LEMMA ReadOverlayStep ==
  ASSUME IInv, ReadOverlay
  PROVE  IInv'
<1>1. UNCHANGED <<ledger, projected, tail, w, faults>>
  BY DEF ReadOverlay
<1>2. CASE ~ Admits(r.a)
  BY <1>1, <1>2, SearchEnds DEF ReadOverlay
<1>3. CASE Admits(r.a)
  <2>1. r.pc = "overlay"
        /\ r' = [pc |-> "manifest", a |-> r.a, text |-> ledger.text, o |-> overlay]
    BY <1>3 DEF ReadOverlay
  <2>2. r.a \in Texts /\ ledger.text \in Texts /\ overlay \in Overlays
    BY <2>1, SearchForms DEF IInv, TypeOK
  <2>3. /\ overlay.epoch = ledger.epoch
        /\ overlay.n = ledger.text.n
        /\ IsPrefix(r.a, ledger.text)
    BY <1>3 DEF Admits
  <2>5. overlay.digest.epoch = overlay.epoch => ExactIn(overlay.digest, ledger.text)
    BY <2>3 DEF IInv, ManifestsOK, Kept
  <2>6. /\ r'.pc = "manifest" /\ r'.a = r.a /\ r'.text = ledger.text /\ r'.o = overlay
        /\ r' \in Searches
    BY <2>1, <2>2 DEF Searches
  <2>7. SearchOK'
    BY <2>3, <2>5, <2>6 DEF SearchOK
  <2> QED
    BY <1>1, <2>6, <2>7, SearchOnly
<1> QED
  BY <1>2, <1>3

LEMMA ReadManifestStep ==
  ASSUME IInv, ReadManifest
  PROVE  IInv'
<1> DEFINE fits == /\ posts = r.o.digest
                   /\ posts.epoch = r.o.epoch
                   /\ posts.captured = r.o.n
<1>1. UNCHANGED <<ledger, projected, tail, w, faults>>
  BY DEF ReadManifest
<1>2. CASE ~ fits
  BY <1>1, <1>2, SearchEnds DEF ReadManifest
<1>3. CASE fits
  <2> DEFINE todo == {s \in posts.shards : Beyond(s, ProjectedLines(r.a))}
  <2>1. /\ r.pc = "manifest"
        /\ r' = [pc |-> "shards", a |-> r.a, text |-> r.text, o |-> r.o,
                 todo |-> todo, found |-> {}]
    BY <1>3 DEF ReadManifest
  <2>2. r.a \in Texts /\ r.text \in Texts /\ r.o \in Overlays
    BY <2>1, SearchForms DEF IInv
  <2>3. todo \subseteq posts.shards /\ posts.shards \subseteq Shard
    BY DEF IInv, TypeOK, Manifests
  <2>4. ASSUME NEW s \in posts.shards \ todo PROVE Matches(s)' = {}
    <3>1. \A e \in s.entries : ~ (e.line > ProjectedLines(r.a))
      BY <2>4 DEF Beyond
    <3>2. r'.a = r.a
      BY <2>1
    <3> QED
      BY <3>1, <3>2 DEF Matches
  <2> HIDE DEF todo
  <2>5. /\ r'.pc = "shards" /\ r'.a = r.a /\ r'.text = r.text /\ r'.o = r.o
        /\ r'.todo = todo /\ r'.found = {}
    BY <2>1
  <2>6. r' \in Searches
    BY <2>1, <2>2, <2>3 DEF Searches
  <2>7. SearchOK'
    <3>1. /\ IsPrefix(r.a, r.text)
          /\ r.o.n = r.text.n
          /\ ExactIn(r.o.digest, r.text)
      BY <2>1, <1>3 DEF IInv, SearchOK
    <3> QED
      BY <3>1, <2>3, <2>4, <2>5, <1>3 DEF SearchOK
  <2> QED
    BY <1>1, <2>5, <2>6, <2>7, SearchOnly
<1> QED
  BY <1>2, <1>3

LEMMA ReadShardStep ==
  ASSUME IInv, ReadShard
  PROVE  IInv'
<1>1. /\ r.pc = "shards"
      /\ UNCHANGED <<ledger, projected, tail, w, faults>>
  BY DEF ReadShard
<1>2. PICK s \in r.todo : r' = AfterShard(s)
  BY DEF ReadShard
<1>3. CASE s \notin files
  BY <1>1, <1>2, <1>3, SearchEnds DEF AfterShard
<1>4. CASE s \in files
  <2>1. /\ r = [pc |-> "shards", a |-> r.a, text |-> r.text, o |-> r.o,
                todo |-> r.todo, found |-> r.found]
        /\ r.a \in Texts /\ r.text \in Texts /\ r.o \in Overlays
        /\ r.todo \subseteq Shard
        /\ r.found \subseteq Found
    BY <1>1, SearchForms DEF IInv
  <2>2. r' = [r EXCEPT !.todo = @ \ {s}, !.found = Matches(s) \union @]
    BY <1>2, <1>4 DEF AfterShard
  <2>3. r' = [pc |-> "shards", a |-> r.a, text |-> r.text, o |-> r.o,
              todo |-> r.todo \ {s}, found |-> Matches(s) \union r.found]
    <3> DEFINE X == Matches(s) \union r.found
               Y == r.todo \ {s}
    <3>1. r' = [r EXCEPT !.todo = Y, !.found = X]
      BY <2>2
    <3>2. PICK a, text, o, todo, found :
              r = [pc |-> "shards", a |-> a, text |-> text, o |-> o, todo |-> todo,
                   found |-> found]
      BY <2>1
    <3> HIDE DEF X, Y
    <3>3. r' = [pc |-> "shards", a |-> a, text |-> text, o |-> o, todo |-> Y, found |-> X]
      BY <3>1, <3>2
    <3>4. a = r.a /\ text = r.text /\ o = r.o
      BY <3>2
    <3> QED
      BY <3>3, <3>4 DEF X, Y
  <2>4. /\ r'.pc = "shards" /\ r'.a = r.a /\ r'.text = r.text /\ r'.o = r.o
        /\ r'.todo = r.todo \ {s} /\ r'.found = Matches(s) \union r.found
    BY <2>3
  <2>5. s \in Shard /\ Matches(s) \subseteq Found
    <3>1. s \in Shard /\ s.entries \subseteq Lined
      BY <2>1 DEF Shard
    <3> QED
      BY <3>1 DEF Matches, Found
  <2>6. r' \in Searches
    <3> DEFINE X == Matches(s) \union r.found
               Y == r.todo \ {s}
    <3>1. X \subseteq Found /\ Y \subseteq Shard
      BY <2>1, <2>5
    <3>2. r' = [pc |-> "shards", a |-> r.a, text |-> r.text, o |-> r.o,
                todo |-> Y, found |-> X]
      BY <2>3
    <3> HIDE DEF X, Y
    <3> QED
      BY <2>1, <3>1, <3>2 DEF Searches
  <2>7. \A t : Matches(t)' = Matches(t)
    BY <2>4 DEF Matches
  <2>8. SearchOK'
    <3>1. /\ IsPrefix(r.a, r.text)
          /\ r.o.n = r.text.n
          /\ r.o.digest.epoch = r.o.epoch
          /\ ExactIn(r.o.digest, r.text)
          /\ r.o.digest.captured = r.o.n
          /\ r.todo \subseteq r.o.digest.shards
          /\ r.found \subseteq UNION {Matches(t) : t \in r.o.digest.shards}
          /\ \A t \in r.o.digest.shards \ r.todo : Matches(t) \subseteq r.found
      BY <1>1 DEF IInv, SearchOK
    <3>2. r'.found \subseteq UNION {Matches(t) : t \in r.o.digest.shards}
      BY <3>1, <2>4
    <3>3. UNION {Matches(t) : t \in r.o.digest.shards}' =
            UNION {Matches(t) : t \in r.o.digest.shards}
      BY <2>4, <2>7
    <3>4. \A t \in r.o.digest.shards \ r'.todo : Matches(t) \subseteq r'.found
      BY <3>1, <2>4
    <3> QED
      BY <3>1, <3>2, <3>3, <3>4, <2>4, <2>7 DEF SearchOK
  <2> QED
    BY <1>1, <2>4, <2>6, <2>8, SearchOnly
<1> QED
  BY <1>3, <1>4

\* The invariant is inductive.
LEMMA NextKeepsIInv == IInv /\ [Next]_vars => IInv'
<1> SUFFICES ASSUME IInv, [Next]_vars PROVE IInv'
  OBVIOUS
<1>1. CASE Publish \/ Attest \/ Capture \/ Crash
  BY <1>1, PublishStep, AttestStep, CaptureStep, CrashStep
<1>2. CASE Index
  BY <1>2, SkipPostingsStep, PlanStep, WriteShardStep, WriteManifestStep,
     UnlinkStaleStep, WriteOverlayStep DEF Index
<1>3. CASE Search
  BY <1>3, ReadProjectionStep, ReadOverlayStep, ReadManifestStep, ReadShardStep,
     SearchEnds DEF Search, Answer
<1>4. CASE UNCHANGED vars
  <2>1. UNCHANGED <<ledger, projected, files, posts, overlay, w, r, faults>>
    BY <1>4 DEF vars, tail
  <2> QED
    BY <2>1, SearchSame DEF IInv, TypeOK, Small, ManifestsOK, Kept, FilesOK
<1> QED
  BY <1>1, <1>2, <1>3, <1>4 DEF Next

-----------------------------------------------------------------------------
(* The theorems.                                                           *)

\* IInv holds in every reachable state.
THEOREM Invariant == Spec => []IInv
<1> QED
  BY InitIInv, NextKeepsIInv, PTL DEF Spec

\* Every variable of the live tail stays within its type, and manifests name
\* finitely many shards of finitely many lines.
THEOREM TypeCorrect == Spec => []TypeOK
<1>1. IInv => TypeOK
  BY DEF IInv
<1> QED
  BY <1>1, Invariant, PTL

\* Whatever captures die, and whatever is published meanwhile, the manifest
\* names shards that are there, and one that was begun at a line end of its own
\* text has each complete line after the projected ones once, in order, under
\* its number.
THEOREM ManifestStaysExact == Spec => []ManifestIsExact
<1>1. ASSUME IInv PROVE ManifestIsExact
  <2>1. posts.shards \subseteq files
    BY <1>1 DEF IInv, FilesOK
  <2>2. ASSUME posts.own, posts.epoch = ledger.epoch
        PROVE  /\ InOrder(posts.shards)
               /\ After(UNION {s.entries : s \in posts.shards}, posts.plines) =
                    After(Lines(Prefix(ledger.text, posts.captured)), posts.plines)
    <3>1. Exact(posts, Prefix(ledger.text, posts.captured))
      BY <1>1, <2>2 DEF IInv, ManifestsOK, Kept, ExactIn
    <3> QED
      BY <3>1 DEF Exact, After
  <2> QED
    BY <2>1, <2>2 DEF ManifestIsExact
<1> QED
  BY <1>1, Invariant, PTL

\* An answer from postings that were begun at a line end of their own text has
\* only lines of the captured text that are not projected, each once, whole and
\* under its number, and it has all of them but those that a newer projection
\* has, whole or the beginning of.
THEOREM AnswersAreExact == Spec => []AnswerIsExact
<1>1. ASSUME IInv, Answered, r.o.digest.own PROVE AnswerFits
  <2> DEFINE T == r.text
             D == r.o.digest
  <2>1. r.pc = "shards" /\ r.todo = {}
    BY <1>1 DEF Answered
  <2>2. /\ T \in Texts /\ D \in Manifests
        /\ r.a \in Texts
        /\ IsPrefix(r.a, T)
    BY <1>1, <2>1, SearchForms DEF IInv, SearchOK, Overlays
  <2>3. Exact(D, T)
    <3>1. D.captured = T.n /\ ExactIn(D, T)
      BY <1>1, <2>1 DEF IInv, SearchOK
    <3> QED
      BY <1>1, <2>2, <3>1, PrefixOfAll DEF ExactIn
  <2>4. r.found = UNION {Matches(s) : s \in D.shards}
    BY <1>1, <2>1 DEF IInv, SearchOK
  <2> HIDE DEF T, D
  <2>5. Lines(T) = {Line(T, e) : e \in T.ends}
    BY <2>2, LinesOfText
  <2>6. T.ends \subseteq Nat
    BY <2>2 DEF Texts
  <2>7. ASSUME NEW m \in r.found
        PROVE  /\ m[1] \in D.shards
               /\ m[2] \in m[1].entries
               /\ m[2].line > ProjectedLines(r.a)
               /\ m = <<m[1], m[2]>>
               /\ m[2] \in Lines(T)
    BY <2>3, <2>4 DEF Matches, Exact
  <2>8. ASSUME NEW s \in D.shards, NEW l \in s.entries, l.line > ProjectedLines(r.a)
        PROVE  <<s, l>> \in r.found
    <3>1. PICK e \in T.ends : l = Line(T, e)
      BY <2>3, <2>5 DEF Exact
    <3>2. \A i \in l.pieces : i > r.a.n
      BY <3>1, <2>2, <2>8, UncountedIsBeyond
    <3> QED
      BY <3>2, <2>4, <2>8 DEF Matches
  <2>9. ASSUME NEW l \in Lines(T), NEW m \in Lines(T)
        PROVE  /\ l.line \in Nat /\ m.line \in Nat
               /\ l.line = m.line => l = m
    <3>1. PICK e \in T.ends : l = Line(T, e)
      BY <2>5
    <3>2. PICK f \in T.ends : m = Line(T, f)
      BY <2>5
    <3>3. l.line \in Nat /\ m.line \in Nat
      <4>1. e \in Nat /\ f \in Nat
        BY <3>1, <3>2, <2>6
      <4>2. LineCount(T, 0, e) \in Nat /\ LineCount(T, 0, f) \in Nat
        BY <4>1, <2>2, EndsAreFinite
      <4>3. l.line = LineCount(T, 0, e) /\ m.line = LineCount(T, 0, f)
        BY <3>1, <3>2, <2>2, LineNumber
      <4> QED
        BY <4>2, <4>3
    <3> QED
      BY <3>1, <3>2, <3>3, <2>2, LinesInOrder
  <2>10. ASSUME NEW m \in r.found, NEW o \in r.found
         PROVE  /\ m[2].line = o[2].line => m = o
                /\ m[1].ord < o[1].ord => m[2].line < o[2].line
    <3>1. m[1].ord \in Nat /\ o[1].ord \in Nat
      BY <2>2, <2>7 DEF Manifests, Shard
    <3>2. /\ m[1].ord < o[1].ord => m[2].line < o[2].line
          /\ o[1].ord < m[1].ord => o[2].line < m[2].line
          /\ m[1].ord = o[1].ord => m[1] = o[1]
      BY <2>3, <2>7 DEF Exact, InOrder
    <3>3. m[2].line = o[2].line => m[1] = o[1] /\ m[2] = o[2]
      BY <3>1, <3>2, <2>7, <2>9
    <3> QED
      BY <3>2, <3>3, <2>7
  <2>11. ASSUME NEW l \in Lines(T), l.line > ProjectedLines(r.a), l.line > D.plines
         PROVE  \E m \in r.found : m[2] = l
    <3>1. PICK s \in D.shards : l \in s.entries
      BY <2>3, <2>11 DEF Exact
    <3>2. <<s, l>> \in r.found
      BY <3>1, <2>8, <2>11
    <3> QED
      BY <3>2
  <2> QED
    BY <2>7, <2>10, <2>11 DEF AnswerFits, After, T, D
<1>2. IInv => AnswerIsExact
  BY <1>1 DEF AnswerIsExact
<1> QED
  BY <1>2, Invariant, PTL


=============================================================================
