--------------------------- MODULE RetryQueueProofs ---------------------------
(***************************************************************************)
(* Theorems about RetryQueue, for any number of sessions, captures and     *)
(* attempts, any limit of a dispatcher and any number of faults.           *)
(*                                                                         *)
(* The heart of the invariant is what a queue may look like at any write   *)
(* (Good): the items of sessions are obligations, a session has one of     *)
(* them at most, bound to no older capture than any before it, and it has  *)
(* one unless the capture it owes is projected.  Every change of the queue *)
(* is built of a few operators, and there is one lemma for each of them.   *)
(* What the dispatcher has read may be old when it is used, but captures,  *)
(* projections and convergence only grow (DispatcherOK).  A second         *)
(* invariant (XInv) counts attempts, which need not belong to what the     *)
(* item is bound to when they are settled.                                 *)
(***************************************************************************)
EXTENDS RetryQueue, FiniteSetTheorems, TLAPS

AnyItem ==
    [flight : BOOLEAN, attempts : Nat, again : BOOLEAN, wait : Wait, id : 0..MaxCapture,
     stage : Stage, owes : BOOLEAN, current : BOOLEAN, retarget : HeavyProfile \union {"none"}]

\* The session s has an item in q.
Has(q, s) == \E k \in DOMAIN q : Target(k) = s

\* The item may be in the queue under the key k.
Fits(item, k) ==
    IF Target(k) \in Session
    THEN /\ item.id > 0
         /\ enqueued[Target(k)] <= item.id
         /\ item.id <= capture[Target(k)]
         /\ item.stage = "downstream" => item.id <= projected[Target(k)]
    ELSE item.id = 0

Sound(q) ==
    /\ DOMAIN q \subseteq Key
    /\ q \in [DOMAIN q -> AnyItem]
    /\ \A k \in DOMAIN q : Fits(q[k], k)
    /\ \A j, k \in DOMAIN q : Target(j) = Target(k) /\ Target(j) \in Session => j = k

\* A queue that may be written.
Good(q) ==
    /\ Sound(q)
    /\ \A s \in Session : Has(q, s) \/ enqueued[s] <= projected[s]

\* Every session that has an item in q has one in r.
Keeps(q, r) == \A s \in Session : Has(q, s) => Has(r, s)

SessionsOK ==
    /\ capture \in [Session -> 0..MaxCapture]
    /\ projected \in [Session -> 0..MaxCapture]
    /\ converged \in [Session -> 0..MaxCapture]
    /\ enqueued \in [Session -> 0..MaxCapture]
    /\ \A s \in Session :
        /\ converged[s] <= projected[s]
        /\ projected[s] <= capture[s]
        /\ enqueued[s] <= capture[s]

QueueOK ==
    /\ Good(items)
    /\ \A k \in DOMAIN items : Target(k) \in Session => items[k].id = enqueued[Target(k)]

WatchOK ==
    watch # NoWatch =>
        /\ watch \in [session : Session, current : BOOLEAN, proven : 0..MaxCapture]
        /\ capture[watch.session] > 0

ClaimType ==
    [pc : {"claim"}, recovered : BOOLEAN, slots : 0..Limit, skipped : SUBSET Key, heavy : BOOLEAN]

BeforeType ==
    [pc : {"before"}, recovered : {TRUE}, slots : 1..Limit, skipped : SUBSET Key, heavy : BOOLEAN,
     key : Key, id : 0..MaxCapture, stage : Stage, owes : BOOLEAN]

RunType ==
    [pc : {"child", "after", "finish"}, recovered : {TRUE}, slots : 1..Limit, skipped : SUBSET Key,
     heavy : BOOLEAN, key : Key, id : 0..MaxCapture, stage : Stage, required : BOOLEAN,
     launch : Stage, report : Report \union {"ok", "handoff"}]

Running == {"child", "after", "finish"}

\* The capture that the attempt is for is projected.
Proven == disp.id <= projected[Target(disp.key)]

DispatcherOK ==
    /\ disp = NoDispatcher \/ disp \in ClaimType \/ disp \in BeforeType \/ disp \in RunType
    /\ disp.pc = "claim" => disp \in ClaimType
    /\ disp.pc = "before" => disp \in BeforeType
    /\ disp.pc \in Running => disp \in RunType
    /\ disp.pc \in {"before"} \union Running =>
        /\ disp.id > 0 <=> Target(disp.key) \in Session
        /\ disp.id > 0 /\ disp.stage = "downstream" => Proven
    /\ disp.pc \in Running /\ disp.id > 0 /\ disp.launch = "downstream" => Proven
    /\ disp.pc \in {"child", "after"} => disp.report # "handoff"
    /\ disp.pc = "finish" /\ disp.id > 0 =>
        /\ disp.report \in {"ok", "handoff"} => Proven
        /\ disp.report = "ok" /\ disp.required => disp.id <= converged[Target(disp.key)]

IInv == SessionsOK /\ QueueOK /\ WatchOK /\ DispatcherOK

\* A session's item leaves the queue only when it has converged, or when it did
\* not have to.
Release ==
    \A s \in Session :
        Has(items, s) /\ ~Has(items', s) =>
            \/ enqueued[s] <= converged[s]
            \/ disp.pc = "finish" /\ ~disp.required

-----------------------------------------------------------------------------
(* Keys.                                                                   *)

\* Heavy profiles of sessions are keys; other keys are not of sessions.
LEMMA KeyFacts ==
  /\ \A s \in Session : <<Desired(s), s>> \in Key /\ Target(<<Desired(s), s>>) = s
  /\ \A k \in Periodic : k \in Key /\ Target(k) \notin Session
  /\ \A k \in HandsOff : /\ <<"deep", Target(k)>> \in Key
                         /\ Target(<<"deep", Target(k)>>) \notin Session
                         /\ Target(k) \notin Session
BY RetryConstants DEF Key, Desired, Target, HeavyProfile

\* A key of a session can be moved to any heavy profile.
LEMMA RetargetFacts ==
  ASSUME NEW k \in Key, Target(k) \in Session, NEW p \in HeavyProfile
  PROVE  <<p, Target(k)>> \in Key /\ Target(<<p, Target(k)>>) = Target(k)
BY DEF Key, Target

-----------------------------------------------------------------------------
(* Changes of a queue.                                                     *)

LEMMA NewItem == New \in AnyItem
BY RetryConstants DEF New, AnyItem, Wait, Stage

LEMMA WithFacts ==
  ASSUME NEW q, Sound(q), NEW k \in Key, NEW item \in AnyItem, Fits(item, k),
         Target(k) \in Session => \A j \in DOMAIN q : Target(j) = Target(k) => j = k
  PROVE  /\ Sound(With(q, k, item))
         /\ \A s : Has(With(q, k, item), s) <=> Has(q, s) \/ s = Target(k)
         /\ DOMAIN With(q, k, item) = DOMAIN q \union {k}
         /\ With(q, k, item)[k] = item
<1> DEFINE r == With(q, k, item)
<1>1. DOMAIN r = DOMAIN q \union {k}
  BY DEF With
<1>2. \A j \in DOMAIN r : r[j] = IF j = k THEN item ELSE q[j]
  BY DEF With
<1>3. r = [j \in DOMAIN r |-> r[j]]
  BY DEF With
<1> HIDE DEF r
<1>4. DOMAIN r \subseteq Key /\ r \in [DOMAIN r -> AnyItem]
  BY <1>1, <1>2, <1>3 DEF Sound
<1>5. \A j \in DOMAIN r : Fits(r[j], j)
  BY <1>1, <1>2 DEF Sound
<1>6. \A i, j \in DOMAIN r : Target(i) = Target(j) /\ Target(i) \in Session => i = j
  BY <1>1 DEF Sound
<1>7. \A s : Has(r, s) <=> Has(q, s) \/ s = Target(k)
  BY <1>1 DEF Has
<1>8. r[k] = item
  BY <1>1, <1>2
<1> QED
  BY <1>1, <1>4, <1>5, <1>6, <1>7, <1>8 DEF Sound, r

LEMMA WithoutFacts ==
  ASSUME NEW q, Sound(q), NEW k
  PROVE  /\ Sound(Without(q, k))
         /\ DOMAIN Without(q, k) = DOMAIN q \ {k}
         /\ \A s : Has(q, s) /\ s # Target(k) => Has(Without(q, k), s)
         /\ \A s \in Session : k \in DOMAIN q /\ s = Target(k) => ~Has(Without(q, k), s)
<1> DEFINE r == Without(q, k)
<1>1. DOMAIN r = DOMAIN q \ {k}
  BY DEF Without
<1>2. \A j \in DOMAIN r : r[j] = q[j]
  BY DEF Without
<1>3. r = [j \in DOMAIN r |-> r[j]]
  BY DEF Without
<1> HIDE DEF r
<1>4. Sound(r)
  BY <1>1, <1>2, <1>3 DEF Sound
<1>5. \A s : Has(q, s) /\ s # Target(k) => Has(r, s)
  BY <1>1 DEF Has
<1>6. \A s \in Session : k \in DOMAIN q /\ s = Target(k) => ~Has(r, s)
  BY <1>1 DEF Has, Sound
<1> QED
  BY <1>1, <1>4, <1>5, <1>6 DEF r

\* An item is replaced by one that fits.
LEMMA Replaced ==
  ASSUME NEW q, Good(q), NEW k \in DOMAIN q, NEW item \in AnyItem, Fits(item, k)
  PROVE  Good(With(q, k, item)) /\ Keeps(q, With(q, k, item))
<1>1. Sound(q) /\ k \in Key
  BY DEF Good, Sound
<1>2. Target(k) \in Session => \A j \in DOMAIN q : Target(j) = Target(k) => j = k
  BY DEF Good, Sound
<1>3. /\ Sound(With(q, k, item))
      /\ \A s : Has(With(q, k, item), s) <=> Has(q, s) \/ s = Target(k)
  BY <1>1, <1>2, WithFacts
<1> QED
  BY <1>3 DEF Good, Keeps

\* An item that is no obligation is put into the queue.
LEMMA PutOrdinary ==
  ASSUME NEW q, Good(q), NEW k \in Key, Target(k) \notin Session,
         NEW item \in AnyItem, item.id = 0
  PROVE  Good(With(q, k, item)) /\ Keeps(q, With(q, k, item))
<1>1. Sound(q) /\ Fits(item, k)
  BY DEF Good, Fits
<1>2. /\ Sound(With(q, k, item))
      /\ \A s : Has(With(q, k, item), s) <=> Has(q, s) \/ s = Target(k)
  BY <1>1, WithFacts
<1> QED
  BY <1>2 DEF Good, Keeps

\* An item is left out that is no session's, or is not owed.
LEMMA Removed ==
  ASSUME NEW q, Good(q), NEW k,
         Target(k) \in Session => enqueued[Target(k)] <= projected[Target(k)]
  PROVE  /\ Good(Without(q, k))
         /\ \A s \in Session : s # Target(k) /\ Has(q, s) => Has(Without(q, k), s)
<1>1. Sound(q)
  BY DEF Good
<1>2. /\ Sound(Without(q, k))
      /\ \A s : Has(q, s) /\ s # Target(k) => Has(Without(q, k), s)
  BY <1>1, WithoutFacts
<1>3. ASSUME NEW s \in Session
      PROVE  Has(Without(q, k), s) \/ enqueued[s] <= projected[s]
  <2>1. CASE s = Target(k)
    BY <2>1
  <2>2. CASE s # Target(k)
    BY <1>2, <2>2 DEF Good
  <2> QED
    BY <2>1, <2>2
<1> QED
  BY <1>2, <1>3 DEF Good

\* The obligation of a session is moved to another key of that session.
LEMMA Moved ==
  ASSUME NEW q, Good(q), NEW k \in DOMAIN q, Target(k) \in Session,
         NEW to \in Key, Target(to) = Target(k), to \notin DOMAIN q,
         NEW item \in AnyItem, Fits(item, to)
  PROVE  Good(Rekeyed(q, k, to, item)) /\ Keeps(q, Rekeyed(q, k, to, item))
<1> DEFINE r == Without(q, k)
<1>1. Sound(q)
  BY DEF Good
<1>2. /\ Sound(r)
      /\ \A s : Has(q, s) /\ s # Target(k) => Has(r, s)
      /\ \A s \in Session : s = Target(k) => ~Has(r, s)
  BY <1>1, WithoutFacts
<1> HIDE DEF r
<1>3. \A j \in DOMAIN r : Target(j) = Target(to) => j = to
  BY <1>2 DEF Has
<1>4. /\ Sound(With(r, to, item))
      /\ \A s : Has(With(r, to, item), s) <=> Has(r, s) \/ s = Target(to)
  BY <1>2, <1>3, WithFacts
<1>5. Rekeyed(q, k, to, item) = With(r, to, item)
  BY DEF Rekeyed, r
<1>6. \A s \in Session : Has(q, s) => Has(With(r, to, item), s)
  BY <1>2, <1>4
<1> QED
  BY <1>4, <1>5, <1>6 DEF Good, Keeps

\* An item that is no obligation is asked for.
LEMMA UpsertOrdinary ==
  ASSUME NEW q, Good(q), NEW k \in Key, Target(k) \notin Session
  PROVE  Good(Upsert(q, k)) /\ Keeps(q, Upsert(q, k))
<1> DEFINE old == Item(q, k)
           item == [old EXCEPT !.again = @ \/ old.flight]
<1>1. old \in AnyItem /\ old.id = 0
  <2>1. CASE k \in DOMAIN q
    BY <2>1 DEF Item, Good, Sound, Fits
  <2>2. CASE k \notin DOMAIN q
    BY <2>2, NewItem DEF Item, New
  <2> QED
    BY <2>1, <2>2
<1> HIDE DEF old
<1>2. item \in AnyItem /\ item.id = 0
  BY <1>1 DEF AnyItem
<1>3. Upsert(q, k) = With(q, k, item)
  BY DEF Upsert, old
<1> QED
  BY <1>2, <1>3, PutOrdinary

-----------------------------------------------------------------------------
(* Obligations.                                                            *)

LEMMA ObligationFacts ==
  ASSUME NEW q, Good(q), NEW s \in Session
  PROVE  /\ Obligations(q, s) = {k \in DOMAIN q : Target(k) = s}
         /\ Obligations(q, s) # {} <=> Has(q, s)
         /\ \A j, k \in Obligations(q, s) : j = k
<1>1. \A k \in DOMAIN q : Target(k) = s => q[k].id > 0
  BY DEF Good, Sound, Fits
<1>2. Obligations(q, s) = {k \in DOMAIN q : Target(k) = s}
  BY <1>1 DEF Obligations, IsObligation
<1>3. \A j, k \in Obligations(q, s) : j = k
  BY <1>2 DEF Good, Sound
<1> QED
  BY <1>2, <1>3 DEF Has

\* What is bound to the newest capture fits.
LEMMA BindFacts ==
  ASSUME SessionsOK, NEW k \in Key, Target(k) \in Session,
         NEW item \in AnyItem, Fits(item, k), NEW current \in BOOLEAN
  PROVE  /\ Bind(item, Target(k), current) \in AnyItem
         /\ Fits(Bind(item, Target(k), current), k)
<1> DEFINE s == Target(k)
           bound == Bind(item, s, current)
<1>1. /\ item.id \in Nat /\ capture[s] \in 0..MaxCapture /\ enqueued[s] \in Nat
      /\ item.id > 0 /\ enqueued[s] <= item.id /\ item.id <= capture[s]
      /\ item.stage = "downstream" => item.id <= projected[s]
  BY RetryConstants DEF SessionsOK, AnyItem, Fits
<1>2. CASE capture[s] > item.id
  <2>1. bound = [item EXCEPT !.id = capture[s], !.stage = "projection", !.owes = TRUE,
                             !.current = @ \/ current]
    BY <1>2 DEF Bind
  <2>2. bound \in AnyItem /\ bound.id = capture[s] /\ bound.stage = "projection"
    BY <1>1, <2>1 DEF AnyItem, Stage
  <2> HIDE DEF bound
  <2> QED
    BY <1>1, <1>2, <2>2 DEF Fits, bound
<1>3. CASE ~(capture[s] > item.id)
  <2>1. bound = [item EXCEPT !.current = @ \/ current]
    BY <1>3 DEF Bind
  <2>2. bound \in AnyItem /\ bound.id = item.id /\ bound.stage = item.stage
    BY <1>1, <2>1 DEF AnyItem
  <2> HIDE DEF bound
  <2> QED
    BY <1>1, <2>2 DEF Fits, bound
<1> QED
  BY <1>2, <1>3

LEMMA ReconcileFacts ==
  ASSUME SessionsOK, NEW q, Good(q), NEW s \in Session, NEW current \in BOOLEAN
  PROVE  /\ Good(Reconcile(q, s, current).queue)
         /\ Keeps(q, Reconcile(q, s, current).queue)
<1> DEFINE k == CHOOSE j \in Obligations(q, s) : TRUE
           to == <<Desired(s), s>>
           bound == Bind(q[k], s, current)
           moving == [bound EXCEPT !.retarget = Desired(s)]
           r == Reconcile(q, s, current).queue
<1> SUFFICES Good(r) /\ Keeps(q, r)
  OBVIOUS
<1>1. Keeps(q, q)
  BY DEF Keeps
<1>2. CASE s \notin readable \/ Cardinality(Obligations(q, s)) # 1
  <2>1. r = q
    BY <1>2 DEF Reconcile
  <2> QED
    BY <1>1, <2>1
<1>3. CASE s \in readable /\ Cardinality(Obligations(q, s)) = 1
  <2>1. Obligations(q, s) # {}
    BY <1>3, FS_EmptySet
  <2>2. k \in Obligations(q, s)
    BY <2>1
  <2>3. k \in DOMAIN q /\ Target(k) = s
    BY <2>2, ObligationFacts
  <2>4. k \in Key /\ q[k] \in AnyItem /\ Fits(q[k], k)
    BY <2>3 DEF Good, Sound
  <2>5. to \in Key /\ Target(to) = s
    BY KeyFacts
  <2>6. bound \in AnyItem /\ Fits(bound, k)
    <3> HIDE DEF k
    <3> QED
      BY <2>3, <2>4, BindFacts
  <2>7. moving \in AnyItem /\ Fits(moving, k) /\ Fits(bound, to)
    <3> HIDE DEF bound, k
    <3>1. moving \in AnyItem /\ moving.id = bound.id /\ moving.stage = bound.stage
      BY <2>6 DEF AnyItem, Desired, HeavyProfile
    <3> HIDE DEF moving, to
    <3> QED
      BY <2>3, <2>5, <2>6, <3>1 DEF Fits
  <2>8. CASE k = to
    <3>1. r = With(q, k, bound)
      BY <1>3, <2>8 DEF Reconcile
    <3> HIDE DEF k, bound, r
    <3> QED
      BY <2>3, <2>6, <3>1, Replaced
  <2>9. CASE k # to /\ q[k].flight
    <3>1. r = With(q, k, moving)
      BY <1>3, <2>9 DEF Reconcile
    <3> HIDE DEF k, moving, r
    <3> QED
      BY <2>3, <2>7, <3>1, Replaced
  <2>10. CASE k # to /\ ~q[k].flight /\ to \in DOMAIN q
    <3>1. r = q
      BY <1>3, <2>10 DEF Reconcile
    <3> QED
      BY <1>1, <3>1
  <2>11. CASE k # to /\ ~q[k].flight /\ to \notin DOMAIN q
    <3>1. r = Rekeyed(q, k, to, bound)
      BY <1>3, <2>11 DEF Reconcile
    <3> HIDE DEF k, bound, to, r
    <3> QED
      BY <2>3, <2>5, <2>6, <2>7, <2>11, <3>1, Moved
  <2> QED
    BY <2>8, <2>9, <2>10, <2>11
<1> QED
  BY <1>2, <1>3 DEF SessionsOK

\* Claims are given back without a change of what is owed.
LEMMA BegunFacts ==
  ASSUME NEW q, Good(q)
  PROVE  Good(Begun(q)) /\ Keeps(q, Begun(q))
<1> DEFINE r == Recovered(q)
<1>1. DOMAIN r = DOMAIN q /\ r = [k \in DOMAIN r |-> r[k]]
  BY DEF Recovered
<1>2. ASSUME NEW k \in DOMAIN q
      PROVE  r[k] \in AnyItem /\ r[k].id = q[k].id /\ r[k].stage = q[k].stage
  <2>1. q[k] \in AnyItem
    BY DEF Good, Sound
  <2>2. CASE q[k].flight
    <3>1. r[k] = [q[k] EXCEPT !.flight = FALSE, !.again = FALSE,
                              !.wait = IF q[k].wait = "later" THEN "due" ELSE q[k].wait]
      BY <2>2 DEF Recovered
    <3> QED
      BY <2>1, <3>1 DEF AnyItem, Wait
  <2>3. CASE ~q[k].flight
    BY <2>1, <2>3 DEF Recovered
  <2> QED
    BY <2>2, <2>3
<1> HIDE DEF r
<1>3. r \in [DOMAIN r -> AnyItem]
  BY <1>1, <1>2
<1>4. \A k \in DOMAIN r : Fits(r[k], k)
  BY <1>1, <1>2 DEF Good, Sound, Fits
<1>5. \A s : Has(r, s) <=> Has(q, s)
  BY <1>1 DEF Has
<1>6. Good(r) /\ Keeps(q, r)
  BY <1>1, <1>3, <1>4, <1>5 DEF Good, Sound, Keeps
<1> QED
  BY <1>6 DEF Begun, Keeps, r

-----------------------------------------------------------------------------
(* A write of the queue.                                                   *)

LEMMA NewestFacts ==
  ASSUME SessionsOK, NEW q, Good(q), NEW s \in Session
  PROVE  /\ NewestBound(q)[s] \in 0..MaxCapture
         /\ NewestBound(q)[s] <= capture[s]
         /\ \A k \in DOMAIN q : Target(k) = s => NewestBound(q)[s] = q[k].id
         /\ ~Has(q, s) => NewestBound(q)[s] = enqueued[s]
<1> DEFINE P(i) == /\ \E k \in Obligations(q, s) : q[k].id = i
                   /\ \A k \in Obligations(q, s) : q[k].id <= i
           newest == CHOOSE i \in Identity : P(i)
<1>1. NewestBound(q)[s] = IF \E k \in Obligations(q, s) : q[k].id > enqueued[s]
                          THEN newest ELSE enqueued[s]
  BY DEF NewestBound
<1>2. enqueued[s] \in 0..MaxCapture /\ enqueued[s] <= capture[s]
  BY DEF SessionsOK
<1>3. CASE ~Has(q, s)
  <2>1. Obligations(q, s) = {}
    BY <1>3, ObligationFacts
  <2>2. NewestBound(q)[s] = enqueued[s]
    BY <1>1, <2>1
  <2> QED
    BY <1>2, <1>3, <2>2 DEF Has
<1>4. CASE Has(q, s)
  <2>1. PICK k \in DOMAIN q : Target(k) = s
    BY <1>4 DEF Has
  <2>2. Obligations(q, s) = {k}
    BY <2>1, ObligationFacts
  <2>3. \A j \in DOMAIN q : Target(j) = s => j = k
    BY <2>1 DEF Good, Sound
  <2>4. /\ q[k].id \in 0..MaxCapture /\ q[k].id > 0
        /\ enqueued[s] <= q[k].id /\ q[k].id <= capture[s]
    BY <2>1 DEF Good, Sound, Fits, AnyItem
  <2>5. newest = q[k].id
    <3>1. q[k].id \in Identity /\ P(q[k].id)
      BY <2>2, <2>4, RetryConstants DEF Identity
    <3>2. \A i : P(i) => i = q[k].id
      BY <2>2
    <3> HIDE DEF P
    <3> QED
      BY <3>1, <3>2
  <2>6. NewestBound(q)[s] = q[k].id
    <3> HIDE DEF newest, P
    <3> QED
      BY <1>1, <1>2, <2>2, <2>4, <2>5, RetryConstants
  <2> QED
    BY <1>4, <2>3, <2>4, <2>6
<1> QED
  BY <1>3, <1>4

LEMMA SetQueueFacts ==
  ASSUME SessionsOK, NEW q, Good(q), SetQueue(q), UNCHANGED sessions
  PROVE  SessionsOK' /\ QueueOK'
<1>1. /\ items' = q /\ enqueued' = NewestBound(q)
      /\ capture' = capture /\ projected' = projected /\ converged' = converged
  BY DEF SetQueue, sessions
<1>2. \A s \in Session :
        /\ enqueued'[s] \in 0..MaxCapture
        /\ enqueued'[s] <= capture[s]
        /\ \A k \in DOMAIN q : Target(k) = s => enqueued'[s] = q[k].id
        /\ ~Has(q, s) => enqueued'[s] = enqueued[s]
  BY <1>1, NewestFacts
<1>3. enqueued' \in [Session -> 0..MaxCapture]
  BY <1>1, <1>2 DEF NewestBound
<1>4. SessionsOK'
  BY <1>1, <1>2, <1>3 DEF SessionsOK
<1>5. \A k \in DOMAIN q : Target(k) \in Session => q[k].id = enqueued'[Target(k)]
  BY <1>2
<1>6. ASSUME NEW k \in DOMAIN q
      PROVE  /\ Target(k) \in Session =>
                 /\ q[k].id > 0
                 /\ enqueued'[Target(k)] <= q[k].id
                 /\ q[k].id <= capture[Target(k)]
                 /\ q[k].stage = "downstream" => q[k].id <= projected[Target(k)]
             /\ Target(k) \notin Session => q[k].id = 0
  <2>1. Fits(q[k], k) /\ q[k].id \in Nat
    BY RetryConstants DEF Good, Sound, AnyItem
  <2> QED
    BY <1>5, <2>1 DEF Fits
<1>7. \A s \in Session : Has(q, s) \/ enqueued'[s] <= projected[s]
  BY <1>2 DEF Good
<1>8. Good(items)'
  BY <1>1, <1>6, <1>7 DEF Good, Sound, Fits, Has, Target, Key
<1> QED
  BY <1>1, <1>4, <1>5, <1>8 DEF QueueOK, Target

\* A queue that may replace the queue of this state.
Writable(q) ==
    /\ Good(q)
    /\ \A s \in Session :
        Has(items, s) => \/ Has(q, s)
                         \/ enqueued[s] <= converged[s]
                         \/ disp.pc = "finish" /\ ~disp.required

LEMMA KeepsWritable ==
  ASSUME NEW q, Good(q), Keeps(items, q)
  PROVE  Writable(q)
BY DEF Keeps, Writable

\* What a write keeps of the invariant.
LEMMA Written ==
  ASSUME IInv, NEW q, Writable(q), SetQueue(q), UNCHANGED sessions
  PROVE  SessionsOK' /\ QueueOK' /\ Release
<1>1. SessionsOK' /\ QueueOK'
  BY SetQueueFacts DEF IInv, Writable
<1>2. items' = q
  BY DEF SetQueue
<1>3. Release
  BY <1>2 DEF Release, Writable
<1> QED
  BY <1>1, <1>3

-----------------------------------------------------------------------------
(* Sessions change while the queue does not.                               *)

Grows ==
    \A s \in Session : /\ capture[s] <= capture'[s]
                       /\ projected[s] <= projected'[s]
                       /\ converged[s] <= converged'[s]

LEMMA QueueWaits ==
  ASSUME IInv, SessionsOK', Grows, UNCHANGED <<items, enqueued>>
  PROVE  QueueOK' /\ Release
<1> USE DEF IInv
<1>1. items' = items /\ enqueued' = enqueued
  OBVIOUS
<1>2. ASSUME NEW s \in Session
      PROVE  /\ capture[s] \in Nat /\ capture'[s] \in Nat /\ capture[s] <= capture'[s]
             /\ projected[s] \in Nat /\ projected'[s] \in Nat /\ projected[s] <= projected'[s]
             /\ enqueued[s] \in Nat
  BY RetryConstants DEF SessionsOK, Grows
<1>3. ASSUME NEW k \in DOMAIN items
      PROVE  /\ Target(k) \in Session =>
                 /\ items[k].id > 0
                 /\ enqueued[Target(k)] <= items[k].id
                 /\ items[k].id <= capture'[Target(k)]
                 /\ items[k].stage = "downstream" => items[k].id <= projected'[Target(k)]
             /\ Target(k) \notin Session => items[k].id = 0
  <2>1. Fits(items[k], k) /\ items[k].id \in Nat
    BY RetryConstants DEF QueueOK, Good, Sound, AnyItem
  <2> QED
    BY <1>2, <2>1 DEF Fits
<1>4. \A s \in Session : Has(items, s) \/ enqueued[s] <= projected'[s]
  BY <1>2 DEF QueueOK, Good
<1>5. Good(items)'
  BY <1>1, <1>3, <1>4 DEF QueueOK, Good, Sound, Fits, Has, Target, Key
<1>6. QueueOK'
  BY <1>1, <1>5 DEF QueueOK, Target
<1>7. Release
  BY <1>1 DEF Release
<1> QED
  BY <1>6, <1>7

LEMMA DispatcherTypes ==
  ASSUME DispatcherOK
  PROVE  /\ disp = NoDispatcher => disp.pc = "off"
         /\ disp.pc = "before" => disp \in BeforeType
         /\ disp.pc \in Running => disp \in RunType
         /\ disp.pc \in {"before"} \union Running =>
              disp.key \in Key /\ disp.id \in 0..MaxCapture
<1>1. disp = NoDispatcher => disp.pc = "off"
  BY DEF NoDispatcher
<1>2. /\ disp.pc = "before" => disp \in BeforeType
      /\ disp.pc \in Running => disp \in RunType
  BY DEF DispatcherOK
<1>3. disp \in BeforeType => disp.key \in Key /\ disp.id \in 0..MaxCapture
  BY DEF BeforeType
<1>4. disp \in RunType => disp.key \in Key /\ disp.id \in 0..MaxCapture
  BY DEF RunType
<1> QED
  BY <1>1, <1>2, <1>3, <1>4

LEMMA DispatcherWaits ==
  ASSUME IInv, SessionsOK', Grows, UNCHANGED disp
  PROVE  DispatcherOK'
<1>1. DispatcherOK /\ disp' = disp
  BY DEF IInv
<1>2. disp.pc \in {"before"} \union Running => disp.id \in Nat
  BY <1>1, DispatcherTypes, RetryConstants
<1>3. ASSUME NEW s \in Session
      PROVE  /\ projected[s] \in Nat /\ projected'[s] \in Nat /\ projected[s] <= projected'[s]
             /\ converged[s] \in Nat /\ converged'[s] \in Nat /\ converged[s] <= converged'[s]
  BY RetryConstants DEF IInv, SessionsOK, Grows
<1>4. ASSUME disp.pc \in {"before"} \union Running, disp.id > 0
      PROVE  /\ disp.id <= projected[Target(disp.key)] =>
                 disp.id <= projected'[Target(disp.key)]
             /\ disp.id <= converged[Target(disp.key)] =>
                 disp.id <= converged'[Target(disp.key)]
  <2>1. Target(disp.key) \in Session /\ disp.id \in Nat
    BY <1>1, <1>2, <1>4 DEF DispatcherOK
  <2> QED
    BY <1>3, <2>1
<1>5. disp.pc = "finish" => disp.pc \in Running
  BY DEF Running
<1>6. Proven /\ disp.pc \in {"before"} \union Running /\ disp.id > 0 => Proven'
  BY <1>1, <1>4 DEF Proven, Target
<1>7. disp.pc = "finish" /\ disp.id > 0 /\ disp.id <= converged[Target(disp.key)] =>
        (disp.id <= converged[Target(disp.key)])'
  BY <1>1, <1>4, <1>5 DEF Target
<1>8. (\/ disp = NoDispatcher \/ disp \in ClaimType \/ disp \in BeforeType \/ disp \in RunType)'
  BY <1>1 DEF DispatcherOK, ClaimType, BeforeType, RunType, Key
<1>9. /\ (disp.pc = "claim" => disp \in ClaimType)'
      /\ (disp.pc = "before" => disp \in BeforeType)'
      /\ (disp.pc \in Running => disp \in RunType)'
  BY <1>1 DEF DispatcherOK, ClaimType, BeforeType, RunType, Key
<1> QED
  BY <1>1, <1>5, <1>6, <1>7, <1>8, <1>9 DEF DispatcherOK, Target

LEMMA WatchWaits ==
  ASSUME IInv, SessionsOK', Grows, UNCHANGED watch
  PROVE  WatchOK'
<1>1. ASSUME NEW s \in Session
      PROVE  capture[s] \in Nat /\ capture'[s] \in Nat /\ capture[s] <= capture'[s]
  BY RetryConstants DEF IInv, SessionsOK, Grows
<1> QED
  BY <1>1 DEF IInv, WatchOK, NoWatch

-----------------------------------------------------------------------------
(* Steps outside of the dispatcher.                                        *)

\* Nothing but the sessions changes.
LEMMA SessionStep ==
  ASSUME IInv, SessionsOK', Grows, UNCHANGED <<items, watch, disp, enqueued>>
  PROVE  IInv' /\ Release
BY QueueWaits, DispatcherWaits, WatchWaits DEF IInv

LEMMA StaticStep ==
  ASSUME IInv, UNCHANGED sessions
  PROVE  Grows /\ (UNCHANGED enqueued => SessionsOK')
<1>1. capture' = capture /\ projected' = projected /\ converged' = converged
  BY DEF sessions
<1>2. ASSUME NEW s \in Session
      PROVE  capture[s] <= capture[s] /\ projected[s] <= projected[s] /\ converged[s] <= converged[s]
  BY RetryConstants DEF IInv, SessionsOK
<1> QED
  BY <1>1, <1>2 DEF Grows, IInv, SessionsOK

LEMMA WorldSteps ==
  ASSUME IInv, NEW s \in Session,
         Capture(s) \/ BecomeUnreadable(s) \/ Repair(s) \/ SyncElsewhere(s) \/ ConvergeElsewhere(s)
  PROVE  IInv' /\ Release
<1> USE RetryConstants
<1>1. SessionsOK
  BY DEF IInv
<1>2. CASE Capture(s)
  <2>1. SessionsOK' /\ Grows
    BY <1>1, <1>2 DEF Capture, SessionsOK, Grows
  <2> QED
    BY <1>2, <2>1, SessionStep DEF Capture
<1>3. CASE BecomeUnreadable(s) \/ Repair(s)
  <2>1. SessionsOK' /\ Grows
    BY <1>1, <1>3 DEF BecomeUnreadable, Repair, SessionsOK, Grows
  <2> QED
    BY <1>3, <2>1, SessionStep DEF BecomeUnreadable, Repair
<1>4. CASE SyncElsewhere(s)
  <2>1. SessionsOK' /\ Grows
    BY <1>1, <1>4 DEF SyncElsewhere, SessionsOK, Grows
  <2> QED
    BY <1>4, <2>1, SessionStep DEF SyncElsewhere
<1>5. CASE ConvergeElsewhere(s)
  <2>1. SessionsOK' /\ Grows
    BY <1>1, <1>5 DEF ConvergeElsewhere, SessionsOK, Grows
  <2> QED
    BY <1>5, <2>1, SessionStep DEF ConvergeElsewhere
<1> QED
  BY <1>2, <1>3, <1>4, <1>5

LEMMA PreflightStep ==
  ASSUME IInv, NEW s \in Session, Preflight(s)
  PROVE  IInv' /\ Release
<1>1. SessionsOK' /\ Grows
  BY StaticStep DEF Preflight
<1>2. QueueOK' /\ Release /\ DispatcherOK'
  BY <1>1, QueueWaits, DispatcherWaits DEF Preflight
<1>3. PICK current \in Origins :
        watch' = [session |-> s, current |-> current,
                  proven |-> IF s \in readable /\ projected[s] = capture[s]
                             THEN capture[s] ELSE 0]
  BY DEF Preflight
<1>4. capture' = capture /\ capture[s] > 0 /\ capture[s] \in 0..MaxCapture
  BY DEF Preflight, sessions, IInv, SessionsOK
<1>5. WatchOK'
  BY <1>3, <1>4, RetryConstants DEF WatchOK
<1> QED
  BY <1>1, <1>2, <1>5 DEF IInv

LEMMA WatchCrashStep ==
  ASSUME IInv, WatchCrash
  PROVE  IInv' /\ Release
<1>1. SessionsOK' /\ Grows
  BY StaticStep DEF WatchCrash
<1>2. QueueOK' /\ Release /\ DispatcherOK'
  BY <1>1, QueueWaits, DispatcherWaits DEF WatchCrash
<1>3. WatchOK'
  BY DEF WatchCrash, WatchOK
<1> QED
  BY <1>1, <1>2, <1>3 DEF IInv

\* A write of the queue by another process than the dispatcher.
LEMMA OutsideWrite ==
  ASSUME IInv, NEW q, Writable(q), SetQueue(q), UNCHANGED <<sessions, disp>>,
         watch' = watch \/ watch' = NoWatch
  PROVE  IInv' /\ Release
<1>1. SessionsOK' /\ QueueOK' /\ Release
  BY Written
<1>2. Grows
  BY StaticStep
<1>3. DispatcherOK'
  BY <1>1, <1>2, DispatcherWaits
<1>4. WatchOK'
  <2>1. CASE watch' = watch
    BY <1>1, <1>2, <2>1, WatchWaits
  <2>2. CASE watch' = NoWatch
    BY <2>2 DEF WatchOK
  <2> QED
    BY <2>1, <2>2
<1> QED
  BY <1>1, <1>3, <1>4 DEF IInv

LEMMA WithTwice ==
  ASSUME NEW q, NEW k, NEW a, NEW b
  PROVE  With(With(q, k, a), k, b) = With(q, k, b)
<1> DEFINE r == With(q, k, a)
<1>1. DOMAIN r = DOMAIN q \union {k} /\ \A j \in DOMAIN q : j # k => r[j] = q[j]
  BY DEF With
<1> HIDE DEF r
<1>2. With(r, k, b) = With(q, k, b)
  BY <1>1 DEF With
<1> QED
  BY <1>2 DEF r

LEMMA EnqueueStep ==
  ASSUME IInv, Enqueue
  PROVE  IInv' /\ Release
<1> DEFINE s == watch.session
           k == <<Desired(s), s>>
<1>1. s \in Session /\ watch.current \in BOOLEAN /\ capture[s] > 0
  BY DEF Enqueue, IInv, WatchOK
<1>2. Good(items) /\ SessionsOK
  BY DEF IInv, QueueOK
<1>3. k \in Key /\ Target(k) = s
  BY <1>1, KeyFacts
<1> SUFFICES Good(Enqueued(s)) /\ Keeps(items, Enqueued(s))
  BY KeepsWritable, OutsideWrite DEF Enqueue
<1>4. CASE Obligations(items, s) # {}
  <2>1. Enqueued(s) = Reconcile(items, s, watch.current).queue
    BY <1>4 DEF Enqueued
  <2> QED
    BY <1>1, <1>2, <2>1, ReconcileFacts
<1>5. CASE Obligations(items, s) = {} /\ (s \notin readable \/ Suppressed(s))
  <2>1. Enqueued(s) = items
    BY <1>5 DEF Enqueued
  <2> QED
    BY <1>2, <2>1 DEF Keeps
<1>6. CASE Obligations(items, s) = {} /\ ~(s \notin readable \/ Suppressed(s))
  <2> DEFINE q == Upsert(items, k)
             item == [q[k] EXCEPT !.id = capture[s], !.current = watch.current]
  <2>1. ~Has(items, s)
    BY <1>1, <1>2, <1>6, ObligationFacts
  <2>2. k \notin DOMAIN items
    BY <1>3, <2>1 DEF Has
  <2>3. q = With(items, k, [New EXCEPT !.again = @ \/ New.flight])
    BY <2>2 DEF Upsert, Item
  <2>4. q[k] = [New EXCEPT !.again = New.again \/ New.flight]
    BY <2>3 DEF With
  <2>5. q[k] \in AnyItem /\ q[k].stage = "projection"
    <3> HIDE DEF q, k
    <3> QED
      BY <2>4, NewItem DEF New, AnyItem
  <2>6. /\ capture[s] \in 0..MaxCapture /\ capture[s] > 0 /\ enqueued[s] <= capture[s]
        /\ capture[s] <= capture[s]
    BY <1>1, <1>2, RetryConstants DEF SessionsOK
  <2>7. item \in AnyItem /\ item.id = capture[s] /\ item.stage = "projection"
    <3> HIDE DEF q, k
    <3> QED
      BY <1>1, <2>5, <2>6 DEF AnyItem
  <2>8. Enqueued(s) = With(q, k, item)
    BY <1>6 DEF Enqueued
  <2>9. Enqueued(s) = With(items, k, item)
    <3> HIDE DEF item, k
    <3> QED
      BY <2>3, <2>8, WithTwice
  <2> HIDE DEF item, q, k
  <2>10. Fits(item, k)
    BY <1>1, <1>3, <2>6, <2>7 DEF Fits
  <2>11. Sound(items) /\ \A j \in DOMAIN items : Target(j) = Target(k) => j = k
    BY <1>2, <1>3, <2>1 DEF Good, Has
  <2>12. /\ Sound(With(items, k, item))
         /\ \A t : Has(With(items, k, item), t) <=> Has(items, t) \/ t = Target(k)
    BY <1>3, <2>7, <2>10, <2>11, WithFacts
  <2>13. /\ Sound(Enqueued(s))
         /\ \A t : Has(items, t) => Has(Enqueued(s), t)
    BY <2>9, <2>12
  <2> QED
    BY <1>2, <2>13, <2>9, <2>12 DEF Good, Keeps
<1> QED
  BY <1>4, <1>5, <1>6

\* A write that binds nothing and removes nothing.
LEMMA ElapseStep ==
  ASSUME IInv, NEW k \in Key, Elapse(k)
  PROVE  IInv' /\ Release
<1>1. /\ k \in DOMAIN items /\ enqueued' = enqueued
      /\ capture' = capture /\ projected' = projected
  BY DEF Elapse, sessions
<1>2. PICK w \in Wait : items' = [items EXCEPT ![k].wait = w]
  BY DEF Elapse, Wait
<1>3. DOMAIN items' = DOMAIN items /\ items' = [j \in DOMAIN items' |-> items'[j]]
  BY <1>1, <1>2 DEF IInv, QueueOK, Good, Sound
<1>4. ASSUME NEW j \in DOMAIN items
      PROVE  items'[j] \in AnyItem /\ items'[j].id = items[j].id /\ items'[j].stage = items[j].stage
  <2>1. items[j] \in AnyItem
    BY DEF IInv, QueueOK, Good, Sound
  <2>2. items'[j] = IF j = k THEN [items[j] EXCEPT !.wait = w] ELSE items[j]
    BY <1>1, <1>2 DEF IInv, QueueOK, Good, Sound
  <2> QED
    BY <2>1, <2>2 DEF AnyItem
<1>5. items' \in [DOMAIN items' -> AnyItem]
  BY <1>3, <1>4
<1>6. Good(items)'
  BY <1>1, <1>3, <1>4, <1>5 DEF IInv, QueueOK, Good, Sound, Fits, Has, Target, Key
<1>7. QueueOK'
  BY <1>1, <1>3, <1>4, <1>6 DEF IInv, QueueOK, Target
<1>8. Release
  BY <1>3 DEF Release, Has
<1>9. SessionsOK' /\ Grows
  BY StaticStep DEF Elapse
<1> QED
  BY <1>7, <1>8, <1>9, DispatcherWaits, WatchWaits DEF Elapse, IInv

-----------------------------------------------------------------------------
(* Launches.                                                               *)

LEMMA LaunchSteps ==
  ASSUME IInv, NEW k \in Key,
         LaunchRefused(k) \/ LaunchFindsCircuitOpen(k) \/ LaunchHandsOff(k)
  PROVE  IInv' /\ Release
<1>1. Good(items)
  BY DEF IInv, QueueOK
<1>2. Target(k) \notin Session
  BY KeyFacts DEF LaunchRefused, LaunchFindsCircuitOpen, LaunchHandsOff
<1>3. CASE LaunchRefused(k)
  <2>1. Writable(Upsert(items, k))
    BY <1>1, <1>2, UpsertOrdinary, KeepsWritable
  <2> QED
    BY <1>3, <2>1, OutsideWrite DEF LaunchRefused
<1>4. Good(Without(items, k)) /\ Keeps(items, Without(items, k))
  BY <1>1, <1>2, Removed DEF Keeps
<1>5. CASE LaunchFindsCircuitOpen(k)
  <2>1. Writable(Without(items, k))
    BY <1>4, KeepsWritable
  <2> QED
    BY <1>5, <2>1, OutsideWrite DEF LaunchFindsCircuitOpen
<1>6. CASE LaunchHandsOff(k)
  <2> DEFINE to == <<"deep", Target(k)>>
             r == Without(items, k)
  <2>1. to \in Key /\ Target(to) \notin Session
    BY <1>6, KeyFacts DEF LaunchHandsOff
  <2> HIDE DEF to, r
  <2>2. Good(r) /\ Keeps(items, r)
    BY <1>4 DEF r
  <2>3. Good(Upsert(r, to)) /\ Keeps(r, Upsert(r, to))
    BY <2>1, <2>2, UpsertOrdinary
  <2>4. Writable(Upsert(r, to))
    BY <2>2, <2>3, KeepsWritable DEF Keeps
  <2>5. SetQueue(Upsert(r, to)) /\ UNCHANGED <<sessions, watch, disp, faults>>
    BY <1>6 DEF LaunchHandsOff, r, to
  <2> QED
    BY <2>4, <2>5, OutsideWrite
<1> QED
  BY <1>3, <1>5, <1>6

LEMMA LaunchSucceedsStep ==
  ASSUME IInv, NEW k \in Key, LaunchSucceeds(k)
  PROVE  IInv' /\ Release
<1> DEFINE item == items[k]
           s == Target(k)
           done == [item EXCEPT !.owes = TRUE, !.stage = "downstream"]
<1>1. k \in DOMAIN items /\ Good(items) /\ item \in AnyItem /\ Fits(item, k)
  BY DEF LaunchSucceeds, IInv, QueueOK, Good, Sound
<1> SUFFICES Writable(Cleared(k))
  BY OutsideWrite DEF LaunchSucceeds
<1>2. CASE IsObligation(item) /\ ~IsProjected(item, s)
  <2>1. Cleared(k) = items
    BY <1>2 DEF Cleared
  <2> QED
    BY <1>1, <2>1, KeepsWritable DEF Keeps
<1>3. CASE IsObligation(item) /\ IsProjected(item, s) /\ ~IsConverged(item, s)
  <2>1. Cleared(k) = With(items, k, done)
    BY <1>3 DEF Cleared
  <2>2. done \in AnyItem /\ done.id = item.id
    BY <1>1 DEF AnyItem, Stage
  <2>3. Fits(done, k)
    <3>1. item.id = projected[s] /\ item.id \in Nat
      BY <1>1, <1>3, RetryConstants DEF IsProjected, AnyItem
    <3> HIDE DEF done
    <3> QED
      BY <1>1, <2>2, <3>1 DEF Fits
  <2> HIDE DEF done
  <2> QED
    BY <1>1, <2>1, <2>2, <2>3, Replaced, KeepsWritable
<1>4. CASE ~IsObligation(item) \/ (IsProjected(item, s) /\ IsConverged(item, s))
  <2>1. Cleared(k) = Without(items, k)
    BY <1>4 DEF Cleared
  <2>2. s \in Session => /\ enqueued[s] <= projected[s]
                         /\ enqueued[s] <= converged[s]
    <3> SUFFICES ASSUME s \in Session
                 PROVE  enqueued[s] <= projected[s] /\ enqueued[s] <= converged[s]
      OBVIOUS
    <3>1. item.id > 0 /\ enqueued[s] = item.id /\ item.id \in Nat
      BY <1>1, RetryConstants DEF Fits, IInv, QueueOK, AnyItem
    <3>2. projected[s] = item.id /\ converged[s] = item.id
      BY <1>4, <3>1 DEF IsObligation, IsProjected, IsConverged
    <3> QED
      BY <3>1, <3>2
  <2>3. /\ Good(Without(items, k))
        /\ \A t \in Session : t # s /\ Has(items, t) => Has(Without(items, k), t)
    BY <1>1, <2>2, Removed
  <2> QED
    BY <2>1, <2>2, <2>3 DEF Writable
<1> QED
  BY <1>2, <1>3, <1>4

-----------------------------------------------------------------------------
(* The dispatcher claims.                                                  *)

LEMMA Idle ==
  ASSUME disp' = NoDispatcher \/ disp' \in ClaimType
  PROVE  DispatcherOK'
<1>1. disp'.pc \in {"off", "claim"} /\ (disp'.pc = "claim" => disp' \in ClaimType)
  BY DEF NoDispatcher, ClaimType
<1>2. ClaimType' = ClaimType
  BY DEF ClaimType, Key
<1> QED
  BY <1>1, <1>2 DEF DispatcherOK, Running

\* A write of the queue by the dispatcher.
LEMMA DispatcherWrite ==
  ASSUME IInv, NEW q, Writable(q), SetQueue(q), UNCHANGED <<sessions, watch>>, DispatcherOK'
  PROVE  IInv' /\ Release
<1>1. SessionsOK' /\ QueueOK' /\ Release
  BY Written
<1>2. WatchOK'
  BY <1>1, StaticStep, WatchWaits
<1> QED
  BY <1>1, <1>2 DEF IInv

\* A step of the dispatcher that only reads.
LEMMA DispatcherRead ==
  ASSUME IInv, UNCHANGED <<items, sessions, watch, enqueued>>, DispatcherOK'
  PROVE  IInv' /\ Release
<1>1. SessionsOK' /\ Grows
  BY StaticStep
<1> QED
  BY <1>1, QueueWaits, WatchWaits DEF IInv

LEMMA StartAndCrash ==
  ASSUME IInv, StartDispatcher \/ DispatcherCrash
  PROVE  IInv' /\ Release
<1>1. CASE StartDispatcher
  <2>1. disp' \in ClaimType
    BY <1>1, RetryConstants DEF StartDispatcher, ClaimType
  <2> QED
    BY <1>1, <2>1, Idle, DispatcherRead DEF StartDispatcher
<1>2. CASE DispatcherCrash
  BY <1>2, Idle, DispatcherRead DEF DispatcherCrash
<1> QED
  BY <1>1, <1>2

LEMMA ClaimNoneStep ==
  ASSUME IInv, ClaimNone
  PROVE  IInv' /\ Release
<1>1. Good(items)
  BY DEF IInv, QueueOK
<1>2. Writable(items) /\ Writable(Begun(items))
  BY <1>1, BegunFacts, KeepsWritable DEF Keeps
<1>3. PICK q \in {items, Begun(items)} : SetQueue(q)
  BY DEF ClaimNone
<1> QED
  BY <1>2, <1>3, Idle, DispatcherWrite DEF ClaimNone

LEMMA RefuseStep ==
  ASSUME IInv, NEW k \in Key, Refuse(k)
  PROVE  IInv' /\ Release
<1>1. Good(items)
  BY DEF IInv, QueueOK
<1>2. Writable(Begun(items))
  BY <1>1, BegunFacts, KeepsWritable
<1>3. disp \in ClaimType
  BY DEF Refuse, IInv, DispatcherOK
<1>4. disp' \in ClaimType
  BY <1>3 DEF Refuse, ClaimType
<1> QED
  BY <1>2, <1>4, Idle, DispatcherWrite DEF Refuse

LEMMA TakeStep ==
  ASSUME IInv, disp.pc = "claim", disp.slots < Limit,
         NEW r, Good(r), Keeps(items, r), NEW j \in DOMAIN r, Take(r, j),
         UNCHANGED <<sessions, watch>>
  PROVE  IInv' /\ Release
<1> DEFINE owes == r[j].owes \/ (IsObligation(r[j]) /\ HasRecord(Target(j)))
           item == [r[j] EXCEPT !.flight = TRUE, !.attempts = @ + 1, !.again = FALSE,
                        !.owes = @ \/ (IsObligation(r[j]) /\ HasRecord(Target(j)))]
           aged == disp.heavy \/ j \in AgedHeavy(r)
<1>1. r[j] \in AnyItem /\ Fits(r[j], j) /\ j \in Key
  BY DEF Good, Sound
<1>2. item = [r[j] EXCEPT !.flight = TRUE, !.attempts = r[j].attempts + 1, !.again = FALSE,
                          !.owes = owes]
  OBVIOUS
<1>3. owes \in BOOLEAN /\ aged \in BOOLEAN
  OBVIOUS
<1>4. /\ SetQueue(With(r, j, item))
      /\ disp' = [pc |-> "before", recovered |-> TRUE, slots |-> disp.slots + 1,
                  skipped |-> disp.skipped, key |-> j,
                  id |-> item.id, stage |-> item.stage, owes |-> item.owes,
                  heavy |-> aged]
  BY DEF Take
<1> HIDE DEF owes, aged
<1>5. /\ item \in AnyItem /\ item.id = r[j].id /\ item.stage = r[j].stage
      /\ item.owes \in BOOLEAN
  <2> DEFINE old == r[j]
             n == old.attempts + 1
  <2>1. old \in AnyItem /\ item = [old EXCEPT !.flight = TRUE, !.attempts = n,
                                              !.again = FALSE, !.owes = owes]
    BY <1>1, <1>2
  <2>2. n \in Nat
    BY <1>1 DEF AnyItem
  <2> HIDE DEF item, old, n
  <2>3. /\ item \in AnyItem /\ item.id = old.id /\ item.stage = old.stage
        /\ item.owes \in BOOLEAN
    BY <1>3, <2>1, <2>2 DEF AnyItem
  <2> QED
    BY <2>3 DEF old
<1> HIDE DEF item
<1>6. Fits(item, j)
  BY <1>1, <1>5 DEF Fits
<1>7. Good(With(r, j, item)) /\ Keeps(r, With(r, j, item))
  BY <1>5, <1>6, Replaced
<1>8. Writable(With(r, j, item))
  BY <1>7, KeepsWritable DEF Keeps
<1>9. disp \in ClaimType
  BY DEF IInv, DispatcherOK
<1>10. disp.slots + 1 \in 1..Limit /\ disp.skipped \in SUBSET Key
  BY <1>9, RetryConstants DEF ClaimType
<1>11. disp' \in BeforeType
  BY <1>1, <1>3, <1>4, <1>5, <1>10 DEF BeforeType, AnyItem
<1>12. /\ disp'.pc = "before" /\ disp'.key = j
       /\ disp'.id = item.id /\ disp'.stage = item.stage
  BY <1>4
<1>13. /\ item.id > 0 <=> Target(j) \in Session
       /\ item.id > 0 /\ item.stage = "downstream" => item.id <= projected[Target(j)]
  BY <1>6 DEF Fits
<1>14. DispatcherOK'
  <2>1. BeforeType' = BeforeType /\ projected' = projected
    BY DEF BeforeType, Key, sessions
  <2> QED
    BY <1>11, <1>12, <1>13, <2>1 DEF DispatcherOK, Proven, Running, Target
<1> QED
  BY <1>4, <1>8, <1>14, DispatcherWrite

LEMMA ClaimStep ==
  ASSUME IInv, NEW k \in Key, Claim(k)
  PROVE  IInv' /\ Release
<1> DEFINE q == Begun(items)
           admitted == Reconcile(q, Target(k), q[k].current)
           r == IF IsObligation(q[k]) THEN admitted.queue ELSE q
<1>1. SessionsOK /\ Good(items)
  BY DEF IInv, QueueOK
<1>2. Good(q) /\ Keeps(items, q)
  BY <1>1, BegunFacts
<1>3. \A p, j : j \in First(p) => j \in DOMAIN p
  BY DEF First, CurrentRows, AgedHeavy, Due
<1>4. k \in DOMAIN q
  BY <1>3 DEF Claim
<1>5. Good(r) /\ Keeps(items, r)
  <2>1. CASE IsObligation(q[k])
    <3>1. Target(k) \in Session /\ q[k].current \in BOOLEAN
      BY <1>2, <1>4, <2>1 DEF Good, Sound, Fits, IsObligation, AnyItem
    <3>2. Good(admitted.queue) /\ Keeps(q, admitted.queue)
      <4> HIDE DEF q
      <4> QED
        BY <1>1, <1>2, <3>1, ReconcileFacts
    <3> HIDE DEF admitted, q
    <3> QED
      BY <1>2, <2>1, <3>2 DEF Keeps
  <2>2. CASE ~IsObligation(q[k])
    BY <1>2, <2>2
  <2> QED
    BY <2>1, <2>2
<1>6. /\ disp.pc = "claim" /\ disp.slots < Limit /\ UNCHANGED <<sessions, watch>>
      /\ \/ k \in DOMAIN r /\ Take(r, k)
         \/ \E j \in First(r) : Take(r, j)
         \/ SetQueue(r) /\ disp' = NoDispatcher
  BY DEF Claim
<1> HIDE DEF r
<1>7. CASE \E j \in DOMAIN r : Take(r, j)
  BY <1>5, <1>6, <1>7, TakeStep
<1>8. CASE SetQueue(r) /\ disp' = NoDispatcher
  BY <1>5, <1>6, <1>8, KeepsWritable, Idle, DispatcherWrite
<1> QED
  BY <1>3, <1>6, <1>7, <1>8

-----------------------------------------------------------------------------
(* The dispatcher runs a child.                                            *)

LEMMA BeforeStep ==
  ASSUME IInv, Before
  PROVE  IInv' /\ Release
<1> DEFINE s == Target(disp.key)
           required == IsObligation(disp) /\ (disp.owes \/ HasRecord(s))
           proven == IsObligation(disp) /\ IsProjected(disp, s)
           settled == proven /\ (required => IsConverged(disp, s))
           pc == IF settled THEN "after" ELSE "child"
           launch == IF required /\ proven THEN "downstream"
                     ELSE IF required THEN disp.stage ELSE "projection"
<1>1. disp \in BeforeType
  BY DEF Before, IInv, DispatcherOK
<1>2. /\ disp.id > 0 <=> s \in Session
      /\ disp.id > 0 /\ disp.stage = "downstream" => disp.id <= projected[s]
      /\ disp.id \in Nat
  BY <1>1, RetryConstants DEF Before, IInv, DispatcherOK, Proven, BeforeType
<1>3. disp' = [pc |-> pc, recovered |-> TRUE, slots |-> disp.slots, skipped |-> disp.skipped,
               key |-> disp.key, id |-> disp.id, stage |-> disp.stage, heavy |-> disp.heavy,
               required |-> required, launch |-> launch, report |-> "ok"]
  BY DEF Before
<1>4. required \in BOOLEAN
  OBVIOUS
<1>5. pc \in {"child", "after"}
  OBVIOUS
<1>6. launch \in Stage /\ (disp.id > 0 /\ launch = "downstream" => disp.id <= projected[s])
  <2>1. disp.stage \in Stage
    BY <1>1 DEF BeforeType
  <2>2. proven => disp.id <= projected[s]
    BY <1>2 DEF IsProjected
  <2> HIDE DEF required, proven
  <2> QED
    BY <1>2, <2>1, <2>2 DEF Stage
<1> HIDE DEF required, pc, launch, settled
<1>7. disp' \in RunType
  BY <1>1, <1>3, <1>4, <1>5, <1>6 DEF BeforeType, RunType
<1>8. /\ disp'.pc = pc /\ disp'.key = disp.key /\ disp'.id = disp.id
      /\ disp'.stage = disp.stage /\ disp'.launch = launch /\ disp'.report = "ok"
  BY <1>3
<1>9. RunType' = RunType /\ projected' = projected
  BY DEF RunType, Key, Before, sessions
<1>10. DispatcherOK'
  BY <1>2, <1>5, <1>6, <1>7, <1>8, <1>9 DEF DispatcherOK, Proven, Running, Target
<1> QED
  BY <1>10, DispatcherRead DEF Before

\* What is kept of the running dispatcher while its child works.
LEMMA RunFacts ==
  ASSUME IInv, disp.pc \in Running
  PROVE  /\ disp \in RunType
         /\ disp.id \in Nat
         /\ disp.id > 0 <=> Target(disp.key) \in Session
         /\ disp.id > 0 /\ disp.stage = "downstream" => Proven
         /\ disp.id > 0 /\ disp.launch = "downstream" => Proven
<1>1. disp \in RunType
  BY DEF IInv, DispatcherOK
<1>2. disp.id \in Nat
  BY <1>1, RetryConstants DEF RunType
<1> QED
  BY <1>1, <1>2 DEF IInv, DispatcherOK

LEMMA ChildFailsStep ==
  ASSUME IInv, ChildFails
  PROVE  IInv' /\ Release
<1>1. disp.pc \in Running
  BY DEF ChildFails, Running
<1>2. PICK r \in Report : disp' = [disp EXCEPT !.pc = "after", !.report = r]
  BY DEF ChildFails
<1>3. disp' \in RunType
  BY <1>1, <1>2, RunFacts DEF RunType
<1>4. /\ disp'.pc = "after" /\ disp'.key = disp.key /\ disp'.id = disp.id
      /\ disp'.stage = disp.stage /\ disp'.launch = disp.launch /\ disp'.report = r
  BY <1>1, <1>2, RunFacts DEF RunType
<1>5. RunType' = RunType /\ projected' = projected
  BY DEF RunType, Key, ChildFails, sessions
<1>6. r # "handoff"
  BY DEF Report
<1>7. DispatcherOK'
  BY <1>1, <1>3, <1>4, <1>5, <1>6, RunFacts DEF DispatcherOK, Proven, Running, Target
<1> QED
  BY <1>7, DispatcherRead DEF ChildFails

LEMMA ChildWorksStep ==
  ASSUME IInv, ChildWorks
  PROVE  IInv' /\ Release
<1> DEFINE s == Target(disp.key)
<1>1. disp.pc \in Running
  BY DEF ChildWorks, Running
<1>2. disp.id > 0 <=> s \in Session
  BY <1>1, RunFacts
<1>3. /\ capture' = capture /\ readable' = readable
      /\ \/ s \in Session /\ projected' = [projected EXCEPT ![s] = capture[s]]
            /\ converged' = converged
         \/ s \in Session /\ converged' = [converged EXCEPT ![s] = projected[s]]
            /\ projected' = projected
         \/ projected' = projected /\ converged' = converged
  BY <1>2 DEF ChildWorks, IsObligation
<1>4. UNCHANGED <<items, watch, enqueued>> /\ disp' = [disp EXCEPT !.pc = "after"]
  BY DEF ChildWorks
<1>5. SessionsOK' /\ Grows
  <2> HIDE DEF s
  <2> QED
    BY <1>3, <1>4, RetryConstants DEF IInv, SessionsOK, Grows
<1>6. disp.report # "handoff"
  BY DEF ChildWorks, IInv, DispatcherOK
<1>7. disp' \in RunType
  BY <1>1, <1>4, RunFacts DEF RunType
<1>8. /\ disp'.pc = "after" /\ disp'.key = disp.key /\ disp'.id = disp.id
      /\ disp'.stage = disp.stage /\ disp'.launch = disp.launch /\ disp'.report = disp.report
  BY <1>1, <1>4, RunFacts DEF RunType
<1>9. disp.id > 0 /\ disp.id <= projected[s] => disp.id <= projected'[s]
  <2>1. s \in Session => /\ projected[s] \in Nat /\ projected'[s] \in Nat
                         /\ projected[s] <= projected'[s]
    BY <1>5, RetryConstants DEF IInv, SessionsOK, Grows
  <2>2. disp.id \in Nat
    BY <1>1, RunFacts
  <2> QED
    BY <1>2, <2>1, <2>2
<1>10. RunType' = RunType
  BY DEF RunType, Key
<1>11. DispatcherOK'
  BY <1>1, <1>2, <1>6, <1>7, <1>8, <1>9, <1>10, RunFacts DEF DispatcherOK, Proven, Running, Target
<1> QED
  BY <1>4, <1>5, <1>11, QueueWaits, WatchWaits DEF IInv

LEMMA AfterStep ==
  ASSUME IInv, After
  PROVE  IInv' /\ Release
<1> DEFINE s == Target(disp.key)
           proven == IsObligation(disp) /\ IsProjected(disp, s)
           done == IF disp.required THEN proven /\ IsConverged(disp, s) ELSE proven
           report == IF ~IsObligation(disp) THEN disp.report
                     ELSE IF done THEN "ok"
                     ELSE IF disp.required /\ disp.stage = "projection" /\ proven
                          THEN (IF disp.launch = "projection" THEN "handoff" ELSE "progressed")
                     ELSE IF disp.report \in {"ok", "terminal"} THEN "failed" ELSE disp.report
<1>1. disp.pc \in Running /\ disp.report # "handoff"
  BY DEF After, Running, IInv, DispatcherOK
<1>2. disp \in RunType /\ disp.id \in Nat
  BY <1>1, RunFacts
<1>3. disp' = [disp EXCEPT !.pc = "finish", !.report = report]
  BY DEF After
<1>4. disp.report \in Report \union {"ok", "handoff"}
  BY <1>2 DEF RunType
<1>5. report \in Report \union {"ok", "handoff"}
  BY <1>4 DEF Report
<1>6. proven => disp.id <= projected[s]
  BY <1>2 DEF IsProjected
<1>7. proven /\ IsConverged(disp, s) => disp.id <= converged[s]
  BY <1>2 DEF IsProjected, IsConverged
<1>8. disp.id > 0 =>
        /\ report \in {"ok", "handoff"} => disp.id <= projected[s]
        /\ report = "ok" /\ disp.required => disp.id <= converged[s]
  <2> HIDE DEF proven
  <2> QED
    BY <1>1, <1>6, <1>7 DEF IsObligation
<1> HIDE DEF report
<1>9. disp' \in RunType
  BY <1>2, <1>3, <1>5 DEF RunType
<1>10. /\ disp'.pc = "finish" /\ disp'.key = disp.key /\ disp'.id = disp.id
       /\ disp'.stage = disp.stage /\ disp'.launch = disp.launch /\ disp'.report = report
       /\ disp'.required = disp.required
  BY <1>2, <1>3 DEF RunType
<1>11. RunType' = RunType /\ projected' = projected /\ converged' = converged
  BY DEF RunType, Key, After, sessions
<1>12. DispatcherOK'
  BY <1>1, <1>8, <1>9, <1>10, <1>11, RunFacts DEF DispatcherOK, Proven, Running, Target
<1> QED
  BY <1>12, DispatcherRead DEF After

-----------------------------------------------------------------------------
(* The dispatcher settles the item it claimed.                             *)

LEMMA ReassertedFacts ==
  ASSUME IInv, disp.key \in DOMAIN items, Target(disp.key) \in Session
  PROVE  Good(Reasserted) /\ Keeps(items, Reasserted)
<1> DEFINE k == disp.key
           item == Released(items[k])
           plain == [item EXCEPT !.retarget = "none"]
           to == <<item.retarget, Target(k)>>
<1>1. k \in Key /\ items[k] \in AnyItem /\ Fits(items[k], k) /\ Good(items)
  BY DEF IInv, QueueOK, Good, Sound
<1>2. item \in AnyItem /\ item.id = items[k].id /\ item.stage = items[k].stage
  BY <1>1 DEF Released, AnyItem
<1>3. plain \in AnyItem /\ plain.id = items[k].id /\ plain.stage = items[k].stage
  <2> HIDE DEF item, k
  <2> QED
    BY <1>2 DEF AnyItem
<1>4. /\ Reasserted \in {With(items, k, item), With(items, k, plain)}
      \/ /\ item.retarget # "none" /\ to \notin DOMAIN items
         /\ Reasserted = Rekeyed(items, k, to, plain)
  BY DEF Reasserted
<1>5. item.retarget # "none" => item.retarget \in HeavyProfile
  BY <1>2 DEF AnyItem
<1>6. Target(k) \in Session
  OBVIOUS
<1>7. Fits(item, k) /\ Fits(plain, k)
  <2> HIDE DEF item, plain, k
  <2> QED
    BY <1>1, <1>2, <1>3 DEF Fits
<1>8. k \in DOMAIN items
  OBVIOUS
<1> HIDE DEF item, plain, k
<1>9. CASE Reasserted \in {With(items, k, item), With(items, k, plain)}
  BY <1>1, <1>2, <1>3, <1>7, <1>8, <1>9, Replaced
<1>10. CASE /\ item.retarget # "none" /\ to \notin DOMAIN items
            /\ Reasserted = Rekeyed(items, k, to, plain)
  <2>1. to \in Key /\ Target(to) = Target(k)
    BY <1>1, <1>5, <1>6, <1>10, RetargetFacts
  <2> HIDE DEF to
  <2>2. Fits(plain, to)
    BY <1>7, <2>1 DEF Fits
  <2> QED
    BY <1>1, <1>3, <1>6, <1>8, <1>10, <2>1, <2>2, Moved
<1> QED
  BY <1>4, <1>9, <1>10

LEMMA FinishedFacts ==
  ASSUME IInv, disp.pc = "finish", disp.key \in DOMAIN items, ~Overtaken,
         NEW asked \in BOOLEAN, NEW q \in Finished(asked)
  PROVE  Writable(q)
<1> DEFINE k == disp.key
           s == Target(k)
           old == Released(items[k])
           stage == IF disp.report = "handoff" THEN "downstream" ELSE disp.launch
           item == IF disp.required THEN [old EXCEPT !.owes = TRUE, !.stage = stage] ELSE old
           fresh == [item EXCEPT !.attempts = 0, !.wait = "later"]
           later == [item EXCEPT !.wait = "later"]
           again == With(items, k, fresh)
           backoff == With(items, k, later)
           gone == Without(items, k)
           handed == Upsert(gone, <<"deep", s>>)
<1>1. disp.pc \in Running
  BY DEF Running
<1>2. /\ disp \in RunType /\ disp.id \in Nat
      /\ disp.id > 0 <=> s \in Session
      /\ disp.id > 0 /\ disp.launch = "downstream" => disp.id <= projected[s]
  BY <1>1, RunFacts DEF Proven
<1>3. disp.id > 0 =>
        /\ disp.report \in {"ok", "handoff"} => disp.id <= projected[s]
        /\ disp.report = "ok" /\ disp.required => disp.id <= converged[s]
  BY DEF IInv, DispatcherOK, Proven
<1>4. /\ k \in DOMAIN items /\ k \in Key /\ items[k] \in AnyItem /\ Fits(items[k], k)
      /\ Good(items) /\ (s \in Session => items[k].id = enqueued[s])
  BY DEF IInv, QueueOK, Good, Sound
<1>5. items[k].id \in Nat /\ (s \in Session => items[k].id <= disp.id)
  BY <1>2, <1>4, RetryConstants DEF Overtaken, IsObligation, AnyItem
<1>6. s \in Session => /\ projected[s] \in Nat /\ converged[s] \in Nat
                       /\ enqueued[s] \in Nat
  BY RetryConstants DEF IInv, SessionsOK
<1>7. old \in AnyItem /\ old.id = items[k].id /\ old.stage = items[k].stage
  BY <1>4 DEF Released, AnyItem
<1>8. stage \in Stage
  BY <1>2 DEF RunType, Stage
<1>9. /\ item \in AnyItem /\ item.id = items[k].id
      /\ item.stage = IF disp.required THEN stage ELSE items[k].stage
  <2> HIDE DEF old, k, stage
  <2> QED
    BY <1>7, <1>8 DEF AnyItem
<1>10. /\ fresh \in AnyItem /\ fresh.id = item.id /\ fresh.stage = item.stage
       /\ later \in AnyItem /\ later.id = item.id /\ later.stage = item.stage
  <2> HIDE DEF item
  <2> QED
    BY <1>9 DEF AnyItem, Wait
<1>11. s \in Session /\ item.stage = "downstream" => item.id <= projected[s]
  <2>1. SUFFICES ASSUME s \in Session, item.stage = "downstream"
                 PROVE  items[k].id <= projected[s]
    BY <1>9
  <2>2. CASE ~disp.required
    <3> HIDE DEF item
    <3> QED
      BY <1>4, <1>9, <2>1, <2>2 DEF Fits
  <2>3. CASE disp.required
    <3>1. disp.report = "handoff" \/ disp.launch = "downstream"
      <4> HIDE DEF item
      <4> QED
        BY <1>9, <2>1, <2>3
    <3>2. disp.id > 0 /\ disp.id <= projected[s]
      BY <1>2, <1>3, <2>1, <3>1
    <3> QED
      BY <1>2, <1>5, <1>6, <2>1, <3>2
  <2> QED
    BY <2>2, <2>3
<1> HIDE DEF fresh, later
<1>12. Fits(fresh, k) /\ Fits(later, k)
  <2> HIDE DEF item
  <2> QED
    BY <1>4, <1>9, <1>10, <1>11 DEF Fits
<1> HIDE DEF item, old
<1>13. Writable(again) /\ Writable(backoff)
  <2> HIDE DEF k
  <2> QED
    BY <1>4, <1>10, <1>12, Replaced, KeepsWritable
<1>14. ASSUME disp.report = "ok" \/ ~IsObligation(disp)
       PROVE  Writable(gone)
  <2>1. s \in Session => /\ enqueued[s] <= projected[s]
                         /\ disp.required => enqueued[s] <= converged[s]
    BY <1>2, <1>3, <1>4, <1>5, <1>6, <1>14 DEF IsObligation
  <2>2. /\ Good(gone)
        /\ \A t \in Session : t # s /\ Has(items, t) => Has(gone, t)
    BY <1>4, <2>1, Removed
  <2> HIDE DEF gone, s
  <2> QED
    BY <2>1, <2>2 DEF Writable
<1>15. ASSUME k \in HandsOff
       PROVE  Writable(handed)
  <2>1. <<"deep", s>> \in Key /\ Target(<<"deep", s>>) \notin Session /\ s \notin Session
    BY <1>15, KeyFacts
  <2>2. Good(gone) /\ Keeps(items, gone)
    BY <1>4, <2>1, Removed DEF Keeps
  <2> HIDE DEF gone, s
  <2>3. Good(handed) /\ Keeps(gone, handed)
    BY <2>1, <2>2, UpsertOrdinary
  <2> HIDE DEF handed
  <2> QED
    BY <2>2, <2>3, KeepsWritable DEF Keeps
<1>16. \/ q \in {again, backoff}
       \/ q = gone /\ (disp.report = "ok" \/ ~IsObligation(disp))
       \/ q = handed /\ k \in HandsOff
  BY <1>2 DEF Finished, RunType, Report, fresh, later, item, old
<1> HIDE DEF again, backoff, gone, handed
<1> QED
  BY <1>13, <1>14, <1>15, <1>16

LEMMA FinishStep ==
  ASSUME IInv, Finish
  PROVE  IInv' /\ Release
<1>1. disp.pc \in Running /\ disp.pc = "finish"
  BY DEF Finish, Running
<1>2. disp \in RunType /\ (disp.id > 0 <=> Target(disp.key) \in Session)
  BY <1>1, RunFacts
<1>3. disp' \in ClaimType
  BY <1>2 DEF Finish, RunType, ClaimType
<1>4. PICK q \in (IF disp.key \notin DOMAIN items THEN {items}
                  ELSE IF Overtaken THEN {Reasserted}
                  ELSE UNION {Finished(asked) : asked \in
                         IF items[disp.key].flight THEN {items[disp.key].again} ELSE BOOLEAN}) :
             SetQueue(q)
  BY DEF Finish
<1>5. Writable(q)
  <2>1. CASE disp.key \notin DOMAIN items
    BY <1>4, <2>1, KeepsWritable DEF Keeps, IInv, QueueOK
  <2>2. CASE disp.key \in DOMAIN items /\ Overtaken
    BY <1>2, <1>4, <2>2, ReassertedFacts, KeepsWritable DEF Overtaken, IsObligation
  <2>3. CASE disp.key \in DOMAIN items /\ ~Overtaken
    <3>1. items[disp.key].again \in BOOLEAN
      BY <2>3 DEF IInv, QueueOK, Good, Sound, AnyItem
    <3>2. PICK asked \in BOOLEAN : q \in Finished(asked)
      BY <1>4, <2>3, <3>1
    <3> QED
      BY <1>1, <2>3, <3>2, FinishedFacts
  <2> QED
    BY <2>1, <2>2, <2>3
<1> QED
  BY <1>3, <1>4, <1>5, Idle, DispatcherWrite DEF Finish

-----------------------------------------------------------------------------
(* Every step, and every behaviour.                                        *)

LEMMA InitOK == Init => IInv
<1> SUFFICES ASSUME Init PROVE IInv
  OBVIOUS
<1>1. DOMAIN items = {} /\ items \in [{} -> AnyItem]
  BY DEF Init
<1>2. QueueOK
  BY <1>1, RetryConstants DEF Init, QueueOK, Good, Sound
<1>3. SessionsOK
  BY RetryConstants DEF Init, SessionsOK
<1>4. WatchOK
  BY DEF Init, WatchOK
<1>5. DispatcherOK
  BY DEF Init, DispatcherOK, NoDispatcher, Running
<1> QED
  BY <1>2, <1>3, <1>4, <1>5 DEF IInv

LEMMA StepOK == IInv /\ Next => IInv' /\ Release
<1> SUFFICES ASSUME IInv, Next PROVE IInv' /\ Release
  OBVIOUS
<1>1. CASE World
  BY <1>1, WorldSteps, PreflightStep, EnqueueStep, WatchCrashStep, ElapseStep DEF World
<1>2. CASE Launches
  BY <1>2, LaunchSteps, LaunchSucceedsStep DEF Launches
<1>3. CASE Dispatcher
  BY <1>3, StartAndCrash, ClaimNoneStep, RefuseStep, ClaimStep, BeforeStep, ChildWorksStep,
     ChildFailsStep, AfterStep, FinishStep DEF Dispatcher
<1>4. CASE DispatcherCrash
  BY <1>4, StartAndCrash
<1> QED
  BY <1>1, <1>2, <1>3, <1>4 DEF Next

LEMMA StutterOK == IInv /\ UNCHANGED vars => IInv' /\ Release
<1> SUFFICES ASSUME IInv, UNCHANGED vars PROVE IInv' /\ Release
  OBVIOUS
<1>1. UNCHANGED <<items, sessions, watch, disp, enqueued>>
  BY DEF vars
<1> QED
  BY <1>1, StaticStep, SessionStep

\* The inductive invariant: the queue, the sessions, the watch and the
\* dispatcher fit together as Good, SessionsOK, WatchOK and DispatcherOK say.
THEOREM Invariant == Spec => []IInv
<1>1. IInv /\ [Next]_vars => IInv'
  BY StepOK, StutterOK
<1> QED
  BY <1>1, InitOK, PTL DEF Spec

LEMMA KeptFacts == IInv => ObligationKept /\ StageIsProven
<1> SUFFICES ASSUME IInv, NEW s \in Session
             PROVE  /\ Cardinality(Obligations(items, s)) <= 1
                    /\ \/ projected[s] >= enqueued[s]
                       \/ \E k \in Obligations(items, s) : items[k].id = enqueued[s]
                    /\ \A k \in Obligations(items, s) :
                         items[k].stage = "downstream" => projected[s] >= items[k].id
  BY DEF ObligationKept, StageIsProven
<1>1. Good(items)
  BY DEF IInv, QueueOK
<1>2. Obligations(items, s) = {k \in DOMAIN items : Target(k) = s}
  BY <1>1, ObligationFacts
<1>3. \A k \in Obligations(items, s) :
        /\ items[k].id = enqueued[s]
        /\ items[k].stage = "downstream" => projected[s] >= items[k].id
  <2>1. \A k \in DOMAIN items : Fits(items[k], k) /\ items[k].id \in Nat
    BY <1>1, RetryConstants DEF Good, Sound, AnyItem
  <2>2. projected[s] \in Nat
    BY RetryConstants DEF IInv, SessionsOK
  <2> QED
    BY <1>2, <2>1, <2>2 DEF IInv, QueueOK, Fits
<1>4. enqueued[s] \in Nat /\ projected[s] \in Nat
  BY RetryConstants DEF IInv, SessionsOK
<1>5. CASE Obligations(items, s) = {}
  <2>1. Cardinality(Obligations(items, s)) = 0
    BY <1>5, FS_EmptySet
  <2>2. ~Has(items, s)
    BY <1>1, <1>5, ObligationFacts
  <2> QED
    BY <1>1, <1>3, <1>4, <2>1, <2>2 DEF Good
<1>6. CASE Obligations(items, s) # {}
  <2>1. PICK k \in Obligations(items, s) : TRUE
    BY <1>6
  <2>2. Obligations(items, s) = {k}
    BY <1>1, <2>1, ObligationFacts
  <2>3. Cardinality(Obligations(items, s)) = 1
    BY <2>2, FS_Singleton
  <2> QED
    BY <1>3, <2>1, <2>3
<1> QED
  BY <1>5, <1>6

\* An obligation outlives refusals, failures, changes of profile and crashes
\* until its newest capture is projected, and is never queued twice.
THEOREM ObligationSurvives == Spec => []ObligationKept
BY Invariant, KeptFacts, PTL

\* No obligation waits for the consumers of a projection that does not exist.
THEOREM DownstreamIsProven == Spec => []StageIsProven
BY Invariant, KeptFacts, PTL

\* An obligation that owes the retirement of its record is only released when
\* its capture has converged, whichever launch or dispatcher ends it.
THEOREM ReleaseConverges == Spec => ReleaseIsConverged
<1> DEFINE Step == \A s \in Session : \A k \in Obligations(items, s) :
                      Obligations(items', s) = {} =>
                          \/ converged[s] >= items[k].id
                          \/ disp.pc = "finish" /\ ~disp.required
<1>1. ASSUME IInv, IInv', Release PROVE Step
  <2> SUFFICES ASSUME NEW s \in Session, NEW k \in Obligations(items, s),
                      Obligations(items', s) = {}
               PROVE  \/ converged[s] >= items[k].id
                      \/ disp.pc = "finish" /\ ~disp.required
    OBVIOUS
  <2>1. Good(items) /\ Has(items, s)
    BY <1>1, ObligationFacts DEF IInv, QueueOK
  <2>2. \A t \in Session : t = s => ~Has(items', t)
    BY <1>1 DEF IInv, QueueOK, Good, Sound, Fits, Has, Obligations, IsObligation, Target
  <2>3. items[k].id = enqueued[s] /\ enqueued[s] \in Nat /\ converged[s] \in Nat
    BY <1>1, <2>1, RetryConstants, ObligationFacts DEF IInv, QueueOK, SessionsOK
  <2> QED
    BY <1>1, <2>1, <2>2, <2>3 DEF Release
<1>2. IInv /\ IInv' /\ [Next]_vars => [Step]_vars
  BY <1>1, StepOK
<1> HIDE DEF Step
<1>3. Spec => [][Step]_vars
  BY <1>2, Invariant, PTL DEF Spec
<1> QED
  BY <1>3 DEF ReleaseIsConverged, Step

-----------------------------------------------------------------------------
(* How often an item can have been attempted in its cycle.  Each attempt   *)
(* that a dispatcher settles leaves fewer than MaxAttempts of them, unless *)
(* the item was bound to a newer capture meanwhile; each that a crash cuts *)
(* off counts one fault.  An item that is not being attempted is below the *)
(* bound, so that the next attempt cannot exceed it.                       *)

Busy == {"before"} \union Running

Calm(item) == item.attempts < MaxAttempts + item.id + faults

\* The attempt on the item k is running.
Claimed(item, k) ==
    /\ item.flight
    /\ disp.pc \in Busy
    /\ disp.key = k
    /\ disp.id <= item.id
    /\ item.attempts <= MaxAttempts + disp.id + faults

Spent(q) == \A k \in DOMAIN q : Calm(q[k]) \/ Claimed(q[k], k)
AllCalm(q) == \A k \in DOMAIN q : Calm(q[k])

Faults == faults \in 0..MaxFaults

LEMMA IdleSpent ==
  ASSUME disp.pc \notin Busy, NEW q
  PROVE  Spent(q) <=> AllCalm(q)
BY DEF Spent, AllCalm, Claimed

LEMMA CalmSpent ==
  ASSUME NEW q, AllCalm(q)
  PROVE  Spent(q)
BY DEF Spent, AllCalm

LEMMA WithSpent ==
  ASSUME NEW q, NEW k, NEW item
  PROVE  /\ Spent(q) /\ (Calm(item) \/ Claimed(item, k)) => Spent(With(q, k, item))
         /\ AllCalm(q) /\ Calm(item) => AllCalm(With(q, k, item))
<1> DEFINE r == With(q, k, item)
<1>1. DOMAIN r = DOMAIN q \union {k} /\ \A j \in DOMAIN r : r[j] = IF j = k THEN item ELSE q[j]
  BY DEF With
<1> HIDE DEF r
<1>2. /\ Spent(q) /\ (Calm(item) \/ Claimed(item, k)) => Spent(r)
      /\ AllCalm(q) /\ Calm(item) => AllCalm(r)
  BY <1>1 DEF Spent, AllCalm
<1> QED
  BY <1>2 DEF r

LEMMA WithoutSpent ==
  ASSUME NEW q, NEW k
  PROVE  /\ Spent(q) => Spent(Without(q, k))
         /\ AllCalm(q) => AllCalm(Without(q, k))
<1> DEFINE r == Without(q, k)
<1>1. DOMAIN r = DOMAIN q \ {k} /\ \A j \in DOMAIN r : r[j] = q[j]
  BY DEF Without
<1> HIDE DEF r
<1>2. (Spent(q) => Spent(r)) /\ (AllCalm(q) => AllCalm(r))
  BY <1>1 DEF Spent, AllCalm
<1> QED
  BY <1>2 DEF r

\* Whatever keeps the count, the claim and the capture, or takes a newer one.
LEMMA Kept ==
  ASSUME Faults, disp.pc \in Busy => disp.id \in Nat, NEW k,
         NEW old \in AnyItem, NEW item \in AnyItem,
         item.attempts = old.attempts, old.id <= item.id
  PROVE  /\ Calm(old) => Calm(item)
         /\ item.flight = old.flight /\ Claimed(old, k) => Claimed(item, k)
<1>1. /\ old.attempts \in Nat /\ old.id \in Nat /\ item.id \in Nat /\ faults \in Nat
      /\ MaxAttempts \in Nat
  BY RetryConstants DEF AnyItem, Faults
<1>2. Calm(old) => Calm(item)
  BY <1>1 DEF Calm
<1>3. item.flight = old.flight /\ Claimed(old, k) => Claimed(item, k)
  BY <1>1 DEF Claimed
<1> QED
  BY <1>2, <1>3

LEMMA UpsertSpent ==
  ASSUME IInv, Faults, NEW q, NEW k, q \in [DOMAIN q -> AnyItem]
  PROVE  /\ Spent(q) => Spent(Upsert(q, k))
         /\ AllCalm(q) => AllCalm(Upsert(q, k))
<1> DEFINE old == Item(q, k)
           item == [old EXCEPT !.again = @ \/ old.flight]
<1>1. disp.pc \in Busy => disp.id \in Nat
  BY DispatcherTypes, RetryConstants DEF IInv, Busy
<1>2. old \in AnyItem /\ (Spent(q) => Calm(old) \/ Claimed(old, k)) /\ (AllCalm(q) => Calm(old))
  <2>1. CASE k \in DOMAIN q
    BY <2>1 DEF Item, Spent, AllCalm
  <2>2. CASE k \notin DOMAIN q
    <3>1. Calm(New)
      BY RetryConstants DEF New, Calm, Faults
    <3> QED
      BY <2>2, <3>1, NewItem DEF Item
  <2> QED
    BY <2>1, <2>2
<1> HIDE DEF old
<1>3. /\ item \in AnyItem /\ item.attempts = old.attempts /\ item.id = old.id
      /\ item.flight = old.flight /\ old.id <= old.id
  BY <1>2, RetryConstants DEF AnyItem
<1>4. Upsert(q, k) = With(q, k, item)
  BY DEF Upsert, old
<1> HIDE DEF item
<1>5. (Calm(old) => Calm(item)) /\ (Claimed(old, k) => Claimed(item, k))
  BY <1>1, <1>2, <1>3, Kept
<1> QED
  BY <1>2, <1>4, <1>5, WithSpent

LEMMA BindSpent ==
  ASSUME SessionsOK, NEW s \in Session, NEW item \in AnyItem, NEW current \in BOOLEAN
  PROVE  /\ Bind(item, s, current) \in AnyItem
         /\ Bind(item, s, current).attempts = item.attempts
         /\ Bind(item, s, current).flight = item.flight
         /\ item.id <= Bind(item, s, current).id
<1> DEFINE bound == Bind(item, s, current)
<1>1. item.id \in Nat /\ capture[s] \in 0..MaxCapture
  BY RetryConstants DEF SessionsOK, AnyItem
<1>2. CASE capture[s] > item.id
  <2>1. bound = [item EXCEPT !.id = capture[s], !.stage = "projection", !.owes = TRUE,
                             !.current = @ \/ current]
    BY <1>2 DEF Bind
  <2>2. /\ bound \in AnyItem /\ bound.id = capture[s]
        /\ bound.attempts = item.attempts /\ bound.flight = item.flight
    BY <1>1, <2>1 DEF AnyItem, Stage
  <2> HIDE DEF bound
  <2> QED
    BY <1>1, <1>2, <2>2, RetryConstants DEF bound
<1>3. CASE ~(capture[s] > item.id)
  <2>1. bound = [item EXCEPT !.current = @ \/ current]
    BY <1>3 DEF Bind
  <2>2. /\ bound \in AnyItem /\ bound.id = item.id
        /\ bound.attempts = item.attempts /\ bound.flight = item.flight
    BY <1>1, <2>1 DEF AnyItem
  <2> HIDE DEF bound
  <2> QED
    BY <1>1, <2>2 DEF bound
<1> QED
  BY <1>2, <1>3

\* A claimed item is bound where it is; others may be moved.
LEMMA ReconcileSpent ==
  ASSUME IInv, Faults, NEW q, Good(q), NEW s \in Session, NEW current \in BOOLEAN
  PROVE  /\ Spent(q) => Spent(Reconcile(q, s, current).queue)
         /\ AllCalm(q) => AllCalm(Reconcile(q, s, current).queue)
<1> DEFINE k == CHOOSE j \in Obligations(q, s) : TRUE
           to == <<Desired(s), s>>
           bound == Bind(q[k], s, current)
           moving == [bound EXCEPT !.retarget = Desired(s)]
           r == Reconcile(q, s, current).queue
<1> SUFFICES (Spent(q) => Spent(r)) /\ (AllCalm(q) => AllCalm(r))
  OBVIOUS
<1>0. disp.pc \in Busy => disp.id \in Nat
  BY DispatcherTypes, RetryConstants DEF IInv, Busy
<1>1. CASE s \notin readable \/ Cardinality(Obligations(q, s)) # 1
  <2>1. r = q
    BY <1>1 DEF Reconcile
  <2> QED
    BY <2>1
<1>2. CASE s \in readable /\ Cardinality(Obligations(q, s)) = 1
  <2>1. k \in Obligations(q, s)
    BY <1>2, FS_EmptySet
  <2>2. k \in DOMAIN q /\ q[k] \in AnyItem
    BY <2>1, ObligationFacts DEF Good, Sound
  <2>3. /\ bound \in AnyItem /\ bound.attempts = q[k].attempts
        /\ bound.flight = q[k].flight /\ q[k].id <= bound.id
    <3> HIDE DEF k
    <3> QED
      BY <2>2, BindSpent DEF IInv
  <2>4. /\ moving \in AnyItem /\ moving.attempts = q[k].attempts
        /\ moving.flight = q[k].flight /\ q[k].id <= moving.id
    <3> HIDE DEF bound, k
    <3> QED
      BY <2>3 DEF AnyItem, Desired, HeavyProfile
  <2>5. /\ Calm(q[k]) => Calm(bound) /\ Calm(moving)
        /\ Claimed(q[k], k) => Claimed(bound, k) /\ Claimed(moving, k)
    <3> HIDE DEF bound, moving, k
    <3> QED
      BY <1>0, <2>2, <2>3, <2>4, Kept
  <2>6. CASE k = to
    <3>1. r = With(q, k, bound)
      BY <1>2, <2>6 DEF Reconcile
    <3> HIDE DEF k, bound, r, moving
    <3> QED
      BY <2>2, <2>5, <3>1, WithSpent DEF Spent, AllCalm
  <2>7. CASE k # to /\ q[k].flight
    <3>1. r = With(q, k, moving)
      BY <1>2, <2>7 DEF Reconcile
    <3> HIDE DEF k, bound, moving, r
    <3> QED
      BY <2>2, <2>5, <3>1, WithSpent DEF Spent, AllCalm
  <2>8. CASE k # to /\ ~q[k].flight /\ to \in DOMAIN q
    <3>1. r = q
      BY <1>2, <2>8 DEF Reconcile
    <3> QED
      BY <3>1
  <2>9. CASE k # to /\ ~q[k].flight /\ to \notin DOMAIN q
    <3>1. r = With(Without(q, k), to, bound)
      BY <1>2, <2>9 DEF Reconcile, Rekeyed
    <3>2. (Spent(q) => Calm(q[k])) /\ (AllCalm(q) => Calm(q[k]))
      <4> HIDE DEF k
      <4> QED
        BY <2>2, <2>9 DEF Spent, AllCalm, Claimed
    <3> HIDE DEF k, bound, to, r, moving
    <3> QED
      BY <2>5, <3>1, <3>2, WithSpent, WithoutSpent
  <2> QED
    BY <2>6, <2>7, <2>8, <2>9
<1> QED
  BY <1>1, <1>2

LEMMA BegunCalm ==
  ASSUME NEW q, q \in [DOMAIN q -> AnyItem], AllCalm(q)
  PROVE  AllCalm(Begun(q))
<1> DEFINE r == Recovered(q)
<1>1. DOMAIN r = DOMAIN q
  BY DEF Recovered
<1>2. ASSUME NEW k \in DOMAIN q
      PROVE  r[k].attempts = q[k].attempts /\ r[k].id = q[k].id
  <2>1. q[k] \in AnyItem
    OBVIOUS
  <2>2. CASE q[k].flight
    <3>1. r[k] = [q[k] EXCEPT !.flight = FALSE, !.again = FALSE,
                              !.wait = IF q[k].wait = "later" THEN "due" ELSE q[k].wait]
      BY <2>2 DEF Recovered
    <3> QED
      BY <2>1, <3>1 DEF AnyItem
  <2>3. CASE ~q[k].flight
    BY <2>3 DEF Recovered
  <2> QED
    BY <2>2, <2>3
<1> HIDE DEF r
<1>3. AllCalm(r)
  BY <1>1, <1>2 DEF AllCalm, Calm
<1> QED
  BY <1>3 DEF Begun, r


\* Counts are in order, and the two variables that IInv leaves open are typed.
XInv ==
    /\ Spent(items)
    /\ readable \subseteq Session
    /\ Faults

\* A write of the queue while the dispatcher does not move.
LEMMA SpentWrite ==
  ASSUME NEW q, Spent(q), items' = q, UNCHANGED <<disp, faults>>
  PROVE  Spent(items)'
BY DEF Spent, Calm, Claimed, Busy, Running

\* A write of the queue by a dispatcher that is attempting nothing then.
LEMMA CalmWrite ==
  ASSUME NEW q, AllCalm(q), items' = q, UNCHANGED faults
  PROVE  Spent(items)'
BY DEF AllCalm, Spent, Calm

\* The dispatcher goes on with its attempt.
LEMMA AttemptGoesOn ==
  ASSUME Spent(items), UNCHANGED <<items, faults>>,
         disp'.pc \in Busy, disp'.key = disp.key, disp'.id = disp.id
  PROVE  Spent(items)'
<1>1. \A k : Claimed(items[k], k) => Claimed(items[k], k)'
  BY DEF Claimed, Busy, Running
<1> QED
  BY <1>1 DEF Spent, Calm

\* A fault makes up for the attempt it may have cut off.
LEMMA FaultSpent ==
  ASSUME IInv, XInv, UNCHANGED items, faults < MaxFaults, faults' = faults + 1,
         disp' = disp \/ disp' = NoDispatcher
  PROVE  Spent(items)' /\ Faults'
<1>1. faults \in Nat /\ MaxFaults \in Nat /\ MaxAttempts \in Nat
  BY RetryConstants DEF XInv, Faults
<1>2. Faults'
  BY <1>1 DEF Faults
<1>3. ASSUME NEW k \in DOMAIN items
      PROVE  Calm(items[k])'
  <2>1. items[k].attempts \in Nat /\ items[k].id \in Nat
    BY RetryConstants DEF IInv, QueueOK, Good, Sound, AnyItem
  <2>2. CASE Calm(items[k])
    BY <1>1, <2>1, <2>2 DEF Calm
  <2>3. CASE Claimed(items[k], k)
    <3>1. disp.id \in Nat
      BY <2>3, DispatcherTypes, RetryConstants DEF IInv, Busy, Claimed
    <3> QED
      BY <1>1, <2>1, <2>3, <3>1 DEF Calm, Claimed
  <2> QED
    BY <2>2, <2>3 DEF XInv, Spent
<1> QED
  BY <1>2, <1>3 DEF Spent

LEMMA WorldSpent ==
  ASSUME IInv, XInv,
         \/ WatchCrash
         \/ \E s \in Session : \/ Capture(s) \/ BecomeUnreadable(s) \/ Repair(s) \/ Preflight(s)
                               \/ SyncElsewhere(s) \/ ConvergeElsewhere(s)
  PROVE  XInv'
<1>1. CASE WatchCrash \/ \E s \in Session : BecomeUnreadable(s)
  <2>1. Spent(items)' /\ Faults'
    BY <1>1, FaultSpent DEF BecomeUnreadable, WatchCrash
  <2>2. readable' \subseteq Session
    BY <1>1 DEF BecomeUnreadable, WatchCrash, sessions, XInv
  <2> QED
    BY <2>1, <2>2 DEF XInv
<1>2. CASE \E s \in Session : \/ Capture(s) \/ Repair(s) \/ Preflight(s)
                             \/ SyncElsewhere(s) \/ ConvergeElsewhere(s)
  <2>1. UNCHANGED <<items, disp, faults>> /\ readable' \subseteq Session
    BY <1>2 DEF Capture, Repair, Preflight, SyncElsewhere, ConvergeElsewhere, sessions, XInv
  <2>2. Spent(items)'
    BY <2>1, SpentWrite DEF XInv
  <2> QED
    BY <2>1, <2>2 DEF XInv, Faults
<1> QED
  BY <1>1, <1>2

LEMMA ElapseSpent ==
  ASSUME IInv, XInv, NEW k \in Key, Elapse(k)
  PROVE  XInv'
<1>1. PICK w \in Wait : items' = [items EXCEPT ![k].wait = w]
  BY DEF Elapse, Wait
<1>2. /\ k \in DOMAIN items /\ items \in [DOMAIN items -> AnyItem]
      /\ UNCHANGED <<readable, disp, faults>>
  BY DEF Elapse, sessions, IInv, QueueOK, Good, Sound
<1>3. ASSUME NEW j \in DOMAIN items
      PROVE  /\ items'[j].attempts = items[j].attempts
             /\ items'[j].id = items[j].id
             /\ items'[j].flight = items[j].flight
  <2>1. items'[j] = IF j = k THEN [items[j] EXCEPT !.wait = w] ELSE items[j]
    BY <1>1, <1>2
  <2>2. items[j] \in AnyItem
    BY <1>2
  <2> QED
    BY <2>1, <2>2 DEF AnyItem
<1>4. DOMAIN items' = DOMAIN items
  BY <1>1, <1>2
<1>5. Spent(items)'
  BY <1>2, <1>3, <1>4 DEF XInv, Spent, Calm, Claimed, Busy, Running
<1> QED
  BY <1>2, <1>5 DEF XInv, Faults

LEMMA EnqueueSpent ==
  ASSUME IInv, XInv, Enqueue
  PROVE  XInv'
<1> DEFINE s == watch.session
           k == <<Desired(s), s>>
           q == Upsert(items, k)
           item == [q[k] EXCEPT !.id = capture[s], !.current = watch.current]
<1>1. s \in Session /\ watch.current \in BOOLEAN
  BY DEF Enqueue, IInv, WatchOK
<1>2. Good(items) /\ SessionsOK /\ items \in [DOMAIN items -> AnyItem]
  BY DEF IInv, QueueOK, Good, Sound
<1>3. Spent(Enqueued(s))
  <2>1. CASE Obligations(items, s) # {}
    <3>1. Enqueued(s) = Reconcile(items, s, watch.current).queue
      BY <2>1 DEF Enqueued
    <3> QED
      BY <1>1, <1>2, <3>1, ReconcileSpent DEF XInv
  <2>2. CASE Obligations(items, s) = {} /\ (s \notin readable \/ Suppressed(s))
    BY <2>2 DEF Enqueued, XInv
  <2>3. CASE Obligations(items, s) = {} /\ ~(s \notin readable \/ Suppressed(s))
    <3>1. Enqueued(s) = With(q, k, item)
      BY <2>3 DEF Enqueued
    <3>2. Spent(q)
      BY <1>2, UpsertSpent DEF XInv
    <3>3. k \notin DOMAIN items
      BY <1>1, <1>2, <2>3, KeyFacts, ObligationFacts DEF Has
    <3>4. q[k] = [New EXCEPT !.again = New.again \/ New.flight]
      BY <3>3 DEF Upsert, With, Item
    <3>5. item.attempts = 0 /\ item.id = capture[s]
      <4> HIDE DEF q, k
      <4> QED
        BY <3>4 DEF New
    <3>6. capture[s] \in Nat
      BY <1>1, <1>2, RetryConstants DEF SessionsOK
    <3> HIDE DEF item, q, k
    <3>7. Calm(item)
      BY <3>5, <3>6, RetryConstants DEF Calm, XInv, Faults
    <3> QED
      BY <3>1, <3>2, <3>7, WithSpent
  <2> QED
    BY <2>1, <2>2, <2>3
<1>4. items' = Enqueued(s) /\ UNCHANGED <<readable, disp, faults>>
  BY DEF Enqueue, SetQueue, sessions
<1> HIDE DEF s
<1> QED
  BY <1>3, <1>4, SpentWrite DEF XInv, Faults

LEMMA LaunchesSpent ==
  ASSUME IInv, XInv, NEW k \in Key,
         LaunchRefused(k) \/ LaunchFindsCircuitOpen(k) \/ LaunchSucceeds(k) \/ LaunchHandsOff(k)
  PROVE  XInv'
<1>1. /\ Spent(items) /\ items \in [DOMAIN items -> AnyItem] /\ Faults
      /\ disp.pc \in Busy => disp.id \in Nat
  BY DispatcherTypes, RetryConstants DEF XInv, IInv, QueueOK, Good, Sound, Busy
<1>2. Spent(Without(items, k)) /\ Spent(Upsert(items, k))
  BY <1>1, UpsertSpent, WithoutSpent
<1>3. Spent(Upsert(Without(items, k), <<"deep", Target(k)>>))
  <2>1. Without(items, k) \in [DOMAIN Without(items, k) -> AnyItem]
    BY <1>1 DEF Without
  <2> HIDE DEF Without
  <2> QED
    BY <1>1, <1>2, <2>1, UpsertSpent
<1>4. ASSUME LaunchSucceeds(k)
      PROVE  Spent(Cleared(k))
  <2> DEFINE item == items[k]
             done == [item EXCEPT !.owes = TRUE, !.stage = "downstream"]
  <2>1. Cleared(k) \in {items, With(items, k, done), Without(items, k)}
    BY DEF Cleared
  <2>2. item \in AnyItem /\ (Calm(item) \/ Claimed(item, k))
    BY <1>1, <1>4 DEF LaunchSucceeds, Spent
  <2>3. /\ done \in AnyItem /\ done.attempts = item.attempts /\ done.id = item.id
        /\ done.flight = item.flight /\ item.id <= item.id
    <3>1. /\ done \in AnyItem /\ done.attempts = item.attempts /\ done.id = item.id
          /\ done.flight = item.flight
      BY <2>2 DEF AnyItem, Stage
    <3>2. item.id \in Nat
      BY <2>2, RetryConstants DEF AnyItem
    <3> QED
      BY <3>1, <3>2
  <2> HIDE DEF done, item
  <2>4. Calm(done) \/ Claimed(done, k)
    BY <1>1, <2>2, <2>3, Kept
  <2> QED
    BY <1>1, <1>2, <2>1, <2>4, WithSpent
<1>5. PICK q : Spent(q) /\ items' = q
  BY <1>2, <1>3, <1>4 DEF LaunchRefused, LaunchFindsCircuitOpen, LaunchSucceeds, LaunchHandsOff,
                          SetQueue
<1>6. UNCHANGED <<readable, disp, faults>>
  BY DEF LaunchRefused, LaunchFindsCircuitOpen, LaunchSucceeds, LaunchHandsOff, sessions
<1> QED
  BY <1>5, <1>6, SpentWrite DEF XInv, Faults


\* The item that a dispatcher settles, and those it does not.
LEMMA SettledCalm ==
  ASSUME NEW q, NEW k, NEW to, NEW item, \A j \in DOMAIN q : j # k => Calm(q[j])
  PROVE  /\ AllCalm(Without(q, k))
         /\ Calm(item) => AllCalm(With(q, k, item)) /\ AllCalm(Rekeyed(q, k, to, item))
<1>1. AllCalm(Without(q, k))
  BY DEF AllCalm, Without
<1>2. Calm(item) => AllCalm(With(q, k, item))
  BY DEF AllCalm, With
<1>3. Calm(item) => AllCalm(Rekeyed(q, k, to, item))
  <2> DEFINE r == Without(q, k)
  <2> HIDE DEF r
  <2>1. Calm(item) /\ AllCalm(r) => AllCalm(With(r, to, item))
    BY WithSpent
  <2> QED
    BY <1>1, <2>1 DEF Rekeyed, r
<1> QED
  BY <1>1, <1>2, <1>3

\* Claims that a dead dispatcher left behind are attempts that a fault paid for.
LEMMA ClaimsSpent ==
  ASSUME IInv, XInv, ClaimNone \/ \E k \in Key : Refuse(k)
  PROVE  XInv'
<1>1. disp.pc \notin Busy /\ items \in [DOMAIN items -> AnyItem]
  BY DEF ClaimNone, Refuse, Busy, Running, IInv, QueueOK, Good, Sound
<1>2. AllCalm(items) /\ AllCalm(Begun(items))
  BY <1>1, IdleSpent, BegunCalm DEF XInv
<1>3. items' \in {items, Begun(items)} /\ UNCHANGED <<readable, faults>>
  BY DEF ClaimNone, Refuse, SetQueue, sessions
<1> QED
  BY <1>2, <1>3, CalmWrite DEF XInv, Faults

LEMMA TakeSpent ==
  ASSUME XInv, NEW r, Good(r), AllCalm(r), NEW j \in DOMAIN r, Take(r, j),
         UNCHANGED <<readable, faults>>
  PROVE  XInv'
<1> DEFINE old == r[j]
           n == old.attempts + 1
           owes == old.owes \/ (IsObligation(old) /\ HasRecord(Target(j)))
           item == [old EXCEPT !.flight = TRUE, !.attempts = n, !.again = FALSE, !.owes = owes]
<1>1. /\ items' = With(r, j, item) /\ disp'.pc = "before"
      /\ disp'.key = j /\ disp'.id = item.id
  BY DEF Take, SetQueue
<1>2. old \in AnyItem
  BY DEF Good, Sound
<1>3. item.flight = TRUE /\ item.attempts = n /\ item.id = old.id
  <2> HIDE DEF old, n, owes
  <2> QED
    BY <1>2 DEF AnyItem
<1>4. old.attempts \in Nat /\ old.id \in Nat /\ faults \in Nat /\ MaxAttempts \in Nat
  BY <1>2, RetryConstants DEF AnyItem, XInv, Faults
<1>5. Claimed(items[j], j)'
  <2>1. old.attempts < MaxAttempts + old.id + faults
    BY DEF AllCalm, Calm
  <2> HIDE DEF item, old, owes
  <2>2. item.attempts <= MaxAttempts + item.id + faults
    BY <1>3, <1>4, <2>1
  <2>3. item.id <= item.id
    BY <1>3, <1>4
  <2>4. items'[j] = item
    BY <1>1 DEF With
  <2> QED
    BY <1>1, <1>3, <2>2, <2>3, <2>4 DEF Claimed, Busy
<1>6. ASSUME NEW i \in DOMAIN items', i # j
      PROVE  Calm(items[i])'
  <2>1. i \in DOMAIN r /\ items'[i] = r[i]
    BY <1>1, <1>6 DEF With
  <2> QED
    BY <2>1 DEF AllCalm, Calm
<1> QED
  BY <1>5, <1>6 DEF XInv, Spent, Faults

LEMMA ClaimSpent ==
  ASSUME IInv, XInv, NEW k \in Key, Claim(k)
  PROVE  XInv'
<1> DEFINE q == Begun(items)
           admitted == Reconcile(q, Target(k), q[k].current)
           r == IF IsObligation(q[k]) THEN admitted.queue ELSE q
<1>1. disp.pc \notin Busy /\ Good(items) /\ items \in [DOMAIN items -> AnyItem] /\ SessionsOK
  BY DEF Claim, Busy, Running, IInv, QueueOK, Good, Sound
<1>2. AllCalm(q) /\ Good(q)
  BY <1>1, IdleSpent, BegunCalm, BegunFacts DEF XInv
<1>3. \A p, j : j \in First(p) => j \in DOMAIN p
  BY DEF First, CurrentRows, AgedHeavy, Due
<1>4. k \in DOMAIN q
  BY <1>3 DEF Claim
<1>5. AllCalm(r) /\ Good(r)
  <2>1. CASE IsObligation(q[k])
    <3>1. Target(k) \in Session /\ q[k].current \in BOOLEAN
      BY <1>2, <1>4, <2>1 DEF Good, Sound, Fits, IsObligation, AnyItem
    <3>2. AllCalm(admitted.queue) /\ Good(admitted.queue)
      <4> HIDE DEF q
      <4> QED
        BY <1>1, <1>2, <3>1, ReconcileSpent, ReconcileFacts DEF XInv
    <3> HIDE DEF admitted, q
    <3> QED
      BY <2>1, <3>2
  <2>2. CASE ~IsObligation(q[k])
    BY <1>2, <2>2
  <2> QED
    BY <2>1, <2>2
<1>6. /\ UNCHANGED <<readable, faults>>
      /\ \/ k \in DOMAIN r /\ Take(r, k)
         \/ \E j \in First(r) : Take(r, j)
         \/ items' = r
  BY DEF Claim, SetQueue, sessions
<1> HIDE DEF r
<1>7. CASE \E j \in DOMAIN r : Take(r, j)
  BY <1>5, <1>6, <1>7, TakeSpent
<1>8. CASE items' = r
  BY <1>5, <1>6, <1>8, CalmWrite DEF XInv, Faults
<1> QED
  BY <1>3, <1>6, <1>7, <1>8

LEMMA AttemptSpent ==
  ASSUME IInv, XInv, Before \/ ChildWorks \/ ChildFails \/ After
  PROVE  XInv'
<1>1. disp.pc \in {"before", "child", "after"}
  BY DEF Before, ChildWorks, ChildFails, After
<1>2. disp.pc # "before" => disp \in RunType
  BY <1>1, RunFacts DEF Running
<1>3. disp'.pc \in Busy /\ disp'.key = disp.key /\ disp'.id = disp.id
  <2>1. CASE Before
    BY <2>1 DEF Before, Busy, Running
  <2>2. CASE ChildWorks \/ ChildFails
    <3>1. disp \in RunType
      BY <1>2, <2>2 DEF ChildWorks, ChildFails
    <3> QED
      BY <2>2, <3>1 DEF ChildWorks, ChildFails, RunType, Busy, Running
  <2>3. CASE After
    <3>1. disp \in RunType
      BY <1>2, <2>3 DEF After
    <3>2. PICK x : disp' = [disp EXCEPT !.pc = "finish", !.report = x]
      BY <2>3 DEF After
    <3> QED
      BY <3>1, <3>2 DEF RunType, Busy, Running
  <2> QED
    BY <2>1, <2>2, <2>3
<1>4. UNCHANGED <<items, readable, faults>>
  BY DEF Before, ChildWorks, ChildFails, After, sessions
<1> QED
  BY <1>3, <1>4, AttemptGoesOn DEF XInv, Faults

LEMMA FinishSpent ==
  ASSUME IInv, XInv, Finish
  PROVE  XInv'
<1> DEFINE k == disp.key
           old == Released(items[k])
<1>1. disp.pc \in Running
  BY DEF Finish, Running
<1>2. /\ disp \in RunType /\ disp.id \in Nat /\ faults \in Nat /\ MaxAttempts \in Nat
      /\ MaxAttempts > 0
  BY <1>1, RunFacts, RetryConstants DEF XInv, Faults
<1>3. PICK q \in (IF k \notin DOMAIN items THEN {items}
                  ELSE IF Overtaken THEN {Reasserted}
                  ELSE UNION {Finished(asked) : asked \in
                         IF items[k].flight THEN {items[k].again} ELSE BOOLEAN}) :
             items' = q
  BY DEF Finish, SetQueue
<1>4. \A j \in DOMAIN items : j # k => Calm(items[j])
  BY DEF XInv, Spent, Claimed
<1>5. ASSUME k \in DOMAIN items
      PROVE  /\ items[k] \in AnyItem /\ old \in AnyItem
             /\ old.attempts = items[k].attempts /\ old.id = items[k].id
  <2>1. items[k] \in AnyItem
    BY <1>5 DEF IInv, QueueOK, Good, Sound
  <2> QED
    BY <2>1 DEF Released, AnyItem
<1>6. AllCalm(q)
  <2>1. CASE k \notin DOMAIN items
    BY <1>3, <1>4, <2>1 DEF AllCalm
  <2>2. CASE k \in DOMAIN items /\ Overtaken
    <3> DEFINE plain == [old EXCEPT !.retarget = "none"]
               to == <<old.retarget, Target(k)>>
    <3>1. Calm(items[k])
      <4>1. items[k].attempts \in Nat /\ items[k].id \in Nat /\ items[k].id > disp.id
        BY <1>5, <2>2, RetryConstants DEF AnyItem, Overtaken
      <4>2. Calm(items[k]) \/ Claimed(items[k], k)
        BY <2>2 DEF XInv, Spent
      <4> QED
        BY <1>2, <4>1, <4>2 DEF Calm, Claimed
    <3>2. plain.attempts = old.attempts /\ plain.id = old.id
      <4> HIDE DEF old
      <4> QED
        BY <1>5, <2>2 DEF AnyItem
    <3>3. Calm(old) /\ Calm(plain)
      <4> HIDE DEF plain, old
      <4> QED
        BY <1>5, <2>2, <3>1, <3>2 DEF Calm
    <3>4. Reasserted \in {With(items, k, old), With(items, k, plain), Rekeyed(items, k, to, plain)}
      BY DEF Reasserted
    <3> HIDE DEF plain, old, to, k
    <3> QED
      BY <1>3, <1>4, <2>2, <3>3, <3>4, SettledCalm
  <2>3. CASE k \in DOMAIN items /\ ~Overtaken
    <3>1. PICK asked \in BOOLEAN : q \in Finished(asked)
      <4>1. items[k].again \in BOOLEAN
        BY <1>5, <2>3 DEF AnyItem
      <4> QED
        BY <1>3, <2>3, <4>1
    <3> DEFINE stage == IF disp.report = "handoff" THEN "downstream" ELSE disp.launch
               item == IF disp.required THEN [old EXCEPT !.owes = TRUE, !.stage = stage] ELSE old
               fresh == [item EXCEPT !.attempts = 0, !.wait = "later"]
               later == [item EXCEPT !.wait = "later"]
               gone == Without(items, k)
               handed == Upsert(gone, <<"deep", Target(k)>>)
    <3>2. item \in AnyItem
      <4>1. stage \in Stage
        BY <1>2 DEF RunType, Stage
      <4> HIDE DEF stage, old
      <4> QED
        BY <1>5, <2>3, <4>1 DEF AnyItem
    <3> HIDE DEF item
    <3>3. /\ fresh.attempts = 0 /\ fresh.id = item.id
          /\ later.attempts = item.attempts /\ later.id = item.id
          /\ item.attempts \in Nat /\ item.id \in Nat
      BY <3>2, RetryConstants DEF AnyItem
    <3> HIDE DEF fresh, later
    <3>4. Calm(fresh) /\ (Retriable(item) => Calm(later))
      BY <1>2, <3>3 DEF Calm, Retriable
    <3>5. AllCalm(gone)
      BY <1>4, SettledCalm
    <3>6. AllCalm(handed)
      <4>1. gone \in [DOMAIN gone -> AnyItem]
        <5>1. items \in [DOMAIN items -> AnyItem]
          BY DEF IInv, QueueOK, Good, Sound
        <5> QED
          BY <5>1 DEF Without
      <4> HIDE DEF gone
      <4> QED
        BY <3>5, <4>1, UpsertSpent DEF XInv
    <3>7. \/ q = With(items, k, fresh)
          \/ q = With(items, k, later) /\ Retriable(item)
          \/ q = gone
          \/ q = handed
      BY <1>2, <3>1 DEF Finished, RunType, Report, fresh, later, item
    <3> HIDE DEF gone, handed, k
    <3> QED
      BY <1>4, <3>4, <3>5, <3>6, <3>7, SettledCalm
  <2> QED
    BY <2>1, <2>2, <2>3
<1>7. UNCHANGED <<readable, faults>>
  BY DEF Finish, sessions
<1> QED
  BY <1>3, <1>6, <1>7, CalmWrite DEF XInv, Faults

LEMMA StartSpent ==
  ASSUME IInv, XInv, StartDispatcher \/ DispatcherCrash
  PROVE  XInv'
<1>1. CASE StartDispatcher
  <2>1. disp.pc \notin Busy
    BY <1>1 DEF StartDispatcher, NoDispatcher, Busy, Running
  <2>2. AllCalm(items)
    BY <2>1, IdleSpent DEF XInv
  <2>3. UNCHANGED <<items, readable, faults>>
    BY <1>1 DEF StartDispatcher, sessions
  <2> QED
    BY <2>2, <2>3, CalmWrite DEF XInv, Faults
<1>2. CASE DispatcherCrash
  <2>1. Spent(items)' /\ Faults' /\ readable' = readable
    BY <1>2, FaultSpent DEF DispatcherCrash, sessions
  <2> QED
    BY <2>1 DEF XInv
<1> QED
  BY <1>1, <1>2

LEMMA CountStep == IInv /\ XInv /\ [Next]_vars => XInv'
<1> SUFFICES ASSUME IInv, XInv, [Next]_vars PROVE XInv'
  OBVIOUS
<1>1. CASE World
  BY <1>1, WorldSpent, EnqueueSpent, ElapseSpent DEF World
<1>2. CASE Launches
  BY <1>2, LaunchesSpent DEF Launches
<1>3. CASE Dispatcher
  BY <1>3, StartSpent, ClaimsSpent, ClaimSpent, AttemptSpent, FinishSpent DEF Dispatcher
<1>4. CASE DispatcherCrash
  BY <1>4, StartSpent
<1>5. CASE UNCHANGED vars
  BY <1>5, SpentWrite DEF vars, sessions, XInv, Faults
<1> QED
  BY <1>1, <1>2, <1>3, <1>4, <1>5 DEF Next

\* Attempts are counted within bounds whoever crashes, refuses or overtakes.
THEOREM AttemptsBounded == Spec => []XInv
<1>1. Init => XInv
  BY RetryConstants DEF Init, XInv, Spent, Faults
<1> QED
  BY <1>1, CountStep, Invariant, PTL DEF Spec

\* Every variable stays within its type; the attempts of a cycle are limited by
\* MaxAttempts, the newer captures and the faults.
THEOREM TypeCorrect == Spec => []TypeOK
<1>1. IInv /\ XInv => TypeOK
  <2> SUFFICES ASSUME IInv, XInv PROVE TypeOK
    OBVIOUS
  <2>1. DOMAIN items \subseteq Key
    BY DEF IInv, QueueOK, Good, Sound
  <2>2. ASSUME NEW k \in DOMAIN items PROVE items[k] \in ItemType
    <3>1. items[k] \in AnyItem
      BY DEF IInv, QueueOK, Good, Sound
    <3>2. items[k].attempts \in 0..(MaxAttempts + MaxCapture + MaxFaults)
      <4>1. /\ items[k].attempts \in Nat /\ items[k].id \in 0..MaxCapture
            /\ faults \in 0..MaxFaults /\ MaxAttempts \in Nat /\ MaxCapture \in Nat
            /\ MaxFaults \in Nat
        BY <3>1, RetryConstants DEF AnyItem, XInv, Faults
      <4>2. Claimed(items[k], k) => disp.id \in Nat
        BY DispatcherTypes, RetryConstants DEF IInv, Busy, Claimed
      <4>3. Calm(items[k]) \/ Claimed(items[k], k)
        BY DEF XInv, Spent
      <4> QED
        BY <4>1, <4>2, <4>3 DEF Calm, Claimed
    <3> QED
      BY <3>1, <3>2 DEF AnyItem, ItemType
  <2>3. /\ capture \in [Session -> 0..MaxCapture] /\ projected \in [Session -> 0..MaxCapture]
        /\ converged \in [Session -> 0..MaxCapture] /\ enqueued \in [Session -> 0..MaxCapture]
        /\ readable \subseteq Session /\ faults \in 0..MaxFaults
    BY DEF IInv, SessionsOK, XInv, Faults
  <2>4. watch \in [session : Session, current : BOOLEAN, proven : 0..MaxCapture] \union {NoWatch}
    BY DEF IInv, WatchOK
  <2>5. disp \in DispatcherType \union {NoDispatcher}
    BY DEF IInv, DispatcherOK, DispatcherType, ClaimType, BeforeType, RunType
  <2> QED
    BY <2>1, <2>2, <2>3, <2>4, <2>5 DEF TypeOK
<1> QED
  BY <1>1, Invariant, AttemptsBounded, PTL
=============================================================================
