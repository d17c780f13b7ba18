------------------------------ MODULE RetryQueue ------------------------------
(***************************************************************************)
(* The persistent retry queue of automatic maintenance.  The capture watch *)
(* and sweeps bind an obligation to the newest capture of a session, timer *)
(* launches that were refused leave an ordinary item, and the dispatcher   *)
(* claims due items, launches a child for each outside the queue lock and  *)
(* settles the item by what the child achieved.                            *)
(*                                                                         *)
(* Source: scripts/aoa_session_memory.py                                   *)
(* (auto_maintenance_retry_dispatch and what it calls).                    *)
(*                                                                         *)
(* Every change of the queue file is one locked, durable step, and so one  *)
(* action.  A capture identity is a number: epochs and byte watermarks     *)
(* only ever grow.  Delays are the classes later, due and breached (due    *)
(* past the profile's wait target): a dispatcher compares them with the    *)
(* time of its start, so that they only change while none is running.      *)
(* Which current item comes first, and which of the others, is left open:  *)
(* the model keeps the lanes.                                              *)
(***************************************************************************)
EXTENDS Naturals, FiniteSets

CONSTANTS
    Session,
    Origins,     \* who enqueues: the watch (TRUE), whose items come first, or sweeps
    Periodic,    \* keys of the items that timer launches leave, for targets that are no session
    HandsOff,    \* keys whose child may hand the rest to the deep profile
    MaxCapture,  \* bound on the captures of one session
    Heavy,       \* the captures that are large enough for the deep profile
    MaxAttempts, \* attempts of one cycle (3 or 4 in the code)
    Limit,       \* launches of one dispatcher (4 in the rendered unit)
    MaxFaults    \* bound on crashes and unreadable captures

Identity == 1..MaxCapture
Stage == {"projection", "downstream"}
Wait == {"later", "due", "breached"}
HeavyProfile == {"backlog", "deep"}

ASSUME RetryConstants ==
    /\ {MaxCapture, Limit, MaxFaults} \subseteq Nat
    /\ MaxAttempts \in Nat \ {0}
    /\ Heavy \subseteq Identity
    /\ Origins \subseteq BOOLEAN
    /\ \A k \in Periodic \union HandsOff : k[2] \notin Session

Key == (HeavyProfile \X Session) \union Periodic \union {<<"deep", k[2]>> : k \in HandsOff}
Profile(k) == k[1]
Target(k) == k[2]

VARIABLES
    items,     \* the queue: a function on the keys that are present
    capture,   \* newest capture of each session
    readable,  \* the sessions whose capture identity can be proved
    projected, \* capture that each session's projection and search cover
    converged, \* capture whose outbox record every consumer has retired
    watch,     \* an obligation about to be enqueued
    disp,      \* the dispatcher that holds the worker lock
    enqueued,  \* history: newest capture that an obligation was bound to
    faults     \* history: crashes and unreadable captures

sessions == <<capture, readable, projected, converged>>
vars == <<items, sessions, watch, disp, enqueued, faults>>

NoWatch == [session |-> "none"]
NoDispatcher == [pc |-> "off"]

New == [flight |-> FALSE, attempts |-> 0, again |-> FALSE, wait |-> "later",
        id |-> 0, stage |-> "projection", owes |-> FALSE, current |-> FALSE,
        retarget |-> "none"]

Init ==
    /\ items = <<>>
    /\ capture = [s \in Session |-> 0]
    /\ readable = Session
    /\ projected = [s \in Session |-> 0]
    /\ converged = [s \in Session |-> 0]
    /\ watch = NoWatch
    /\ disp = NoDispatcher
    /\ enqueued = [s \in Session |-> 0]
    /\ faults = 0

-----------------------------------------------------------------------------
(* Changes of the queue, as operators on its content.                      *)

Without(q, k) == [j \in DOMAIN q \ {k} |-> q[j]]
With(q, k, item) == [j \in DOMAIN q \union {k} |-> IF j = k THEN item ELSE q[j]]
Item(q, k) == IF k \in DOMAIN q THEN q[k] ELSE New

\* An item that is there keeps its claim, its attempts and the earlier of the
\* two times; `again' is that it was asked for while it was claimed.
Upsert(q, k) == With(q, k, [Item(q, k) EXCEPT !.again = @ \/ Item(q, k).flight])

Rekeyed(q, k, to, item) == With(Without(q, k), to, item)

IsObligation(item) == item.id > 0
IsCurrent(item) == item.current /\ IsObligation(item)
Obligations(q, s) == {k \in DOMAIN q : Target(k) = s /\ IsObligation(q[k])}

Desired(s) == IF capture[s] \in Heavy THEN "deep" ELSE "backlog"

\* Mutant: a new identity continues at the stage of the old one.
BindKeepingStage(item, s, current) ==
    [item EXCEPT !.id = capture[s],
                 !.owes = @ \/ capture[s] > item.id,
                 !.current = @ \/ current]

\* A newer identity starts over at the projection stage.
Bind(item, s, current) ==
    IF capture[s] > item.id
    THEN [item EXCEPT !.id = capture[s], !.stage = "projection", !.owes = TRUE,
                      !.current = @ \/ current]
    ELSE [item EXCEPT !.current = @ \/ current]

\* Binds the one obligation of a session to the newest capture: in place while
\* it is in flight, or else under the key of the profile the capture needs.
Reconcile(q, s, current) ==
    LET k == CHOOSE j \in Obligations(q, s) : TRUE
        to == <<Desired(s), s>>
        bound == Bind(q[k], s, current)
    IN IF s \notin readable \/ Cardinality(Obligations(q, s)) # 1
       THEN [ok |-> FALSE, queue |-> q]
       ELSE CASE k = to -> [ok |-> TRUE, queue |-> With(q, k, bound)]
              [] k # to /\ q[k].flight ->
                    [ok |-> TRUE, queue |-> With(q, k, [bound EXCEPT !.retarget = Desired(s)])]
              [] k # to /\ ~q[k].flight /\ to \in DOMAIN q -> [ok |-> FALSE, queue |-> q]
              [] OTHER -> [ok |-> TRUE, queue |-> Rekeyed(q, k, to, bound)]

NewestBound(q) ==
    [s \in Session |->
        IF \E k \in Obligations(q, s) : q[k].id > enqueued[s]
        THEN (CHOOSE i \in Identity : /\ \E k \in Obligations(q, s) : q[k].id = i
                                      /\ \A k \in Obligations(q, s) : q[k].id <= i)
        ELSE enqueued[s]]

SetQueue(q) ==
    /\ items' = q
    /\ enqueued' = NewestBound(q)

-----------------------------------------------------------------------------
(* Captures, and the watch or sweep that enqueues obligations for them.    *)

Capture(s) ==
    /\ capture[s] < MaxCapture
    /\ capture' = [capture EXCEPT ![s] = @ + 1]
    /\ UNCHANGED <<items, readable, projected, converged, watch, disp, enqueued, faults>>

\* State pointer and ledger disagree until they are repaired.
BecomeUnreadable(s) ==
    /\ faults < MaxFaults
    /\ s \in readable
    /\ readable' = readable \ {s}
    /\ faults' = faults + 1
    /\ UNCHANGED <<items, capture, projected, converged, watch, disp, enqueued>>

Repair(s) ==
    /\ s \notin readable
    /\ readable' = readable \union {s}
    /\ UNCHANGED <<items, capture, projected, converged, watch, disp, enqueued, faults>>

\* Outside the queue lock: which capture is projected already, if any?
Preflight(s) ==
    /\ watch = NoWatch
    /\ capture[s] > 0
    /\ \E current \in Origins :
        watch' = [session |-> s, current |-> current,
                  proven |-> IF s \in readable /\ projected[s] = capture[s]
                             THEN capture[s] ELSE 0]
    /\ UNCHANGED <<items, sessions, disp, enqueued, faults>>

\* It suppresses a new obligation only for the capture it was made for.
Suppressed(s) == watch.proven = capture[s]

Enqueued(s) ==
    LET k == <<Desired(s), s>>
        q == Upsert(items, k)
    IN CASE Obligations(items, s) # {} -> Reconcile(items, s, watch.current).queue
         [] Obligations(items, s) = {} /\ (s \notin readable \/ Suppressed(s)) -> items
         [] OTHER -> With(q, k, [q[k] EXCEPT !.id = capture[s], !.current = watch.current])

Enqueue ==
    /\ watch # NoWatch
    /\ SetQueue(Enqueued(watch.session))
    /\ watch' = NoWatch
    /\ UNCHANGED <<sessions, disp, faults>>

WatchCrash ==
    /\ watch # NoWatch
    /\ faults < MaxFaults
    /\ faults' = faults + 1
    /\ watch' = NoWatch
    /\ UNCHANGED <<items, sessions, disp, enqueued>>

-----------------------------------------------------------------------------
(* Launches that do not come from the dispatcher.                          *)

\* A timer launch was refused or failed, and may be tried again.
LaunchRefused(k) ==
    /\ k \in Periodic
    /\ SetQueue(Upsert(items, k))
    /\ UNCHANGED <<sessions, watch, disp, faults>>

LaunchFindsCircuitOpen(k) ==
    /\ k \in Periodic \intersect DOMAIN items
    /\ ~items[k].flight
    /\ SetQueue(Without(items, k))
    /\ UNCHANGED <<sessions, watch, disp, faults>>

HasRecord(s) == projected[s] > 0
IsProjected(item, s) == projected[s] = item.id
\* Mutant: consumers are not asked.
IsConvergedUnasked(item, s) == IsProjected(item, s)

IsConverged(item, s) == IsProjected(item, s) /\ converged[s] = projected[s]

\* A success clears the item, even a claimed one; an obligation it clears only
\* if the projection covers it and its record is retired.
Cleared(k) ==
    LET item == items[k]
        s == Target(k)
    IN CASE IsObligation(item) /\ ~IsProjected(item, s) -> items
         [] IsObligation(item) /\ IsProjected(item, s) /\ ~IsConverged(item, s) ->
                With(items, k, [item EXCEPT !.owes = TRUE, !.stage = "downstream"])
         [] OTHER -> Without(items, k)

LaunchSucceeds(k) ==
    /\ k \in DOMAIN items
    /\ SetQueue(Cleared(k))
    /\ UNCHANGED <<sessions, watch, disp, faults>>

LaunchHandsOff(k) ==
    /\ k \in Periodic \intersect HandsOff
    /\ SetQueue(Upsert(Without(items, k), <<"deep", Target(k)>>))
    /\ UNCHANGED <<sessions, watch, disp, faults>>

\* Other maintenance publishes the newest capture, and its consumers follow.
SyncElsewhere(s) ==
    /\ projected[s] < capture[s]
    /\ projected' = [projected EXCEPT ![s] = capture[s]]
    /\ UNCHANGED <<items, capture, readable, converged, watch, disp, enqueued, faults>>

ConvergeElsewhere(s) ==
    /\ converged[s] < projected[s]
    /\ converged' = [converged EXCEPT ![s] = projected[s]]
    /\ UNCHANGED <<items, capture, readable, projected, watch, disp, enqueued, faults>>

\* Time passes until an item is due, and until it has waited too long for the
\* reserve, which is all that being breached is asked for.
Elapse(k) ==
    /\ disp = NoDispatcher
    /\ k \in DOMAIN items
    /\ \/ /\ items[k].wait = "later"
          /\ items' = [items EXCEPT ![k].wait = "due"]
       \/ /\ items[k].wait = "due"
          /\ Profile(k) \in HeavyProfile /\ ~IsCurrent(items[k])
          /\ items' = [items EXCEPT ![k].wait = "breached"]
    /\ UNCHANGED <<sessions, watch, disp, enqueued, faults>>

-----------------------------------------------------------------------------
(* The dispatcher.                                                         *)

StartDispatcher ==
    /\ disp = NoDispatcher
    /\ disp' = [pc |-> "claim", recovered |-> FALSE, slots |-> 0, skipped |-> {},
                heavy |-> FALSE]
    /\ UNCHANGED <<items, sessions, watch, enqueued, faults>>

\* Mutant: claims of a dead dispatcher are left alone.
RecoveredNot(q) == q

\* The first claim of a dispatcher gives back what a dead one had claimed.
Recovered(q) ==
    [k \in DOMAIN q |->
        IF q[k].flight
        THEN [q[k] EXCEPT !.flight = FALSE, !.again = FALSE,
                          !.wait = IF @ = "later" THEN "due" ELSE @]
        ELSE q[k]]

Due(q) == {k \in DOMAIN q \ disp.skipped : ~q[k].flight /\ q[k].wait # "later"}
CurrentRows(q) == {k \in Due(q) : IsCurrent(q[k])}
AgedHeavy(q) == {k \in Due(q) \ CurrentRows(q) :
                    Profile(k) \in HeavyProfile /\ q[k].wait = "breached"}

\* What can be first in dispatch order.  An aged heavy item is put after
\* Limit - 1 current ones, every time the order is made.
First(q) == IF CurrentRows(q) # {} THEN CurrentRows(q)
            ELSE IF AgedHeavy(q) # {} THEN AgedHeavy(q) ELSE Due(q)

Begun(q) == IF disp.recovered THEN q ELSE Recovered(q)

ClaimNone ==
    /\ disp.pc = "claim"
    /\ disp.slots = Limit \/ Due(Begun(items)) = {}
    /\ SetQueue(IF disp.slots = Limit THEN items ELSE Begun(items))
    /\ disp' = NoDispatcher
    /\ UNCHANGED <<sessions, watch, faults>>

Refuse(k) ==
    /\ disp.pc = "claim"
    /\ disp.slots < Limit
    /\ LET q == Begun(items)
       IN /\ k \in First(q)
          /\ IsObligation(q[k])
          /\ ~Reconcile(q, Target(k), q[k].current).ok
          /\ SetQueue(q)
    /\ disp' = [disp EXCEPT !.recovered = TRUE, !.skipped = @ \union {k}]
    /\ UNCHANGED <<sessions, watch, faults>>

\* An attempt begins with item j of queue r, which is marked as claimed.
Take(r, j) ==
    LET item == [r[j] EXCEPT !.flight = TRUE, !.attempts = @ + 1, !.again = FALSE,
                    !.owes = @ \/ (IsObligation(r[j]) /\ HasRecord(Target(j)))]
    IN /\ SetQueue(With(r, j, item))
       /\ disp' = [pc |-> "before", recovered |-> TRUE, slots |-> disp.slots + 1,
                   skipped |-> disp.skipped, key |-> j,
                   id |-> item.id, stage |-> item.stage, owes |-> item.owes,
                   heavy |-> disp.heavy \/ j \in AgedHeavy(r)]

\* An obligation is bound to the newest capture before it is claimed; if that
\* moves it to another profile the order is made again, and whatever is first
\* by then is claimed.
Claim(k) ==
    /\ disp.pc = "claim"
    /\ disp.slots < Limit
    /\ LET q == Begun(items)
           admitted == Reconcile(q, Target(k), q[k].current)
           r == IF IsObligation(q[k]) THEN admitted.queue ELSE q
       IN /\ k \in First(q)
          /\ IsObligation(q[k]) => admitted.ok
          /\ IF k \in DOMAIN r THEN Take(r, k)
             ELSE IF First(r) # {} THEN \E j \in First(r) : Take(r, j)
             ELSE SetQueue(r) /\ disp' = NoDispatcher
    /\ UNCHANGED <<sessions, watch, faults>>

\* What the dispatcher reads before the launch.  An obligation whose session
\* has an outbox record ends only when that record is retired.
Before ==
    /\ disp.pc = "before"
    /\ LET s == Target(disp.key)
           required == IsObligation(disp) /\ (disp.owes \/ HasRecord(s))
           proven == IsObligation(disp) /\ IsProjected(disp, s)
           settled == proven /\ (required => IsConverged(disp, s))
       IN disp' = [pc |-> IF settled THEN "after" ELSE "child",
                   recovered |-> TRUE, slots |-> disp.slots, skipped |-> disp.skipped,
                   key |-> disp.key, id |-> disp.id, stage |-> disp.stage,
                   heavy |-> disp.heavy, required |-> required,
                   launch |-> IF required /\ proven THEN "downstream"
                              ELSE IF required THEN disp.stage ELSE "projection",
                   report |-> "ok"]
    /\ UNCHANGED <<items, sessions, watch, enqueued, faults>>

\* What the child reports if it is not done: "progressed" stands for the
\* statuses that grant a fresh cycle, measurable progress or contention.
Report == {"progressed", "failed", "terminal"}

\* The child publishes the newest capture, or lets the consumers converge.
ChildWorks ==
    /\ disp.pc = "child"
    /\ LET s == Target(disp.key)
       IN CASE IsObligation(disp) /\ disp.launch = "projection" ->
                 /\ projected' = [projected EXCEPT ![s] = capture[s]]
                 /\ UNCHANGED converged
            [] IsObligation(disp) /\ disp.launch = "downstream" ->
                 /\ converged' = [converged EXCEPT ![s] = projected[s]]
                 /\ UNCHANGED projected
            [] OTHER -> UNCHANGED <<projected, converged>>
    /\ disp' = [disp EXCEPT !.pc = "after"]
    /\ UNCHANGED <<items, capture, readable, watch, enqueued, faults>>

ChildFails ==
    /\ disp.pc = "child"
    /\ \E r \in Report : disp' = [disp EXCEPT !.pc = "after", !.report = r]
    /\ UNCHANGED <<items, sessions, watch, enqueued, faults>>

\* What it reads after the launch.  An obligation is judged by the projection
\* and by its record, not by what the child reports.
After ==
    /\ disp.pc = "after"
    /\ LET s == Target(disp.key)
           proven == IsObligation(disp) /\ IsProjected(disp, s)
           done == IF disp.required THEN proven /\ IsConverged(disp, s) ELSE proven
       IN disp' = [disp EXCEPT
            !.pc = "finish",
            !.report = IF ~IsObligation(disp) THEN @
                       ELSE IF done THEN "ok"
                       ELSE IF disp.required /\ disp.stage = "projection" /\ proven
                            THEN (IF disp.launch = "projection" THEN "handoff" ELSE "progressed")
                       ELSE IF @ \in {"ok", "terminal"} THEN "failed" ELSE @]
    /\ UNCHANGED <<items, sessions, watch, enqueued, faults>>

\* Mutant: the attempt counts for whatever the item is bound to by now.
OvertakenNever == FALSE

\* The obligation was bound to a newer capture while the child ran.
Overtaken == IsObligation(disp) /\ items[disp.key].id > disp.id

Released(item) == [item EXCEPT !.flight = FALSE, !.again = FALSE]

\* The item is due again at once, under the profile its new capture needs.
Reasserted ==
    LET k == disp.key
        item == Released(items[k])
        to == <<item.retarget, Target(k)>>
    IN CASE item.retarget = "none" -> With(items, k, item)
         [] item.retarget = Profile(k) -> With(items, k, [item EXCEPT !.retarget = "none"])
         [] item.retarget \notin {"none", Profile(k)} /\ to \in DOMAIN items -> With(items, k, item)
         [] OTHER -> Rekeyed(items, k, to, [item EXCEPT !.retarget = "none"])

\* Mutant: the attempts of a cycle are not limited.
RetriableForever(item) == item.attempts < MaxAttempts + 9

Retriable(item) == item.attempts < MaxAttempts

\* An item that was cleared and asked for again is not told from the claimed
\* one by its count.
Finished(asked) ==
    LET k == disp.key
        old == Released(items[k])
        item == IF disp.required
                THEN [old EXCEPT !.owes = TRUE,
                        !.stage = IF disp.report = "handoff" THEN "downstream" ELSE disp.launch]
                ELSE old
        again == With(items, k, [item EXCEPT !.attempts = 0, !.wait = "later"])
        backoff == With(items, k, [item EXCEPT !.wait = "later"])
    IN CASE disp.report \in {"handoff", "progressed"} -> {again}
         [] disp.report = "ok" ->
                {Without(items, k)}
                \union (IF k \in HandsOff
                        THEN {Upsert(Without(items, k), <<"deep", Target(k)>>)} ELSE {})
         [] disp.report \in {"failed", "terminal"} ->
                IF asked THEN {again}
                ELSE IF disp.report = "failed" /\ Retriable(item) THEN {backoff}
                ELSE IF IsObligation(disp) THEN {again}
                ELSE {Without(items, k)}

\* Another success may have cleared the item meanwhile.
Finish ==
    /\ disp.pc = "finish"
    /\ \E q \in (IF disp.key \notin DOMAIN items THEN {items}
                 ELSE IF Overtaken THEN {Reasserted}
                 ELSE UNION {Finished(asked) : asked \in
                        IF items[disp.key].flight THEN {items[disp.key].again} ELSE BOOLEAN}) :
            SetQueue(q)
    /\ disp' = [pc |-> "claim", recovered |-> TRUE, slots |-> disp.slots,
                skipped |-> disp.skipped, heavy |-> disp.heavy]
    /\ UNCHANGED <<sessions, watch, faults>>

DispatcherCrash ==
    /\ disp # NoDispatcher
    /\ faults < MaxFaults
    /\ faults' = faults + 1
    /\ disp' = NoDispatcher
    /\ UNCHANGED <<items, sessions, watch, enqueued>>

Dispatcher ==
    \/ StartDispatcher
    \/ ClaimNone
    \/ \E k \in Key : Refuse(k) \/ Claim(k)
    \/ Before
    \/ ChildWorks \/ ChildFails
    \/ After
    \/ Finish

Launches ==
    \E k \in Key : \/ LaunchRefused(k) \/ LaunchFindsCircuitOpen(k)
                   \/ LaunchSucceeds(k) \/ LaunchHandsOff(k)

World ==
    \/ \E s \in Session : \/ Capture(s) \/ BecomeUnreadable(s) \/ Repair(s)
                          \/ Preflight(s) \/ SyncElsewhere(s) \/ ConvergeElsewhere(s)
    \/ Enqueue \/ WatchCrash
    \/ \E k \in Key : Elapse(k)

Next == World \/ Launches \/ Dispatcher \/ DispatcherCrash

Spec == Init /\ [][Next]_vars

-----------------------------------------------------------------------------
\* The watch polls every session, time passes, timers start the dispatcher,
\* unreadable captures are repaired, and a child that is launched again and again for an
\* item is not refused or failing for ever.
Fairness ==
    /\ \A s \in Session : SF_vars(Preflight(s)) /\ WF_vars(Repair(s))
    /\ WF_vars(Enqueue)
    /\ \A k \in Key :
        /\ SF_vars(Elapse(k))
        /\ SF_vars(ChildWorks /\ disp.key = k)
    /\ WF_vars(Dispatcher)

FairSpec == Spec /\ Fairness

-----------------------------------------------------------------------------
(* Properties.                                                             *)

ItemType ==
    [flight : BOOLEAN, attempts : 0..(MaxAttempts + MaxCapture + MaxFaults), again : BOOLEAN,
     wait : Wait, id : 0..MaxCapture, stage : Stage, owes : BOOLEAN, current : BOOLEAN,
     retarget : HeavyProfile \union {"none"}]

DispatcherType ==
    [pc : {"claim"}, recovered : BOOLEAN, slots : 0..Limit, skipped : SUBSET Key, heavy : BOOLEAN]
    \union
    [pc : {"before"}, recovered : {TRUE}, slots : 1..Limit, skipped : SUBSET Key, heavy : BOOLEAN,
     key : Key, id : 0..MaxCapture, stage : Stage, owes : BOOLEAN]
    \union
    [pc : {"child", "after", "finish"}, recovered : {TRUE}, slots : 1..Limit, skipped : SUBSET Key,
     heavy : BOOLEAN, key : Key, id : 0..MaxCapture, stage : Stage, required : BOOLEAN,
     launch : Stage, report : Report \union {"ok", "handoff"}]

\* Every variable of the queue stays within its type; in particular no item is
\* attempted more often in a cycle than MaxAttempts, its newer captures and the
\* crashes of its dispatcher explain.
TypeOK ==
    /\ DOMAIN items \subseteq Key
    /\ \A k \in DOMAIN items : items[k] \in ItemType
    /\ capture \in [Session -> 0..MaxCapture]
    /\ readable \subseteq Session
    /\ projected \in [Session -> 0..MaxCapture]
    /\ converged \in [Session -> 0..MaxCapture]
    /\ watch \in [session : Session, current : BOOLEAN, proven : 0..MaxCapture]
                 \union {NoWatch}
    /\ disp \in DispatcherType \union {NoDispatcher}
    /\ enqueued \in [Session -> 0..MaxCapture]
    /\ faults \in 0..MaxFaults

\* An obligation outlives refused, failed and exhausted attempts, the success of
\* an older attempt, a change of profile and crashes: until the newest capture
\* it was bound to is projected, it is in the queue, bound to that capture, and
\* never under two keys.
ObligationKept ==
    \A s \in Session :
        /\ Cardinality(Obligations(items, s)) <= 1
        /\ \/ projected[s] >= enqueued[s]
           \/ \E k \in Obligations(items, s) : items[k].id = enqueued[s]

\* No obligation waits for consumers of a projection that does not exist: the
\* downstream stage is only entered for a capture that is projected.
StageIsProven ==
    \A s \in Session : \A k \in Obligations(items, s) :
        items[k].stage = "downstream" => projected[s] >= items[k].id

\* An obligation that must see its outbox record retired leaves the queue only
\* when every consumer of its capture has converged, whichever launch ends it.
ReleaseIsConverged ==
    [][\A s \in Session : \A k \in Obligations(items, s) :
          Obligations(items', s) = {} =>
              \/ converged[s] >= items[k].id
              \/ disp.pc = "finish" /\ ~disp.required]_vars

\* "For any bounded batch larger than one, the final practical slot is reserved
\* for one earliest breached historical backlog or deep item".
FinalSlotReserved ==
    [][/\ disp # NoDispatcher /\ disp.pc = "claim" /\ disp'.pc = "before"
       /\ Limit > 1 /\ disp'.slots = Limit /\ AgedHeavy(items) # {}
       => disp'.heavy]_vars

\* Whatever was lost, refused or overtaken: again and again the newest capture
\* of a session is projected and nothing is owed for it.
CaptureProjected ==
    \A s \in Session : []<>(projected[s] = capture[s] /\ Obligations(items, s) = {})
=============================================================================
