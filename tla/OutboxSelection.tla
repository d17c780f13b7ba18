---------------------------- MODULE OutboxSelection ----------------------------
(***************************************************************************)
(* Whose turn it is in the projection outbox.  Every consumer, and the     *)
(* global lane, has a durable cursor: a pass takes the first records after *)
(* it in order of publication, moves it to the last of them, and then      *)
(* handles them one at a time.  The maintainer, one at a time under the    *)
(* maintenance lock, takes from all sessions; the retry dispatcher, after  *)
(* a launch for one session, runs the same passes for that session only,   *)
(* without the lock.                                                       *)
(*                                                                         *)
(* Source: scripts/aoa_session_memory.py (projection_outbox_ready_sessions *)
(* and its callers) and scripts/aoa_session_memory_outbox.py (rotation).   *)
(*                                                                         *)
(* A record is its place in the order of publication.  What a consumer     *)
(* does to complete a record is in OutboxReconcile: here it may happen at  *)
(* any time, or never.                                                     *)
(***************************************************************************)
EXTENDS Naturals, SequencesExt

CONSTANTS
    Session,
    Consumer,   \* consumers that complete records from a lane of their own
    Lane,       \* the lanes: consumers, and the global one
    Limit,      \* records of one pass over all sessions (16 or more in the code)
    MaxRecord,  \* bound on publications
    MaxCrashes  \* bound on workers that die in a pass

Global == "global"

ASSUME SelectionConstants ==
    /\ Lane \subseteq Consumer \union {Global}
    /\ {Limit, MaxRecord, MaxCrashes} \subseteq Nat

Worker == {"maintainer", "dispatcher"}

VARIABLES
    record,   \* the record of each session's current publication (0: none)
    pending,  \* the consumers that have not completed it
    retired,  \* the sessions whose current record is retired
    cursor,   \* the durable scheduler state
    pass,     \* what each worker has selected
    handled,  \* history: sessions whose current record a pass handled
    crashes

outbox == <<record, pending, retired>>
vars == <<outbox, cursor, pass, handled, crashes>>

Idle == [pc |-> "idle"]

Init ==
    /\ record = [s \in Session |-> 0]
    /\ pending = [s \in Session |-> {}]
    /\ retired = {}
    /\ cursor = [l \in Lane |-> 0]
    /\ pass = [w \in Worker |-> Idle]
    /\ handled = [l \in Lane |-> {}]
    /\ crashes = 0

-----------------------------------------------------------------------------
(* The outbox, as others change it.                                        *)

Newest == CHOOSE r \in 0..MaxRecord : /\ \A s \in Session : record[s] <= r
                                      /\ r = 0 \/ \E s \in Session : record[s] = r

Publish(s) ==
    /\ Newest < MaxRecord
    /\ record' = [record EXCEPT ![s] = Newest + 1]
    /\ pending' = [pending EXCEPT ![s] = Consumer]
    /\ retired' = retired \ {s}
    /\ handled' = [l \in Lane |-> handled[l] \ {s}]
    /\ UNCHANGED <<cursor, pass, crashes>>

Complete(s, c) ==
    /\ c \in pending[s]
    /\ pending' = [pending EXCEPT ![s] = @ \ {c}]
    /\ UNCHANGED <<record, retired, cursor, pass, handled, crashes>>

-----------------------------------------------------------------------------
(* Selection.                                                              *)

\* A record that every consumer completed stays in the global lane until it is
\* retired.
Eligible(l, s) ==
    /\ record[s] > 0
    /\ IF l = Global THEN pending[s] # {} \/ s \notin retired ELSE l \in pending[s]

InOrder(l, scope) == SetToSortSeq({record[s] : s \in {t \in scope : Eligible(l, t)}}, <)

\* Mutant: the first records in order, whatever the cursor says.
NoRotation(seq, c) == seq

\* A cursor that is in the lane no more starts again from the oldest record.
Rotated(seq, c) ==
    IF \E i \in DOMAIN seq : seq[i] = c
    THEN LET i == CHOOSE j \in DOMAIN seq : seq[j] = c
         IN SubSeq(seq, i + 1, Len(seq)) \o SubSeq(seq, 1, i)
    ELSE seq

Batch(seq, limit) == SubSeq(seq, 1, IF limit < Len(seq) THEN limit ELSE Len(seq))

\* The cursor is read without its lock.
Select(w, l, scope, limit) ==
    /\ pass[w] = Idle
    /\ LET seq == Rotated(InOrder(l, scope), cursor[l])
       IN /\ seq # <<>>
          /\ pass' = [pass EXCEPT ![w] =
                [pc |-> "advance", lane |-> l, picks |-> Batch(seq, limit)]]
    /\ UNCHANGED <<outbox, cursor, handled, crashes>>

SelectAll(l) == Select("maintainer", l, Session, Limit)

\* A launch for a session whose record has to be retired is followed by one
\* pass of that session through each lane.
SelectTarget(l, s) ==
    /\ s \notin retired
    /\ Select("dispatcher", l, {s}, 1)

Advance(w) ==
    /\ pass[w].pc = "advance"
    /\ cursor' = [cursor EXCEPT ![pass[w].lane] = Last(pass[w].picks)]
    /\ pass' = [pass EXCEPT ![w].pc = "work"]
    /\ UNCHANGED <<outbox, handled, crashes>>

\* Each picked record is looked at again.  The consumers' passes only note what
\* they find; the dispatcher's pass through the global lane writes the
\* retirement of a record that every consumer has completed.
Handle(w) ==
    /\ pass[w].pc = "work"
    /\ LET r == Head(pass[w].picks)
           l == pass[w].lane
           mine == {s \in Session : record[s] = r}
       IN /\ handled' = [handled EXCEPT ![l] = @ \union mine]
          /\ retired' = IF w = "dispatcher" /\ l = Global
                        THEN retired \union {s \in mine : pending[s] = {}} ELSE retired
    /\ pass' = [pass EXCEPT ![w] = IF Len(@.picks) = 1 THEN Idle
                                   ELSE [@ EXCEPT !.picks = Tail(@)]]
    /\ UNCHANGED <<record, pending, cursor, crashes>>

Crash(w) ==
    /\ pass[w] # Idle
    /\ crashes < MaxCrashes
    /\ crashes' = crashes + 1
    /\ pass' = [pass EXCEPT ![w] = Idle]
    /\ UNCHANGED <<outbox, cursor, handled>>

Next ==
    \/ \E s \in Session : Publish(s) \/ \E c \in Consumer : Complete(s, c)
    \/ \E l \in Lane : SelectAll(l) \/ \E s \in Session : SelectTarget(l, s)
    \/ \E w \in Worker : Advance(w) \/ Handle(w) \/ Crash(w)

Spec == Init /\ [][Next]_vars

\* Timers start the maintainer's passes through every lane again and again, and
\* a pass that does not die ends.  Nothing is assumed of the consumers.
Fairness ==
    /\ \A l \in Lane : SF_vars(SelectAll(l))
    /\ \A w \in Worker : WF_vars(Advance(w) \/ Handle(w))

FairSpec == Spec /\ Fairness

-----------------------------------------------------------------------------
(* Properties.                                                             *)

Served(l, s) == ~Eligible(l, s) \/ s \in handled[l]
TargetedPass(l) == pass["dispatcher"] # Idle /\ pass["dispatcher"].lane = l

\* "Continuous arrivals cannot permanently displace older admitted work": a
\* record that stays in a lane is handled, however
\* many before it are never completed.
EveryRecordServed == \A l \in Lane, s \in Session : []<>Served(l, s)

\* The same, if from some time on the dispatcher leaves the lane alone: neither
\* crashes between selection and cursor, nor an old cursor that a slow targeted
\* pass wrote, nor records that leave the lane under the cursor keep a record
\* waiting for ever.
ServedWhenQuiet ==
    \A l \in Lane : <>[]~TargetedPass(l) => \A s \in Session : []<>Served(l, s)
=============================================================================
