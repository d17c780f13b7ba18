----------------------------- MODULE GoalCatalog -----------------------------
(***************************************************************************)
(* A reader next to SessionPublish: the public goal catalog.               *)
(*                                                                         *)
(* The catalog takes no lock.  It reads the manifest and the index of the  *)
(* session with the watermark (inode, size, time) of each, looks for the   *)
(* publish journal, and compares all watermarks once more before it calls  *)
(* its answer current; what it finds changed or torn it reads again, a few *)
(* times at most.                                                          *)
(*                                                                         *)
(* Source: scripts/aoa_session_memory.py                                   *)
(*   goal_catalog_public_source_snapshot, its _once and _read_json         *)
(*                                                                         *)
(* A file is renamed into place and never written there, so its content    *)
(* (the publication that wrote it) stands for its watermark as well.  What *)
(* the reader can compare between two files is less: the identity of the   *)
(* publication each names (the digest, size and generations of its source),*)
(* which is the same for two attempts to publish one capture.  The         *)
(* registry and the capture state are two more sources, with further       *)
(* reasons not to call an answer current; they are left out.  What is left *)
(* of an attempt that is bound to be repeated is left out too.             *)
(***************************************************************************)
EXTENDS SessionPublish, Sequences

CONSTANTS
    Manifest, Index, \* the components that are read
    MaxReads,        \* bound on attempts, the code's own
    Identity         \* the publish identity of each attempt's files

ASSUME CatalogConstants ==
    /\ {Manifest, Index} \subseteq Comp /\ Manifest # Index
    /\ MaxReads \in Nat \ {0}

VARIABLE reader

catalogVars == <<vars, reader>>

Sources == <<Manifest, Index>>
Unread == [i \in 1 .. 2 |-> Absent]

\* marks are the watermarks, values what was read; lastGood, a history
\* variable, is what was published when the journal was looked for.
Attempt(n) == [at |-> "stat", attempt |-> n, i |-> 1, marks |-> Unread,
               values |-> Unread, lastGood |-> Unread]

Answer(state) == [reader EXCEPT !.at = state]

InitCatalog == Init /\ reader = [Attempt(1) EXCEPT !.at = "idle"]

Ask ==
    /\ reader.at \in {"idle", "current", "missing", "deferred"}
    /\ reader' = Attempt(1)
    /\ UNCHANGED vars

\* A reason to read everything again.
Again == reader' = IF reader.attempt < MaxReads
                     THEN Attempt(reader.attempt + 1)
                     ELSE Answer("deferred")

Now == final[Sources[reader.i]]

\* Both files come first, then the journal.
Proceed(r) == IF r.i = 1 THEN [r EXCEPT !.at = "stat", !.i = 2]
                         ELSE [r EXCEPT !.at = "watermark"]

\* A missing file is noted, and its watermark is that there is none.
StatFile ==
    /\ reader.at = "stat"
    /\ reader' = IF Now = Absent
                   THEN Proceed([reader EXCEPT !.marks[reader.i] = Absent])
                   ELSE [reader EXCEPT !.at = "read", !.marks[reader.i] = Now]
    /\ UNCHANGED vars

ReadFile ==
    /\ reader.at = "read"
    /\ IF Now = Absent
         THEN Again
         ELSE reader' = [reader EXCEPT !.at = "check", !.values[reader.i] = Now]
    /\ UNCHANGED vars

\* The file has the same watermark after it was read.
CheckFile ==
    /\ reader.at = "check"
    /\ IF Now # reader.marks[reader.i] THEN Again ELSE reader' = Proceed(reader)
    /\ UNCHANGED vars

\* A journal that has a watermark now is found there next, or it has another
\* watermark at last.
JournalWatermark ==
    /\ reader.at = "watermark"
    /\ IF journal # NoJournal THEN Again ELSE reader' = [reader EXCEPT !.at = "journal"]
    /\ UNCHANGED vars

\* The two files name different publications.
Torn == /\ Absent \notin {reader.values[1], reader.values[2]}
        /\ Identity[reader.values[1]] # Identity[reader.values[2]]

\* No publication is in progress, and manifest and index name the same one.
LookForJournal ==
    /\ reader.at = "journal"
    /\ IF journal # NoJournal \/ Torn
         THEN Again
         ELSE reader' = [reader EXCEPT !.at = "recheck", !.i = 1,
                           !.lastGood = [i \in 1 .. 2 |-> good[Sources[i]]]]
    /\ UNCHANGED vars

\* Mutant: what was read is not compared again.
RecheckNothing ==
    /\ reader.at = "recheck"
    /\ reader' = [reader EXCEPT !.at = "recheck_journal"]
    /\ UNCHANGED vars

Recheck ==
    /\ reader.at = "recheck"
    /\ IF Now # reader.marks[reader.i] THEN Again
       ELSE reader' = IF reader.i = 1 THEN [reader EXCEPT !.i = 2]
                                      ELSE [reader EXCEPT !.at = "recheck_journal"]
    /\ UNCHANGED vars

RecheckJournal ==
    /\ reader.at = "recheck_journal"
    /\ IF journal # NoJournal THEN Again
       ELSE reader' = Answer(IF Absent \in {reader.marks[1], reader.marks[2]}
                               THEN "missing" ELSE "current")
    /\ UNCHANGED vars

Read == \/ StatFile \/ ReadFile \/ CheckFile \/ JournalWatermark
        \/ LookForJournal \/ Recheck \/ RecheckJournal

NextCatalog == (Next /\ UNCHANGED reader) \/ Ask \/ Read

SpecCatalog == InitCatalog /\ [][NextCatalog]_catalogVars

\* Two attempts of one publish identity took part in what was read, and one
\* of them at least was rolled back.
MixesRetries ==
    /\ reader.values[1] # reader.values[2]
    /\ Identity[reader.values[1]] = Identity[reader.values[2]]
    /\ \E i \in 1..2 : reader.values[i] \notin {0} \union committed

\* An answer that is called current is the last-good projection at one moment
\* of the read, neither a mixture nor of a publication that was rolled back;
\* except that files of two attempts to publish one capture cannot be told
\* apart (see AlwaysLastGood).
CurrentIsLastGood ==
    reader.at = "current" => reader.values = reader.lastGood \/ MixesRetries

\* The same without the exception: fails (MCCatalogRetried.cfg) when attempts
\* to publish one capture are rolled back one after the other during a read.
AlwaysLastGood ==
    reader.at = "current" => reader.values = reader.lastGood

\* A session whose files are there is never called missing.
NeverMissing ==
    reader.at = "missing" => Absent \in {reader.lastGood[1], reader.lastGood[2]}
=============================================================================
