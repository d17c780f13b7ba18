# Verification of aoa-session-memory

TLA+ models of the crash-safe core of aoa-session-memory, TLC configurations
that check them on small instances, and TLAPS proofs for every instance.
Line numbers refer to `scripts/aoa_session_memory.py` unless another file is
named.

## 1. Inventory of the system

The program archives the transcripts of coding-agent sessions, derives
searchable projections from them and answers questions about them. It is a
set of short-lived processes (hooks, scheduled workers, command-line calls)
that share one directory tree. There is no server that owns the state: all
coordination is by `flock`, atomic rename, and files that say how far an
operation has come. Its difficulty is therefore in crashes between two file
operations, in two processes on the same file, and in files written by one
route and read by another.

| Part | State it keeps | Operations | How it meets the others | Hard behaviour | Correct when |
|---|---|---|---|---|---|
| Session publication (34550-34707, 36281-36593) | a session's components, stage, backup, publish journal, outbox record, progress receipt, fence | publish, recover | called by sync, reindex, stage promotion, token backfill, block compaction; writes the record that the outbox consumers work from | crash between any two renames, crash inside the rollback, exception after the commit point | recovery leaves the last-good or the new generation, a commit is final, records match commits |
| Outbox consumers and retirement (30245-33471, 34053-34150) | consumer state, operation receipts and journals, retirement files, reconcile lock | targeted reconcile, progress writes, retirement sweep, readiness | reads the current publication under the publication fence; retry waits for the retirement | handler committed but process dead, publication advances, unlocked writers | a handler's effect is committed once, only proven completion counts, retired is retired for every reader |
| Hook ingress (`scripts/aoa_session_hook.py`, 42522-42967) | pending/running/done/failed envelopes, enqueue.lock, launch.lock | enqueue, dispatch, replay, orphan recovery, scheduled retry | feeds the hook handler, runs under the maintenance lock | signals during replay, crash in a merge, dispatcher that loses a lock | no acknowledged signal is dropped, each is counted once without faults, the queue drains |
| Hook jobs (42071-43870) | pending/running/deferred job files | enqueue with merge, coalesce, promote deferred, run | fed by ingress replay and by the synchronous hook; syncs sessions | hooks merge under a lock that the worker does not take | the newest signal of a session is synced |
| Maintenance lock (75728-76120, 78416-78505) | lock file, owner record, conflict record | acquire, release, detect stale owner, record conflicts | held by every maintenance route | coordinator state written without a lock | one maintenance route at a time |
| Retry queue and dispatcher (71395-74381) | queue items with stages, attempts, claims | enqueue, claim, run child, verify, complete | launches maintenance children, releases an item on convergence | crash with a claim, child killed after its effect | no obligation is released unproven or lost |
| Raw capture ledger (39737-41207) | append-only blocks, ledger head, capture-state pointer | capture, verify, append, stable publication | source of every projection | torn append, source rewritten under the capture | captured bytes are never lost or changed |
| Capture watch (37005-38507) | watch state, leases | register, poll, capture, expire | wakes capture and retry | stale lease, clock, session that stops growing | a growing session is captured |
| Live tail overlay (39127-39722) | overlay state and watermark | refresh, answer, retire | read next to the stable projection | publication between two reads | the tail never repeats or hides events |
| Outbox selection and fairness (28364-28532, 33137-33471) | cursor per consumer | select, rotate, advance | feeds consumer post-passes | crash between select and advance | no ready record starves |
| Session registry and entity registry (44073-) | registry files, generation | locked update, rebuild | pinned by graph publication | lost update | generation matches content |
| Search store, episode index (59426-) | SQLite databases, progress checkpoints | incremental index, schema transition | consumer of outbox records | cancelled index run | committed rows match the publication |
| Graph store and source ledger (147458-147960) | graph database, manifest, sidecars, ledger | refresh, rebind, publish | consumer of outbox records | manifest commit of several files | ledger agrees with the graph |
| Projection building (block, segment, episode code) | resumable work directories | classify, segment, render, validate | produces the stage that is published | resume of stale work | equal input gives equal output |
| Readers, command line, MCP server (`packages/aoa-session-memory-mcp`) | none | query, status | check the publish journal and identities | check then read | never answer from a mixed generation |
| Evaluation, telemetry, install, export, skills, `kag/`, `docs/` | reports, generated data | offline tools | none with the core at run time | - | - |

## 2. Plan

Modules in the order of importance; 1 to 9 exist.

1. `SessionPublish` with its abstract specification `AtomicPublication`, the
   composition `SessionPublishRace` and the proofs `SessionPublishProofs`.
2. `HookIngress` with `HookIngressProofs`.
3. `OutboxReconcile` with `OutboxReconcileProofs`: one consumer's completion,
   and the retirement of a record.
4. `HookJobs` with `HookJobsProofs`: job files, merged by hooks next to a worker
   that does not take their lock; fed by `handle` of `HookIngress`.
5. `RetryQueue` with `RetryQueueProofs`: obligations, claims, stages, a
   dispatcher that dies.
6. `CaptureLedger` with `CaptureLedgerProofs`: append, torn tail, the watch's decision, the state that a
   publication replaces.
7. `OutboxSelection`: whose turn it is in the outbox.
8. `LiveTail` with `LiveTailProofs`: postings and search of what is captured and
   not yet projected.
9. `GoalCatalog` with `CatalogProofs`: a reader without a lock, composed with
   `SessionPublish`.
10. `MaintenanceLock`: owner and conflict records, written without a lock (76058).
11. Registration and leases of the capture watch.
12. Graph sidecars: manifest-committed publication of several files.
13. Compositions: `CaptureLedger` with `SessionPublish` (36319), then from
    capture to release of the obligation.

Theorems worth proving after those of section 5: that `CurrentIsLastGood` needs only
the index to be there (TLC finds nothing against it with two components).

## 3. Models

### SessionPublish

`atomic_publish_session_projection` holds the session's publication fence, so
one publisher is active and its program counter is one variable: `pc = "idle"`
exactly when the fence is free. Every file operation that changes state, every
durable journal write among them, is one action; a crash may fall between any
two. Disk variables are `final`, `stage`, `backup`, `journal`, `outbox` and
`receipts`; `cur`, `mem` and `rec` are lost in a crash.

| Action | Code |
|---|---|
| `AcquireFence`, `Recover`, `RecoveryDone` | fence 36573-36593, recovery at the start 36319-36321 |
| `ValidationFails`, `OpenJournal` | validation 36322-36336, operations and journal 36404-36462 |
| `SkipPath`, `BackUp`, `Place`, `Mark`, `OpsDone` | loop 36463-36485 |
| `ProducerStable`, `WriteOutbox`, `MarkOutbox`, `WriteReceipt`, `MarkReceipt` | 36486-36530 |
| `Raise`, `PersistForRollback`, `Reraise` | except clause 36531-36536 |
| `MarkPublished`, `CleanBackup`, `CleanStage`, `CleanJournal` | 36537-36541 |
| `RollBackOp` ... `UnlinkJournal` | `recover_interrupted_session_projection_publish` 34564-34707 |
| `Crash` | a process that dies, or an exception where nothing catches it |

A component is reduced to the number of the publication that wrote it. An
operation is one of `N` paths; which of them a publication replaces is any
nonempty set. `rec` is one activation of the recovery procedure: the journal it
read and the place in its reversed loop. Restoring a backup is two steps, since
the code removes the final path before it renames. `Raise` is an exception
*before* the effect of a step; an exception after the effect is an exception at
the next step or a crash.

Abstractions: only the process crashes - after a power loss an unsynced rename
or unlink could be undone, which is not modelled. Record ids contain a creation
time, so each attempt has a record of its own. The `backed_up` flag is written
but no code reads it. A directory that is half removed is removed again by the
next activation, so removal is one step. What validation and the producer guard
check is a free choice between passing and failing.

`AtomicPublication` says what this is for: one step replaces a set of
components and adds the record. `SessionPublish!PublishesAtomically` shows the
detailed module implements it. The refinement mapping is what recovery would
leave behind if it ran from the current state (`Recovered`,
`SurvivingIntents`), so that a rollback is invisible and the commit point,
`WriteReceipt`, is the one visible step.

`SessionPublishRace` adds a builder that calls the recovery procedure while it
holds the session's build lease and not the fence (50802).

### GoalCatalog

`goal_catalog_public_source_snapshot` (139073-139147) reads without a lock what
publications rename. `GoalCatalog` extends `SessionPublish` by one such reader.

| Action | Code |
|---|---|
| `Ask`, `Again` | the loop over attempts, and its end 139073-139147 |
| `StatFile`, `ReadFile`, `CheckFile` | `goal_catalog_public_read_json` 138242-138291, for manifest and index |
| `JournalWatermark`, `LookForJournal` | 138832-138834, 138857-138859, and the comparison of both publish identities 138911-138946 |
| `Recheck`, `RecheckJournal` | all watermarks again 139002-139006, the state of the answer 139020-139052 |

Files are renamed into place, so what a file contains stands for its watermark,
also for a file that a rollback puts back: it has its old inode and time. The
snapshot's other sources - registry, capture state, the files this refers to -
only add reasons not to call an answer current, and are left out, as are the
pages of an answer (a cursor is bound to its digest). A reason to repeat the
attempt ends it at once, since the rest of it only reads.

The reader takes manifest and index for torn if their publish identities differ
(`Torn`). An identity is made of what is published, so that an attempt that is
made again for the same capture has the identity of the one before: `Identity`
gives it for each attempt. `Retried` lets all attempts of a run share one, which
is what a retry after a rollback does; `Distinct` gives each its own. `MixesRetries`
is what the reader cannot see then: files of two attempts of one identity, one of
them not committed. `CurrentIsLastGood` excepts just that, and `AlwaysLastGood` does
not.

### HookIngress

`scripts/aoa_session_hook.py` stores each signal in `pending/` under
`enqueue.lock`; one pipeline process at a time, under the maintenance lock,
claims envelopes into `running/`, replays them and files them in `done/` or
`failed/`. An event stands for its kind and exact bytes (they name the file); an
envelope is its `signal_count`. Enqueue is one step, as it is one critical
section with one write; the worker's critical sections have several writes and
stay several steps.

Abstractions: the handler is one step that succeeds or raises. A file operation
that raises does so before its effect. Receipts and the synchronous legacy
route are left out. Dispatching has no fairness: the code starts a detached
process and forgets it, so only the scheduled retry is relied on.

### OutboxReconcile

Processes `Procs` run `reconcile_projection_outbox_consumer` for the current
record; next to them run the progress writers, the retirement sweep and the
publisher. `Plan` is the part before the lock, `Admit` the nonblocking lock,
`Locked` the second check and the search for a committed operation. An
operation is keyed by record, consumer and attempt, as in
`_projection_outbox_operation_key`. Every consumer state write is a read of the
file and a later replacement (`ReadState`, `WriteFailed`, `WriteComplete`;
`ReadForProgress`, `WriteProgress`), since the progress writers hold no lock.
The two retirement writers share one path and write two forms.

Abstractions: publication is atomic, which is what `PublishesAtomically` shows;
it waits for the fence. A handler (none is built in, they are injected) commits
or fails; one whose result names a global child ends the call without a write,
as a crash after the handler does. A committed receipt stays valid. Resource
admission is granted. Corrupt files are not modelled.

### HookJobs

Hooks write job files under `enqueue.lock`; the worker, which holds the
maintenance lock and `worker.lock`, renames, reads, replaces and unlinks the
same files without it. A hook is three steps, look, read and write, and every
file operation of the worker is one.

| Action | Code |
|---|---|
| `HookLooks`, `HookReads`, `HookWrites` | `enqueue_hook_sync_job` 42133-42192 |
| `RecoverName`, `RecoverMove`, `Recovered` | `recover_orphaned_running_hook_jobs` 43212-43228 |
| `Group`, `Supersede`, `WriteMerged`, `Coalesced` | `coalesce_hook_sync_jobs` 42983-43067 |
| `PromoteRead` ... `PromoteUnlink` | `promote_deferred_hook_jobs` 43070-43209 |
| `Snapshot` ... `End` | `run_hook_worker` 43231-43902 |

A job is the set of signals it accounts for, and a signal the transcript version
it reports, so that "the newest signal is synced" and "every signal is counted"
are both statements about sets of numbers. A file is named by session and copy;
copy 0 is the stable name. `dropped` is a history of the signals that only a
merge accounted for whose worker died: the one exception that `IntentKept`
admits. Hooks run next to the worker only on the synchronous
route of `aoa_session_hook.py` (208-252), as ingress replay holds the
maintenance lock; the model allows both. Job types other than a session's sync,
and the receipts of finished jobs, are left out.

### RetryQueue

Every change of the queue file is one locked, durable read-modify-write, and so
one action; what the code reads outside the lock (`Preflight`, `Before`,
`After`, the child) is a step of its own. The actors are captures, the watch or
a sweep that enqueues (`Preflight`, `Enqueue`), timer launches that leave, clear
or hand off items (`LaunchRefused` ... `LaunchHandsOff`), other maintenance that
projects and converges, and one dispatcher (`StartDispatcher`, `Claim`,
`Refuse`, `Before`, `ChildWorks`, `ChildFails`, `After`, `Finish`), which may
die at any step. `Reconcile` is the binding of a session's obligation to its
newest capture, in place while it is claimed, or under the key of another
profile.

Abstractions: a capture identity is a number. Delays are the classes later, due
and breached. Which current item is first (the dispatcher's cursor,
71461-71548 and 71641-71690) is left open, as is the order of the others inside
a lane. An ordinary item stands for maintenance of something that is not a
session (`RetryConstants`). Reports and resource admission are left out.

### OutboxSelection

A record is its place in the order of publication. The maintainer's pass takes
the first `Limit` records after a lane's cursor from all sessions; the
dispatcher's targeted pass takes one of one session. Both read the cursor
(`Select`), move it (`Advance`) and then handle what they took (`Handle`), each
a step, with a crash between any two. What completes a record is
`OutboxReconcile`; here it may happen at any time, or never.

### CaptureLedger

A transcript is a number of blocks of one writing; what is written over it is
another writing, which differs in every block. Its owner may append (`Grow`),
put another file in its place (`Replace`) or truncate and rewrite it
(`Rewrite`); `Shakes` are the changes that may also happen while a capture
copies. A capture holds its lock from `Begin` (the watch's decision, or a hook)
to `WriteReceipt`, and every durable write is an action: block files and
materialization (`CopyBlock`), the ledger, the overlay, the capture state, and
the state again with its receipt (39737-41207, 38090-38119). `Build` and
`Publish` are a publication that stages a capture state and puts it in place of
the current one without the capture lock (41120). A digest is what it is of. A
crash loses any part of the materialization behind the last committed block.

### LiveTail

A captured text is a number of pieces, with the set of those that end a line
(`ends`). A capture plans its shards (`Plan`), writes them, writes the manifest,
unlinks the shards that are no longer named, and writes the overlay; a search
reads session manifest, overlay, postings manifest and shards in this order
without a lock, and leaves the question to another route when what it reads does
not fit. Publications and changes of epoch happen in between. A shard cannot
be unlinked (39661-39680) or a capture dies at any step; `faults` counts both.

A shard is a record of epoch, ordinal, time of writing (`now`) and the set of its
entries; as the file's name is made of all that, a file is the shard it holds, and
writing the same shard twice at one reading of the clock writes one file. The
entries of a shard are ordered by their line numbers, the shards of a manifest by
ordinal: `Position` and `Chunk` say which entries go into which shard, so that
`InOrder` is a property and not the shape of the data.

A projection is the text it is of, any of the constant set `Projectable`. It may be
published from a copy of the transcript or from a capture that ends in the middle
of a line (the scan counts the torn line, 15640-15669; neither the build,
50512-50537, nor the attestation asks for a line end), may be shorter or longer than what is
captured, and may be of a file that has been replaced since. A text is told from
another by its length and its line ends only: two files with the same lines
count as the same content, as a prefix that did not change does.
`ProjectedLines` is the line count that the manifest states, with the torn line;
a frontier that starts at a projection starts behind that many lines
(`Frontier`). A capture attests the projected prefix (`Attested`) if it starts where
the projection ends, or if it is the first of its epoch and the prefix is among what it reads.
Both routes ask for the digest; where the prefix ends is not asked (`Admits`), while
the direct route, which is not modelled, refuses to start in the middle of a
line (121129-121148).

`own` is a history of the manifest: every projection that it and the manifests before it
knew of was the beginning of the text, and the one that they were begun at
ends at a line end. It is the hypothesis of both properties; section 4 shows what happens
without it.

Abstractions: every line matches the search. The digest of all that is captured is at
hand: the code does without it in epochs beyond a size limit, and leaves the
attestation to a later publication. The bootstrap window, the predecessor format
of the manifest, the Bloom filter, the candidate limit, and what redaction
replaces are left out; that a new line gives away a secret in an old one, which
rewrites all shards, is a free choice. Without a match another route answers, so
that this is no answer of the model. `ReadManifest` is one step for the parse and the later digest of
the same path (123099, 123141-123158): a manifest that has been replaced in between
fits neither and the search gives up, as it does in the model.

## 4. What is checked

Constants whose names begin with `Max`, `InitialFiles` and `Times` bound the model,
not the code. `Limit` and `ShardMax` are limits of the code, given smaller values.

| Run | Question | Bounds |
|---|---|---|
| `publish_read` | a session, one component of which does not exist yet, is replaced in part or in whole while the catalog reads two of them: what it had stays recoverable, records match commits, commits are final, an answer called current is the last-good projection, or mixes attempts of one identity | 3 components, 2 attempts to publish with one identity, 2 to read |
| `publish_atomic` | a session with all its components: recovery restores exactly the last-good file set, refinement of `AtomicPublication`, an open journal is closed once processes stop crashing | 2 components, 3 attempts |
| `ingress` | no signal lost, counted once without faults, one replay at a time; the queue drains and launch.lock is freed | 2 events (one undecodable), 2 signals each, 2 faults, limit 1, so that several pipelines are needed |
| `reconcile` | the targeted route alone: one handler commit per consumer, order of consumers, final completion, proven retirement; the record is retired or its attempts are used up | 2 processes, 2 consumers, 2 attempts, 2 publications, 1 crash |
| `reconcile_progress` | with progress writers and the sweep: one commit per operation, backed completion, fenced writes | 2 processes, 1 consumer, 1 progress write |
| `hook_jobs` | hooks merge next to a worker: a queued signal stays covered, files do not multiply, every signal is answered | 1 session, 3 names besides the stable one, 3 signals, limit 2, 1 fault |
| `retry` | an obligation is kept under one key, in a stage that is proven, and released on convergence | 1 session, 2 captures, the second of which needs the deep profile, 1 attempt, limit 1, 1 fault, a catch-up item that may hand off |
| `retry_progress` | the newest capture is projected and released again and again | as before, 2 attempts, limit 2, 2 faults, no catch-up item |
| `outbox_selection` | no record of the global lane waits for ever | 3 sessions, 3 records, passes of 1, 1 crash |
| `capture` | committed blocks are backed, only grow, and are of one writing; pointers are backed; the watch completes a capture | 3 blocks, 2 changes of the source, 1 publication, 1 crash; appended to or replaced during a copy |
| `capture_tail` | is every byte captured in the end? (violated) | 2 blocks, 2 changes, appended to during a copy |
| `live_tail` | manifest and answers are exact, whatever was replaced or projected meanwhile, if the postings were begun at a line end of their own text | 3 pieces in the first epoch and 2 in the second, shards of 2 lines, 1 later projection of 4 texts, torn ones and ones of another file among them, 1 death or failed unlink, 1 reading of the clock |

Three components let a rollback be interrupted with operations before, at and
after the one in progress; two attempts are a publication and its successor,
and recovery of a journal by a later attempt needs no more. Three attempts in
`publish_atomic` add a rollback between two commits. Two attempts to read are
one that fails and one that starts anew; a third (the code's limit) starts from
the same state as the second. Two signals of an event
are one in the queue and one that arrives in the wrong moment. Two attempts per
consumer are the least with a second operation key. Three signals let one job
be under a legacy name, one be with the worker and one arrive. Two captures are
one that is worked on and one that overtakes it, and the second moves the
obligation to another key. One record more than the passes take is enough to
wait; three let two of them leave the lane under the cursor. Three pieces fill a
shard of two lines and open the next; with one reading of the clock shards of the same
lines are the same file, which is when unlinking a replaced one could hurt.

Fairness. `SessionPublish`: a running process keeps running, and the caller is
invoked again (`AcquireFence`) since retry reconsiders a session whose
projection is not current. Nothing is assumed of crashes; the property assumes
that they end. `HookIngress`: weak fairness of the pipeline, and strong fairness
of the scheduled retry, which finds the maintenance lock free again and again.
`OutboxReconcile`: weak fairness of a running call, strong fairness of planning
and of the one-shot lock, for a caller that repeats its call. `HookJobs`: a
hook and a worker that run go on, and the scheduled retry starts a worker when a
job is pending or running; it does not look at `deferred/`. `RetryQueue`: the
watch polls every session, time passes, timers start the dispatcher, an
unreadable capture is repaired, and a child that is launched for an item again
and again is not failing every time - the code retries without end, and cannot
promise more. `OutboxSelection`: the maintainer's pass through a lane is strongly
fair, as it meets an empty lane and its own other passes in between; nothing is
assumed of consumers. `CaptureLedger`: a capture goes on, the watch's timer
ticks and a staged publication ends; nothing is assumed of hooks, which may be
missed. `LiveTail` states no fairness: its properties are about every moment.

### Where the code does something else than its documents say

The run `capture_tail` is one that TLC must find violated. The others are
configurations beside the runs: `tlc -config <cfg> <module>` shows the
behaviour.

| Configuration | Property | Document | Code |
|---|---|---|---|
| `MCCaptureTail` (run `capture_tail`) | `EverythingCaptured` | AOA-SM-D-0049: the watch "recovers a changed source through the same append ledger if a hook was missed" | the watch compares the transcript with its size and time after the copy (38103), the copy ends at the size before: a tail appended in between is captured only if the transcript changes again. The run has no publication: a later one that resets the receipt, which the reconciliation of 38193-38208 may lead to, would let the watch capture it |
| `MCPublishNewPath` | `LastGoodRecoverable` | PIPELINE.md: "An interrupted replacement restores the complete prior generation" | a path that is new is in place before the journal's `published` flag is durable; a crash between leaves it there |
| `MCCatalogMissing` (with `MCCatalog`) | `NeverMissing` | GOAL_CATALOG.md: "an unstable or torn source is `deferred`" | two publications that displace the manifest, one at its read and one at the comparison, and are rolled back, let both find no file and the journal be absent whenever it is looked for: the answer is `missing` and is not tried again (139006-139019) |
| `MCCatalogFirst` (with `MCCatalog`) | `CurrentIsLastGood` | GOAL_CATALOG.md: "an unstable or torn source is `deferred`" | the first publication of a session that has a manifest and no index: a reader notes the old manifest's watermark, reads the new manifest, and finds the old one again after recovery; the new index, whose flag was not yet durable (see `MCPublishNewPath`), is left in place and fits. Manifest and index of a publication that was rolled back are called current, unless the capture state, which is left out, is a reason not to |
| `MCPublishRaised` | `RaisedKeepsLastGood` | diagnostic "..._last_good_preserved", and the test that asserts last-good bytes | an error while the journal is marked after the progress receipt is durable finalises the new generation, yet the caller reports that last-good was preserved |
| `MCPublishRace` | `EveryCommitHasItsRecord` | DESIGN.md: "Every atomic session publication also commits an immutable changed-component outbox record" | a builder recovers the journal of a live publication without the fence and removes its record; the publication still commits |
| `MCReconcileRelease` | `RetirementReleases` | PIPELINE.md: "readiness and retry release require that retirement receipt" | the targeted route's retirement file has another artifact type at the same path; readiness reads it as `retirement_invalid` and never releases the record |
| `MCReconcileRerun` | `HandlerRunsOnce` | AOA-SM-D-0101: crashes after a committed handler recover "without re-executing the handler" | a progress write raises the attempt count, so the next call has another operation key and runs the handler again |
| `MCJobsIntent` | `IntentActive` | AOA-SM-D-0070: the worker migrates duplicates "into a generated `superseded` lane and executes one canonical intent" | a group's files are moved away before the merged one is written (43041): a crash between leaves receipts and no job |
| `MCJobsAccounted` | `SignalsAccounted` | the merge preserves the newest snapshot "while accounting for every signal" (42087) | what a hook merges between the worker's read and its replacement or unlink is lost from the counts; a sync still covers the signal |
| `MCRetryReserve` | `FinalSlotReserved` | PIPELINE.md: "the final practical slot is reserved for one earliest breached historical backlog or deep item" | the order with its reserve is made anew at every claim (73487-73500, 71709-71727), so that the reserved place is behind current items every time |
| `MCSelectionTargeted` | `EveryRecordServed` | AOA-SM-D-0100: "continuous arrivals cannot permanently displace older admitted work" | a targeted pass moves the shared cursor to its own record (73387), and may do so before each global pass |
| `MCCaptureSplice` | `StableIsOneWriting` | AOA-SM-D-0049: "it must not splice bytes from two source epochs into one evidence stream" | a rewrite in place while blocks are read splices two writings. That capture is called unstable, but the next one checks the last block only (40374-40395), continues the epoch, and is called stable |
| `MCLiveTailRefs` | `AnswerIsAlwaysExact` | AOA-SM-D-0049: bytes of different epochs are not concatenated | a first manifest starts at the bytes and lines of whatever projection there is (39204-39215), also one of another file, as after a change of epoch, and a later projection of the present file admits it: lines are missing or misnumbered |
| `MCLiveTailTorn` | `TornLineIsFound` | diagnostic `live_tail_archive_boundary_not_line_aligned` (121147), which the direct route gives instead of an answer; AOA-SM-D-0049: the overlay gives "access to new complete lines" | a projection that ends in the middle of a line is attested and admitted, and its boundary is reported as `archive_boundary_line_aligned` without a look (120915): the line counts as projected when it is completed, and is hidden. A frontier that starts there (39207-39212, 39264-39274) takes the rest of the line for a line, and every later number is one too high: `AnswerIsAlwaysExact` fails with the same constants |
| `MCCatalogRetried` (with `MCCatalog`) | `AlwaysLastGood` | GOAL_CATALOG.md: "an unstable or torn source is `deferred`" | a reader reads the manifest of an attempt that is rolled back and the index of a retry that is rolled back too, each after it has noted the old file's watermark: all watermarks fit again, and the two identities are equal, as both attempts publish the same (138944) |

`OutboxReconcile` shows three more; change the constants of `MCReconcile.cfg`
and keep the named property to see them. With `MaxProgress = 1`
`CompletionIsFinal` fails: a progress writer that read the state before the
completion overwrites it (30292, 30382), although AOA-SM-D-0101 says legacy
paths "can leave only explicit progress state". With `Sweeping = TRUE`
`RetirementIsProven` fails: the sweep retires between a completion and its
recheck, which takes the sweep's file for a conflict (31004-31010) and
withdraws the completion (32527-32531), although DESIGN.md has a record retired
only "Once every required consumer has a current exact completion receipt". The
sweep's write (32903) is also outside the publication fence, so it may retire a
record that is no longer current.

`MCPublishRaised` is also where AOA-SM-D-0051 ("A crash before that mark rolls
back session files") differs: the commit point is the progress receipt, not the
journal's mark.

Modelling `RetryQueue` met four places that no property is about. A launch that
succeeds or hands off removes an item that the dispatcher has claimed, where
AOA-SM-D-0070 says that once claimed "it alone owns completion and successor
reconciliation" (`LaunchSucceeds`). A claim that moves the obligation to another
profile claims whatever is first by then, without the identity check that
PIPELINE.md puts before `in_flight` (`Claim`). Whether convergence is required is
decided before the launch, so that a first publication by the child releases
the obligation without its record (`Before`); `ReleaseIsConverged` says so. The code would also merge a
new obligation into an ordinary item that is in flight under its key (72616);
the model has no ordinary items of sessions. In `CaptureLedger`, an empty transcript has no
materialization, and asking its size ends the watch's pass (40679).

## 5. What is proved

TLAPS checks the following for every value of the constants that satisfies the
named assumption of the module: `PublishConstants` (components, initial file
set, attempts), `IngressConstants` (events, limit, signals, faults),
`JobConstants` (sessions, copies, signals, limit, faults), `RetryConstants`
(sessions, captures, profiles, attempts, limit, faults), `CaptureConstants`
(sizes, changes, publications, crashes), `ReconcileConstants` (processes,
consumers and their dependencies, attempts, publications, progress writes,
crashes), `LiveTailConstants` (pieces of each epoch, epochs, the texts that may be
projected, projections, shard size, faults; `Times` is any set) and
`CatalogConstants` (what is read, attempts to read; `Identity` is any function).

| Theorem | Statement |
|---|---|
| `SessionPublishProofs!TypeCorrect` | `TypeOK` |
| `OriginalsSurvive` | recovery never loses a component of the last-good file set |
| `LastGoodSurvives` | it leaves exactly the last-good set if every component existed at the start |
| `IntentsAreCommits` | with no journal open, records and receipts are those of the committed attempts |
| `CommitsAreFinal` | the action property `CommitIsIrrevocable` |
| `PublicationIsAtomic` | refinement of `AtomicPublication`, if every component existed at the start |
| `HookIngressProofs!TypeCorrect` | `TypeOK` |
| `SignalsSurvive`, `SignalsCountOnce`, `ReplayIsExclusive` | `NoSignalLost`, `CountedOnce`, `OneReplayAtATime` |
| `HookJobsProofs!TypeCorrect` | `TypeOK` |
| `IntentSurvives` | `IntentKept`: a queued signal stays covered by a job as new, or in the worker's hand |
| `FilesStayFew` | `FilesBounded`: a session has at most four job files in the queues |
| `NamesSuffice` | `NamesLeft`: there is a free name for every job whenever `MaxCopies` is at least 3 |
| `RetryQueueProofs!ObligationSurvives` | `ObligationKept`: one obligation per session, bound to the newest capture, until that is projected |
| `RetryQueueProofs!TypeCorrect` | `TypeOK`, with the bound on the attempts of a cycle |
| `DownstreamIsProven` | `StageIsProven` |
| `ReleaseConverges` | the action property `ReleaseIsConverged` |
| `CaptureLedgerProofs!TypeCorrect` | `TypeOK` |
| `LedgerBacked`, `PointersBacked` | `LedgerIsBacked`, `PointersAreBacked` |
| `CommittedGrows` | the action property `CommittedOnlyGrows` |
| `StableWriting` | `StableIsOneWriting`, if the transcript is not rewritten in place while a capture copies |
| `OutboxReconcileProofs!TypeCorrect` | the types of all variables, with the bound on the attempt counter |
| `CommitsOnce`, `CompletionsAreBacked` | `OneCommitPerOperation`, `CompletionIsBacked` |
| `WritesAreFenced` | the action property `FencedWrites` |
| `RunsOnce` | `HandlerRunsOnce`, without progress writers (`NoProgress`) |
| `PredecessorsFirst`, `RetirementsAreProven` | `DependenciesFirst`, `RetirementIsProven`, for the targeted route alone (`Alone`) |
| `CompletionsAreFinal` | the action property `CompletionIsFinal`, for the targeted route alone |
| `LiveTailProofs!TypeCorrect` | the types of all variables, and that what a manifest names is finite |
| `ManifestStaysExact`, `AnswersAreExact` | `ManifestIsExact`, `AnswerIsExact` |
| `CatalogProofs!AnswersAreLastGood` | `CurrentIsLastGood`, if the session was published before (`SourcesThere`), whichever attempts share an identity |

The inductive invariant of `SessionPublish` (`IInv` in
`SessionPublishProofs`) is needed because what recovery would leave depends
on where the publisher or an earlier recovery has stopped. It says, besides
types: how journal, memory and program counter agree (`JournalOK`,
`ControlOK`); which records and receipts may exist (`RecordsOK`); which staged
components are still in the stage (`StageOK`); and for every operation of an
open journal which of final path and backup holds the last-good content, that
is, whether it is untouched, displaced, replaced, or put back (`AllKept`). There
is one lemma per action with one step per conjunct, and the recovery actions
are proved once for both places that call them. The hypothesis
`InitialFiles = Comp` of two theorems is what `MCPublishNewPath.cfg` shows to be
necessary.

The invariant of `HookIngress` adds which envelope is claimed at which step
(`ReplayOK`) and, per event, the exact balance of signals at each step of a
merge (`CountsOK`).

That of `HookJobs` is needed because between the decision on a job and its
unlink the archive may still lack what the job stands for, or already lack what
a hook has queued since. It says that nothing is newer than the transcript
(`VersionsOK`), which files the worker still counts on at each step although
hooks write them as well (`FilesOK`), and which signals the job in hand answers
(`AnswersOK`). The number of files has an invariant of its own (`BInv`): at each
step of the worker, which files of a session may have other names than the
stable one, and whether the worker holds one. A dead worker's two leftovers are
merged by the next one before it renames another. From it follows that three
names besides the stable one are always enough (`NamesSuffice`): `MaxCopies = 3`
in the runs takes no step away that the code could take, for any number of
signals and faults.

That of `RetryQueue` is a predicate on queues (`Good`): session items are
obligations that fit what is captured and projected (`Fits`), one per session,
and a session without one owes nothing. Each change of the queue is built of
`With`, `Without`, `Rekeyed`, `Upsert` and `Reconcile`, and there is one lemma
for each that it keeps `Good`, so that an action's proof names the operators it
uses. What the dispatcher has read may be old when it is used; captures,
projections and convergence only grow, which makes it true still
(`DispatcherOK`). The bound on attempts needs a second invariant (`XInv`): an
item that nobody attempts has fewer attempts than `MaxAttempts`, its capture's
number and the faults together (`Calm`); one that is being attempted may have one
more, for the capture that the attempt began with (`Claimed`). A newer
capture, or the fault of a crash, makes up for an attempt that is never settled.

That of `CaptureLedger` is needed because a materialization may run ahead of
the ledger, and a capture works on copies of what it has read. It says that every
materialization begins with its committed blocks and every committed block has
its file (`LedgerOK`), that the blocks in the capture's hand are those of its
materialization until they are committed, and extend the committed ones
(`CaptureOK`), and that overlay, capture state and a staged state name committed
blocks and nothing behind the overlay (`PointersOK`). For stable captures,
`WritingOK` follows the inode: as long as it is the one that the capture has begun
with, everything the capture holds is of the writing found there, and so is the
last committed epoch if its inode is still the transcript's. `MCCaptureSplice.cfg`
shows that its hypothesis, `InPlaceIsQuiet`, is necessary.

That of `OutboxReconcile` (`IInv`) is needed because a call knows things of its
operation, such as that the handler has not committed under this key, that the
stores say nothing of by themselves. What such a call knows at each step is
`CallOK`; it holds on because the lock keeps other calls away, and in spite of
progress writers, which take no lock. These may undo a completion and set the
attempt counter back; that the counter stays bounded all the same is because
every writer that can set it back has read it before and does so once
(`StoreOK`, `Counted`).
That a handler runs once per record is inductive with `OneRunInv`: whatever
receipt there is belongs to the attempt that the next call will be at. A
progress write raises the counter and breaks just that, so `NoProgress` (`MaxProgress
= 0`, as in the run `reconcile`) is necessary, as `MCReconcileRerun` shows. What
is proved for the targeted route `Alone` (without the sweep, too) is false
otherwise, as section 4 says: a progress write, or the sweep's retirement between
`Verify` and the recheck, makes the code withdraw a completion. `FinalInv` says
that completions, their predecessors and the receipts in a retirement file stay
as they are, so that what is read before the lock need not be read again.

That of `GoalCatalog` joins the invariant of the publisher (`IInv`) with `CompOK`,
which contents of a component are at the final path, in the stage or last-good,
and with what the reader holds (`ReaderOK`). A rollback may put back the very
file whose watermark the reader has noted, after the reader has read its
replacement. The invariant therefore keeps apart the watermarks of contents that
are gone for good (`Gone`) and what was read of an attempt that cannot commit any
more (`Doomed`); `Moves` describes a step of the publisher as far as it matters to
readers. `SourcesThere` says that the session was published before. It holds in
`MCCatalog.cfg`, and `MCCatalogFirst.cfg` shows that it is necessary: where the
index is new, recovery may leave it behind, and so content that is not `Gone`
although its attempt is `Doomed`. `Torn` only
rules out two identities; two attempts of one, of which one is doomed, remain
(`Indistinct`).

That of `LiveTail` is needed because the manifest is right about a text that has
grown since, or is gone, when somebody reads it. `Exact` says what a manifest must be:
its frontier is the last line end of the text that was captured when it was made, and
its shards, in order, hold lines of that text only, and all of them that the
manifest's projection lacks. `ManifestsOK` says so of the manifest in the
capture's hand, on disk, and under the overlay's digest (`Kept`), each about the prefix
of the present text that its `captured` names. Text that is appended leaves the
prefix alone (`TextGrows`), and a new epoch sets every older manifest aside.
`SearchOK` gives the same to a search for the text it began with, and says that
what is found is the matches of the shards that have been read. `FilesOK` has
what is written before it is named and not named before it is unlinked. The step that
makes a manifest is proved in three parts: what is retained and continued is exact
for the old prefix (`FrontierIsExact`), what `Shards` cuts in pieces of a size is the
retained entries and the new ones in order (`WhatIsWritten`, `PlannedShards`), and so
the new manifest is exact for the whole text (`PlannedManifest`). That nothing is
lost or misnumbered where a manifest was begun at a projection of another file, or
in the middle of a line, is not true, as `AnswerIsAlwaysExact` shows with
`MCLiveTailRefs.cfg` and `MCLiveTailTorn.cfg`: `own` is the necessary hypothesis. That a torn line's number is counted, so that
what comes after the count is beyond the projected bytes, is `UncountedIsBeyond`. Lines and shards
are sets, counted with `Cardinality`, which is what lets a proof do without
induction over a sequence; greatest elements come from the well-foundedness of the
naturals (`Greatest`).

Only model-checked: every liveness property and `ServedWhenQuiet` (the prover has no
rules for fairness).

## 6. Not modelled

See `PROJECT.json`, "components", for each part and the reason. In short: parts 10
to 13 of the plan are to come; projection building, search, embeddings,
evaluation and telemetry are computations on data or offline tools whose
correctness is not a matter of order or failure; the readers besides the goal
catalog keep no state and promise less. They are
most of the repository's lines, so the models stand for a small share of its
text and for most of what it writes under a lock, a journal or a cursor.

Hazards without a property are of two kinds: those whose property fails, which a
configuration of section 4 shows, and those of the parts to come - the stage
that was built before the fence was taken (36319), the coordinator state (76058)
and the empty transcript (40679).
