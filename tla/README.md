# Everos: formal models and proofs

Everos is a memory server for coding agents. A plugin (`src/hooks`) sends
conversations to the server's `/add` and `/flush`; the server cuts them into
memory cells, writes memories as markdown files under a memory root, and keeps
a LanceDB index that search reads as a projection of those files. Strategies
that run offline (clustering, profiles, skills, reflection) derive further
memories. The markdown files are the source of truth; SQLite databases
hold the queues, buffers and run records.

Paths below are relative to `src/src/everos/` unless they start with `src/`.
The repository has no tests and no docs directory; where a promise is quoted it
comes from a docstring or a comment.

## 1. Inventory

| component | state | operations | what is hard | what makes it correct |
|---|---|---|---|---|
| cascade queue (`infra/persistence/sqlite/repos/md_change_state.py`) | table `md_change_state`, one row per md path | upsert, force_enqueue, claim_pending_batch (SELECT, UPDATE, SELECT), mark_done, mark_failed, recover_processing, reset_retryable_to_pending | re-enqueue while a claim is in flight; two processes claiming | a verdict of a superseded claim loses; a row is in one batch; retries end |
| cascade watcher, scanner, reconciler (`memory/cascade`) | observer thread, coroutines scheduled from it, one sweep with its walk and snapshot | on_created .. on_moved, scan_once, reconcile | events late, reordered or lost; a sweep decides on two reads made at different times | the sweep alone brings the index to the files |
| cascade worker and orchestrator (`memory/cascade/worker.py`, `orchestrator.py`) | claimed batch, one job per row | drain_once, _process_one, start, stop, drain_until_empty | edit during a handler, crash between write and verdict, batches that `gather` leaves early | a settled row mirrors its file; a stale verdict loses |
| cascade handlers (`memory/cascade/handlers`) | none of their own | handle_added_or_modified, handle_deleted | two stores in one handler (knowledge_topic) | after success all stores show the file |
| markdown writer, daily writers (`core/persistence/markdown/writer.py`, `infra/persistence/markdown/writers/base.py`) | the files; one lock per path and writer object | append_entry, append_entries, patch_frontmatter, write | read-modify-write over awaits, several writer objects, cancellation during `os.replace` | a reported write stays, entry numbers are unique and count correctly |
| profile, skill, knowledge writers | whole files | write | read, LLM, overwrite | no update is lost |
| offline engine, OME (`infra/ome`) | dispatches, jobs, run records, counters, in-flight count, slot semaphore | emit, trigger_manual, dispatch_run, start, stop, scan_and_resume, wait_idle, wait_for_event | retries and slots, crashes at every step, failing stores, emitting strategies, stop against dispatch | one recovery per run, every run accounted for, gates paid, runs end |
| memorize service (`service/memorize.py`, `_boundary.py`, `_session_lock.py`) | `unprocessed_buffer`, `memcell`, session locks | add, deferred add, flush | timeouts cancel anywhere, two transactions, client retries, concurrent calls | no acknowledged message is lost or folded twice |
| extraction pipelines (`memory/extract/pipeline`) | none | extract, write episodes, emit events | half-done work when a call fails | an answered cell has its episodes |
| boundary detection (`src/everalgo/packages/everalgo-boundary`, `.../everalgo-agent-memory`) | none | detect_boundaries, adetect | index arithmetic between chat and trajectory positions | cells and tail partition the slice |
| strategies (`memory/strategies`), partition locks, cluster repository | cluster rows, profile and skill files | one body per strategy | non-idempotent effects before a failure, at-least-once retries | a retried run has the effect of one run |
| reflection (`memory/reflection/orchestrator.py`) | cluster rows, deprecation marks | merge, emit, wait_for_event, deprecate | deprecates sources after waiting for runs | nothing is deprecated before its replacement is indexed |
| knowledge service (`service/knowledge.py`) | documents in files and SQLite | upload, replace, delete | several stores, no common transaction | stores agree after a failure |
| hooks plugin (`src/hooks`) | state file per session | Stop, SessionEnd, UserPromptSubmit, flush watcher | short-lived processes racing sleeping watchers on one file | captured messages are flushed in the end, none captured twice |
| LanceDB persistence (`core/persistence/lancedb/repository.py`) and its maintenance (`memory/cascade/worker.py`) | one write lock per table, one optimizer state per kind | upsert, delete, optimize, prune, rebuild_indexes; runner, rebuild loop, heartbeat, supervise, stop | tasks that await each other under a timeout which cancels what is awaited; commit conflicts | locked work loses commits to other processes only; what is written is merged in the end |
| backfill (`memory/cascade/_backfill.py`) | none of its own: rows without vectors, unclustered items, clusters without skills | three phases: probe, scan, confirm, write or emit, drain | runs beside a server; interrupts and reruns; partial failures behind an exit code | exit code 0 means done; no vector of another text; no item twice |
| search (`memory/search`, `src/everalgo/packages/everalgo-rank`) | none | filter compilation, recalls, fusion, heap expansion, fetch, attachment | several reads at different awaits; facts and episodes evict each other at top_k | only allowed rows; a ranking within its limits; the best facts are not lost |
| get, memory root lock, API, CLI, TUI, configuration, observability, other `everalgo` algorithms | | | | see section 7 for why they are left out |

How they interact: a request runs memorize under its session lock, which writes
the buffer and memcells (SQLite), calls the pipelines, which call the daily
writers (markdown) and emit events into OME; OME runs strategies, which write
more markdown and emit more events; the file system tells the watcher (or the
scanner finds out), the cascade queue gets rows, and the cascade worker turns
files into index rows. The server is one asyncio process; the `cascade` CLI
commands are other processes on the same files, and so are the hooks of an
editor session, which talk to the server over HTTP and to each other over a
state file.

## 2. Modules

| module | models | kind |
|---|---|---|
| `MdChangeState` | the rows of the queue: every UPDATE as an operator on a row | operators |
| `Cascade` | queue, watcher, scanner, worker, CLI, crashes | system |
| `Projection` | what the cascade promises a reader of the index | abstract specification |
| `CascadeProofs` | types, two safety theorems, refinement | proofs |
| `OfflineEngine` | the offline engine | system |
| `OfflineEngineProofs` | types, four safety theorems | proofs |
| `EntryLog` | what a daily file promises its writers | abstract specification |
| `DailyLog` | daily writers, reflection's patches, locks | system |
| `Memorize` | add, flush, detection, pipelines | system |
| `MemorizeProofs` | types, four safety theorems | proofs |
| `Maintenance` | optimize, prune and rebuild of the LanceDB tables, the table lock | system |
| `MaintenanceProofs` | types, two safety theorems | proofs |
| `Knowledge` | documents: requests, files, two handlers, three tables | system |
| `KnowledgeProofs` | types, three safety theorems | proofs |
| `Reflection` | clustering of episodes and the replacement of clusters | system |
| `ReflectionProofs` | types, three safety theorems | proofs |
| `Skills` | clustering and skill extraction as runs of an engine | part of `Backfill` |
| `Backfill` | `cascade backfill` beside a server, on top of `Skills` | system |
| `MarkdownProofs` | `DailyLog`: types, safety and refinement; `Backfill` and `Skills`: types, four safety theorems | proofs |
| `FlushTimers` | the hooks plugin | system |
| `FlushTimersProofs` | types, two safety theorems | proofs |
| `Search` | filters, recalls and ranking of a search | system |
| `MC*` | model values and instances for TLC | model checking |

Composition: `Cascade` is built on `MdChangeState`'s rows and maps to
`Projection`; `DailyLog` maps to `EntryLog`; `Backfill` extends `Skills` with the
command, the cascade and the server around it. `Knowledge`, `Reflection` and
`Backfill` contain the cascade reduced to what `Cascade` shows of it (a changed
path is worked on after the change, what changes meanwhile is worked on again),
and runs of the engine reduced to what `OfflineEngine` shows of them (attempts,
retries, no run twice, cut by the end of the process).

### Cascade

State: `disk` (version of each file, 0 for none), `written` (highest version
so far), `index` (version the LanceDB rows of a path were built from, `Mixed` when
they come from several), `table` (the queue), `tasks` (watcher coroutines not yet
run), `scan` and `claim` per process, `job` per batch. A version stands for content
and mtime at once, so two edits are assumed to have different mtimes. History:
`holder` (which batch's UPDATE claimed the row) and `crossed` (paths claimed beside a
handler still at work on them).

Claiming is three actions because the code has three statements (`Pick`,
`UpdatePicks`, `LoadBatch`); a job reads the file, upserts rows and deletes the
stale ones (`ReadFile`, `UpsertRows`, `DeleteStaleRows`, or `DeleteRows`), with an
edit, a failure or a crash between any two, and ends with a verdict (`Mark`).
`worker.py:651` is a `gather` without `return_exceptions`: when a verdict cannot be
written (`MarkFails`, `OtherMarkFails` for a sibling's row), the loop claims again
while the other handlers of the batch go on. They move from the batch `Server` to
the batch `Left` (`Leave`) and are not waited for by `Pick`. `ClaimFails` is an
exception in a claim after its UPDATE. `Notify` is the observer thread,
`HandleNotice` and `RunTask` the coroutine it schedules. The CLI is a process with a
scanner and a worker of its own, plus `ForceEnqueue` and `FixApply`; an exception
of its verdicts ends it like a crash.

Simplified: the walk over all paths is one step; each LanceDB call is atomic; of one
path at most one handler at a time is at work outside an awaited batch (a bound: a
further one needs a further failing verdict); the order in which a sweep emits its
decisions is free; `lsn` ties are ignored; the claim for a path no handler matches
is not modelled. LanceDB maintenance is a module of its own.

### OfflineEngine

A run is `<<event, strategy, incarnation>>`; incarnation `i + 1` is the
resumption of `i`. `dispatch` follows one `emit` through routing and gates,
`run` the APScheduler job and the runner's attempts, `rows` the run records
(newest last, trimmed to `MaxRecords`), `counter` the gates, `active` and the
idle event the in-flight accounting, `phase` the engine's life cycle. Store
failures are explicit (`DispatchRaises`, `StartFails`, `MarkFails`,
`ResumeFails`), bounded by `MaxErrors`. A strategy body is left open: it may
emit, succeed, fail or break its contract.

Simplified: each start builds a new engine object, as the server does; events
come from outside one after the other; the semaphore's FIFO order appears only
as fairness; `Start` may leave any RUNNING row out of recovery, which covers
the 30-minute staleness filter; idle and cron triggers are events; whether a strategy is
enabled and applies to an event is free at each dispatch.

### DailyLog

One file, any number of tasks. A job goes through `queued` (waiting for its
writer's lock), `locked`, `counted` (the entry count is read), `merged` (the
file is read and the new text built), `replaced` (after `os.replace`), and is
then reported to its caller. `Writer` says which MarkdownWriter object a task
uses: the server builds two for one file (`service/memorize.py:85`,
`memory/strategies/reflect_episodes.py:46`), and so does the run. `Abort` is an
exception at any of these points, or a cancellation; one that comes while a thread
runs `os.replace` (`writer.py:158`) releases the lock and leaves the replace to the
thread (`adrift`), which does it later, under nobody's lock (`Land`). Only tasks
under memorize's `asyncio.timeout` are cancelled (`Cancelled`). `Crash` kills tasks
and threads. History: `passed` in a task (the file was replaced under it since its
first read), `raced` (such a write has landed). `EntryLog` says what callers may
rely on until then; `ImplementsEntryLog` maps the file's entries and marks to it.
`DailyInit`, `DailyNext` and the like carry their prefix because `MarkdownProofs`
extends this module and `Backfill` both.

Simplified: the order of lock acquisition is free (asyncio is FIFO); a file a
user edits by hand during a read-modify-write is not modelled; a temporary file
left by a cancellation is not state.

### Memorize

One session. Each call walks through the awaits of `_memorize_locked`; the
phases are named after what has been done. Messages are numbered in the order
of (timestamp, id); detection chooses any set of cuts the LLM or the hard
limits could choose (`Cuts`), and `Cells`, `Unclosed`, `Names` and `LastOf`
are the arithmetic of `AgentBoundaryDetector` and `_split_messages_per_cell`.
`Fail` is any exception or the timeout, at every await; `Crash` loses the locks
and calls; `Send` may send a call again with the same payload. `acked` is the
set of calls the client got an answer for.

Simplified: two messages never share an id; `conversation_status` is written
and never read, and left out; the branch for a missing LLM client cannot be
reached (`get_llm_client` raises first); an agent pipeline that outlives a
failed call finishes together with the failure. Agent requests may open with tool
rows, as the batches of the hook can (`src/hooks/stop.py:93`).

### Maintenance

Per kind: `state` (`_KindOptimizerState`), `runner` and `rebuild` (its two
tasks), `writer` and `lock` (`LanceRepoBase._write_lock`), and for the whole
worker `loop` (the rebuild loop with the kinds it has still to visit),
`strikes` (`_supervise`'s count) and `phase` (the steps of `stop()`). `Begin`,
`Resume`, `LockPrune`, `RunCommits`, `RunConflicts` and `RunFails` are the runner
with its light, heavy and fallback branches; `LoopHead`, `GiveUpOnRunner`,
`LockRebuild`, `RebuildCommits`, `RebuildConflicts`, `RebuildFails` and `Retry`
the loop; `GiveUpOnRunner` and `GiveUpOnRebuild` are the timeouts, which cancel
the task that is awaited. `OtherProcessCommits` is a CLI on the same tables.
`raced`, `tail` and `lost` are history: who committed while maintenance was at
work, rows written since the last optimize began, and to whom a locked commit
was lost.

Simplified: a table's manifest is who committed during an operation; the end of
a task and the next move of the task awaiting it are one step, as asyncio wakes
waiters first; the deadline of a locked operation is one of the failures.

### Knowledge

One document with one topic. `disk` maps a place (directory name, and how often
it is hidden behind `.<name>.backup`) to the versions of `index.md` and the topic
file; `doc`, `lance` and `sql` are the three rows; `queue` and `job` the cascade;
`req` the request. `Create`, `Replace`, `Delete` and `Patch` begin a request and
`BackUp` ... `Upsert` are its steps between awaits; `Document`, `Skip`, `Read`,
`UpsertLance`, `UpsertSql` and `DeleteRows` are the handlers, and `Skip` the digest
check that looks at the LanceDB row only. `shutil.move` into an existing directory
puts the source *inside* it (`Moved`). History: `life` (what a client knows),
`blind` (a replacement began before the cascade had caught up, or while a second
directory had files of it), `cut` (a handler ended between its writes, or for good),
`stolen` (a handler took the LanceDB row of another directory for its own) and
`nested` (a patch moved its directory into another one).

Simplified: requests come one after the other; topics are one; a patch that
finds its directory gone fails before it changes anything and is a stutter;
LLM classification is a free choice of the directory.

### Reflection

`text` is what an entry contains, in terms of the episodes it stands for,
`ended` the deprecated entries of the files, `row` the LanceDB rows, `members` and
`count` the cluster tables. A clustering run goes `List`, `Save`, `Emit`, under the
partition lock of its strategy; a reflection `Fetch`, `WriteMerged`, `Extracted`
(`wait_for_event`), `Resolve`, `Patch`, `Hide`, `Remove`, `Add`, `Metadata`, one per
store. They take different locks and interleave. `Extracted` may come before the
runs it waits for are over, since `wait_for_event` may return early. History:
`left`, `raced`, `redone`, `torn` name what the properties except; `left` is set where the
first mark is written, in `Patch`, and again in `Hide`.

Simplified: which cluster is nearest is free; prompts, candidate limits and the
choice between merge and update are abstracted; one reflection at a time, as the
weekly run goes cluster by cluster.

### Skills and Backfill

`Skills`: items become members of clusters (`Save`), a clustered case asks the
LLM (`Ask`), whose answer is any sequence of operations on the skills shown to it
(`Answers`), then SKILL.md files are written one by one (`Write`), the ones a rename
left are deleted (`Reap`), and the cascade indexes them later. A run that is cut
leaves a RUNNING row (`stale`), which the next server resumes.

`Backfill`: `cli` is the command with its phase list, scan, selection and exit
code; `Probe` (the lock preflight), `Scan`, `Decline`, `Embed`, `UpdateRow`,
`VectorsDone`, `StartEngine`, `EmitItem`, `EmitSource`, `Drained`, `Sync` and
`Interrupt` are its steps. `Boot`, `Halt`, `Extract`, `Edit` and `Index` go on beside
it. `chased`, `redone`, `lost` and `asked` are history, and so is the field `files` of
`cli`: the skill files of the last probe that no run has rewritten since (`Runs`).

Simplified: one owner of each kind; batches of phase 1 are one row; confirmation
prompts are a free choice; the rate of emits and the drain timeout are not times
but choices.

### FlushTimers

`file` is a session's state file, `hook` its hook process between reads and
writes of that file, `watchers` the detached processes, `server` what the server
holds and has extracted, `active` the marker of the project's last session. A
Stop hook goes `Capture`, `Add`, `Count`, then `FlushFull` and `ResetFull` at the
threshold, or `ArmIdle` and `ArmMax`; SessionEnd goes on to `Seal` and
`DeleteState`; `Prompt` flushes the session the user left (`SwitchFlush`,
`SwitchReset`). A watcher wakes, compares its epoch or window, flushes and resets.
`CountedPast` is the write of counters that were read before somebody reset them.
`Kill` is a hook killed at its timeout anywhere.

Simplified: tokens and messages share one threshold; recall itself changes
nothing and is left out; a watcher wakes at any time; a transcript has no half-written
last line (`src/hooks/lib/capture.py:186-203` skips one while the cursor passes it).

### Search

`CompileNode` is `compile_filters` down to where it puts parentheses and ANDs
(`Eval` gives a clause SQL's meaning), `Meaning` what a client means by a filter.
A request then goes through the awaits of `_search_episodes`: `KeywordSearch`;
`VectorFacts`, `VectorFetch`; `HybridSparse`, `HybridDense`, `HybridRank`. Between
them `IndexChanges` makes a row appear, vanish or deprecated. `RrfOrder` and
`HeapExpand` are the fusion and the competition of facts and episodes for top_k
places; `Reshape` regroups facts under episodes. `seen` collects what was allowed at
some moment of the request.

Simplified: scores are integers without ties (RRF's sums are scaled by a million);
one read of a table is atomic; every row has a vector (`recall/episode.py:70-92` leaves
the others out); the candidates of an episode are not capped at
`max(top_k * 2, 20)` facts (`manager.py:394`); old facts whose parent is a memcell
(`hierarchy.py:40-42`) are left out.

## 3. Runs

All runs pass.

| run | bounds | question | states |
|---|---|---|---|
| `cascade_watch` | 1 path, 2 versions, server and one CLI in turns, 1 fault, the watcher at most 2 changes behind | do settled rows mirror the file, do stale verdicts lose, is `Projection` implemented | 1.4 M |
| `cascade_converge` | 1 path, 2 versions, no events, an outage, 4 faults | does the index converge, do retries end | 423 k |
| `engine_runs` | 2 strategies, 1 gated, 2 events, 1 slot, 3 starts, 1 failing store | accounting, records, gates, recovery | 340 k |
| `engine_live` | 1 slot, 2 strategies, 2 events, 2 starts | does every enqueued run end | 14 k |
| `daily_log` | 3 tasks, 2 writer objects, 4 jobs of up to 2 items, 4 entries in all, 2 tasks that may be cancelled | what can drop an entry, is `EntryLog` implemented until then | 672 k |
| `memorize` | 3 messages, 2 requests and a flush, one sent twice, 5 dialogues | are messages kept, folded once, extracted, flushed | 289 k |
| `flush_timers` | a session of 3 lines (one without a message), 2 turns and an end, one the user switches to, threshold 2, 1 fault | is nothing skipped, is an open window guarded, is everything flushed in the end | 532 k |
| `maintenance` | 1 kind, 2 sweeps, 2 writes, 3 faults or timeouts, alert threshold 2 | who loses commits, is stop complete, is the tail merged | 148 k |
| `knowledge` | 2 directory names, 2 versions, 2 requests, 1 fault, 1 crash | do rows mirror files, are topics searchable, can a document vanish | 771 k |
| `reflection` | 3 episodes, 2 merged ones, 2 clusters, 2 attempts, 2 reflections, 1 fault | is nothing forgotten, do clusters count and drop members | 0.9 M |
| `backfill` | 1 episode, 2 cases, 2 of the items old, 2 clusters, 2 skill names, 2 starts, 1 fault | vectors, clusters, exit code, lessons | 650 k |
| `search` | 4 episodes, 5 facts, 3 filters, top_k 1, 2 and unlimited, 48 scorings, 1 change of the index during a request | is an answer allowed, ranked, and the best there is | 470 k |

Why the bounds are enough. Every cascade property is about one path at a time.
Two versions and a removal give every relation between what a job read, what
the row asks for and what is on disk; one crash, lost event or failing verdict can
hit every step (a batch that is left early needs one fault, and then a handler of it
meets the next claim), and 4 faults exceed the retry budget of 2. Two changes the watcher
has not enqueued are enough for their upserts to run in either order; the bounds on them
and on the entries of the daily file are `CONSTRAINT`s of the MC modules, so the
specifications the proofs are about do not have them, and both runs hold without them too
(3.6 M and 4.1 M states). The engine needs two events to
let dispatches and gates interleave, three starts to crash inside a recovery of
a recovered run, one slot for the deadlock question; `MaxRecords` stays above
the rows a run can make, so the ring buffer trims nothing. (Two slots with two
starts hold too, 111 k states.) Two memorizing tasks and one patch are all the
kinds of writers; four jobs let a late writer, or a replace that outlived its call,
meet two finished ones. Memorize
needs one multi-message call, one single-message call and a flush to get late
messages, slices with a tail and an empty buffer. Of the five
dialogues three are of agents, two of them with tool rows before the first message.

`flush_timers` needs two turns to let a watcher of the first meet counters of the
second, an end, and a second session whose prompt flushes the first; a threshold
of 2 lets a turn reach it or not. `maintenance` needs three faults to pass the
alert threshold and take the fallback, two sweeps to visit a kind after a
conflict, two writes to make a tail while an optimize runs; kinds share nothing
but the loop, which visits them in turn. `knowledge` with two requests lets a
replacement, a move or a deletion meet what the cascade has not yet indexed, and
one crash any step of it. `reflection` needs three episodes to let one come
between two snapshots of a merge of the others, and a second reflection to merge
a merged one. `backfill` with two starts has the command beside a server, after
one, or twice; with three starts (3.8 M states) it holds too. `search` has an
episode with two facts, one whose fact beats it, one of another owner, and one
that only its fact recalls; limits of 1 and 2 are exceeded by both facts and
episodes.

Symmetry is used for the memorizing tasks (`daily_log`), directory names (`knowledge`), episodes, merged entries and
clusters (`reflection`), clusters and skill names (`backfill`); these runs check
invariants and action properties only, and no definition tells such values
apart.

Deadlock checking is off for the engine (it halts after its last start),
Memorize (all requests are done), the plugin (no transcript is left),
maintenance (stopped), and for knowledge, reflection and backfill (nothing is
left to do); elsewhere it is on.

### Fairness

- `cascade_converge`: the scanner's and worker's loops and every claimed job go
  on, because asyncio runs each ready task, and the operator restarts a crashed
  server. A claim that loads its rows is *strongly* fair: a sweep can re-enqueue
  the row of a missing file between a claim's UPDATE and SELECT and so empty
  the claim; the scanner sleeps 30 s between sweeps and does not hit a gap of
  milliseconds every time. Nothing is assumed of users, of events or of success.
- `engine_live`: loop tasks go on, strategies end, `start()` ends. A waiting
  run's StartAttempt is strongly fair because `asyncio.Semaphore` is FIFO. A
  crash is never fair and may happen at any time up to `MaxStarts`.
- `flush_timers`: a hook that was started and a watcher that was spawned go on,
  because they are processes. Nothing is assumed of the user, who may never
  come back, and nothing of calls to the server.
- `maintenance`: tasks that are not cancelled go on, the heartbeat keeps
  beating, the loop and `stop()` take their steps. No commit has to succeed but
  what the bound on faults implies.

## 4. What disagrees with the repository's words

Each of these is a definition of the module named, quoted from a docstring or
comment, or a property of a run without one of its exceptions. Listed as an INVARIANT
(the temporal ones as a PROPERTY) of the run named, TLC finds the counterexample told
here.

1. `EachRowInOneBatch` (Cascade; `cascade_watch` with two paths and
   `Overlap = TRUE`): `md_change_state.py:219-221` says each row lands in exactly
   one batch. The closing SELECT of a claim (line 263) returns all picked paths that
   are `processing`, also those another process claimed meanwhile.
2. `ChangeTypeIsAHint` (Cascade, `cascade_watch`): a file created between the
   scanner's walk and its snapshot is enqueued as deleted with its own mtime. The
   worker (`worker.py:795`) deletes its index rows without looking at the file, and
   the row settles so that no sweep repairs it, although
   `tables/md_change_state.py:65-66` calls the type a hint.
3. `StaleVerdictsLose` and `SettledRowsMirrorDisk` with `Paths` for `Paths \ crossed`
   (Cascade, `cascade_watch`): `md_change_state.py:326-328` says a re-enqueue wins over
   a terminal write tied to a stale claim. When a verdict cannot be written, `gather`
   (`worker.py:651`) returns and the loop claims again beside handlers still at work. A path
   edited meanwhile is claimed a second time, and as the guard of `mark_done` looks at the
   status only, the old handler's verdict settles the new claim; or the old handler writes
   its rows last. The row is `done` for content that is not in the index.
4. `NothingOverwritten` (DailyLog, `daily_log`): the writers eliminate "the
   read-modify-write race that previously allowed concurrent callers to silently
   overwrite each other's appends" (`writers/base.py:98-99`). `service/memorize.py:85` and
   `memory/strategies/reflect_episodes.py:46` build separate writer objects, whose locks
   do not exclude each other (`core/persistence/markdown/writer.py:23-36`): a reported
   entry is overwritten. With one writer object it still is, when a call is cancelled
   during `os.replace` (`writer.py:158`): the replace lands after the lock was given away.
5. `AckedRowsKept` (Memorize, `memorize`): everalgo's `agent_memory/boundary.py:45` states
   as an invariant that cells and tail have all the items. Tool rows before the
   first chat message are in no cell and, once a cell is closed, not in the tail
   (lines 94-130), so an answered call loses them. The server's
   `_split_messages_per_cell` (`_boundary.py:464-480`) then names a cell's messages
   by counting from the first row, and the ids are shifted.
6. `FlushLeavesNothing` (Memorize, `memorize`): `memorize.py:192` says the
   algorithm guarantees `tail=[]` for a flush. A flush of tool rows only detects nothing
   (lines 85-90 of the same `boundary.py`) and puts them back.
7. `LoopsDieLoudly` (Maintenance, `maintenance`): the rebuild loop awaits the runner and
   the runner's fallback awaits the loop's rebuild under `asyncio.timeout`, which
   cancels (`worker.py:935`). A cancelled task makes its awaiter end with
   CancelledError, which `_supervise` does not restart: the loop is gone without a
   word, which lines 173-174 and 938-941 mean to rule out.
8. `RetriesAreSafe` (Knowledge, `knowledge`): `handlers/knowledge_topic.py:8-11` says
   that a handler whose LanceDB or SQLite write failed is retried and that retries are
   safe, both writes being upserts. When the second write fails, the retry finds the
   digest in LanceDB and skips (line 101); an SQLite error is not even retryable. The
   topic is in LanceDB and never in SQLite. Without any failure, two handlers of one
   batch (a live directory and its backup) can write LanceDB in one order and SQLite
   in the other: the SQLite row is then deleted with the backup. And a topic whose LanceDB
   row was taken over by a copy elsewhere (history `stolen`) may end in neither
   table.
9. `FailedReplacementKeepsRows` (Knowledge): after a failed replacement the md
   files are restored, as `service/knowledge.py:551-557` says, but the cascade has
   indexed the backup meanwhile, finds the restored topic unchanged, and deletes
   the rows with the backup's path.
10. `OldDataPreserved` (Knowledge, `knowledge` with `MaxRequests = 3` and
    `MaxCrashes = 0`): `service/knowledge.py:549` says a replacement is atomic and
    preserves old data on failure. One that fails after `index.md` leaves its new
    directory behind; the cascade points the document's row at it, the next
    replacement backs up that leftover instead of the document, and a success then
    overwrites the only copy.
11. `MembersAreSafeToDeprecate` (Reflection): `orchestrator.py:844` calls its result
    safe to deprecate; it intersects the members of two cluster snapshots, while the
    merge had those whose row was indexed at the first.
12. `RetriesCountOnce` (Reflection, `reflection`): `repos/cluster.py:312-315` calls the
    upsert idempotent under the engine's retries. The member rows are; the count is the
    caller's, and a run that is repeated after its upsert counts its episode twice.
13. `PhaseThreeExtracts` (Backfill): the event phase 3 replays (`_backfill.py:1441`)
    lacks the body of its case and takes the quality default of `events.py:131`, which the
    extractor (everalgo's `skill.py:191`) skips: the phase extracts nothing and
    exits 0.
14. `VectorsComplete` (Backfill) excepts rows that only lacked their subject's
    vector: when that embedding fails, the row is passed over before it is counted
    (`_backfill.py:673`), and the exit code is 0.

Seen while modelling.

- *Cascade*: an exhausted row is not retryable and so not reset by `cascade fix
  --apply`, which `worker.py:134-135` says recovers it; the reconciler re-enqueues
  exhausted deletions; with two processes at once, too, one's verdict can settle the
  other's claim; a row whose verdict or claim failed stays `processing` until the file is
  edited or the server restarts, for no sweep re-enqueues a path whose mtime is the row's.
- *Engine*: `wait_for_event` takes a FAILED row ("retry pending",
  `run_record.py:79`) for terminal and does not see runs that have no row yet;
  `stop()` may cut a run enqueued after the engine was found idle (`engine.py:532`);
  RUNNING rows skipped at a restart are not reattached by the jobstore as
  `crash_recovery.py:6-7` expects.
- *Memorize*: request retries are deduplicated against the buffer only, not against
  memcells (`id_gen.py:6-8`).
- *Maintenance*: under sustained writes a runner never ends; the rebuild sweep
  waits for it, times out, cancels it and skips the kind.
- *Knowledge*: a delete that comes before the cascade has seen the document answers
  0 and the document appears afterwards; after a crash inside a replacement a delete
  removes the new directory and the backup is what search finds; two replacements at
  the same time can lose both directories; a handler takes over the row of another
  directory with the same id, so a late event of a backup can leave a document
  unindexed.
- *Reflection*: with four episodes and three reflections a merge of stale members
  occurs too; an UPDATE merges only the first of several old merged episodes; the
  facts' `deprecated_by` is written to the index alone and has no file behind it; a
  clustering run that listed a cluster before a reflection removed members of it puts them
  back, for the two take different locks.
- *Backfill*: phase 1 can put the vector of an old text beside a rewritten row,
  although the phase is documented as safe beside the server; a phase-2 run that is
  cut leaves a RUNNING row which the next server resumes, so that its item may be
  clustered twice; a cluster with any SKILL.md is skipped as a whole; a skill of the
  same name of another cluster is overwritten, and so is a skill that the prompt's limit hid;
  the digest of agent_skill leaves out cluster and sources, so a change in these alone
  is not indexed; dead letters and the drain timeout do not change the exit code; the
  CLI's hint to run the command beside a server meets the lock probe's exit code 3.
- *Profile* (read, not modelled): the index row's id is the owner alone
  (`memory/cascade/handlers/user_profile.py:83`), while `user.md` lives under an app and
  a project: the profiles of one user in two spaces overwrite each other's row.
- *Search*: a HYBRID answer can lack the episode with the best score, when a fact
  replaced it and was evicted later (`hierarchy.py:183`); VECTOR cuts to top_k
  before it fetches the parents, so facts of deprecated episodes take places and an answer
  may be empty; `min_score` is ignored outside HYBRID.

## 5. Proofs

TLAPS proves these for every number of paths, processes, tasks, jobs, calls,
episodes and so on, and every value of the bounds. Each is `Spec => [](...)`, or
`Spec => ...` for an action property or a refinement.

| module | theorem | property | hypothesis |
|---|---|---|---|
| `CascadeProofs` | `TypeCorrect` | `TypeOK` | |
| | `SettledCorrect` | `SettledRowsMirrorDisk` | `~ Overlap` |
| | `VerdictsCorrect` | `StaleVerdictsLose` | `~ Overlap` |
| | `ProjectionCorrect` | `ImplementsProjection` | `~ Overlap` |
| `OfflineEngineProofs` | `TypeCorrect`, `CountCorrect` | `TypeOK`, `ActiveCountsRuns` | |
| | `GatedRunsCorrect` | `GatedRunsArePaid` | |
| | `OnceCorrect`, `StatusCorrect` | `NoRunTwice`, `StatusIsWrittenOnce` | |
| `MarkdownProofs` (daily logs) | `DailyTypeCorrect` | `DailyTypeOK` | |
| | `WritesStay`, `FileIsALog` | `OnlyPassedWritesDrop`, `ImplementsEntryLog` | |
| `MarkdownProofs` (backfill) | `TypeCorrect`, `VectorsCorrect` | `TypeOK`, `VectorsAreOfTheirText` | |
| | `ClusteredCorrect`, `LessonsCorrect` | `ClusteredOnce`, `LessonsStay` | |
| | `ExitCorrect` | `ExitZeroMeansDone` | |
| `MemorizeProofs` | `TypeCorrect`, `EpisodesCorrect` | `TypeOK`, `AnsweredCellsHaveEpisodes` | |
| | `AckedCorrect`, `FlushCorrect` | `AckedMessagesKept`, `FlushLeavesNoChat` | |
| | `FoldedCorrect` | `FoldedOnce` | `RequestsAreDistinct` |
| `FlushTimersProofs` | `TypeCorrect`, `SkippedCorrect`, `TimerCorrect` | `TypeOK`, `NothingSkipped`, `OpenWindowHasMaxTimer` | |
| `MaintenanceProofs` | `TypeCorrect`, `LossesCorrect`, `StopCorrect` | `TypeOK`, `LockedWorkLosesOnlyToOthers`, `StoppedIsQuiet` | |
| `KnowledgeProofs` | `TypeCorrect`, `RowsCorrect` | `TypeOK`, `RowsMirrorTheirFiles` | |
| | `SearchableCorrect`, `VanishesCorrect` | `CutTopicsAreSearchable`, `NothingVanishes` | |
| `ReflectionProofs` | `TypeCorrect`, `ForgottenCorrect` | `TypeOK`, `NothingForgotten` | |
| | `CountsCorrect`, `DeprecatedCorrect` | `CountsItsMembers`, `DeprecatedLeave` | |

Besides the ASSUMEs of the modules (kinds of constants, finiteness where
something is counted, a null value outside the sets it is null for) there are
two hypotheses. `~ Overlap`: the server and the CLI do not run at the same
time; without it the claims are false (section 4, item 1). `RequestsAreDistinct`: no
message is in two requests, which speaks of the clients and is evaluated by TLC on the
instance of the run; it leaves out the hook's larger resend after a lost answer
(`src/hooks/stop.py:119-121`).

In each module the property is a consequence of an inductive invariant `IInv`, which
TLC checked first on the run's instance (`Backfill`'s `TypeOK` is a part of it and not a
property of the run). The proofs go action by action.

*Cascade.* `SettledRowsMirrorDisk` is not inductive: a verdict
settles a row, so one must know what the job behind the verdict did. `IInv` adds
`Bounds` (no mtime or version anywhere is newer than the last write), `OneBatch`
(one active process, whose awaited batch is empty while it claims), `Claims` (what a
claim picked stays pending until its UPDATE, and outside `crossed` no handler left behind
is at work on a path of the awaited batch) and `JobsAgree`: of a path that is not in `crossed`
at most one handler is at work, awaited or left; its row is unsettled; and as long
as that row is still `processing`, it was not re-enqueued since the claim, so the job read
a version at least as new as the row's mtime, and a finished job has put exactly that
version in the index if the file still has it. A re-enqueue sets `pending`, which makes
the implication vacuous and the verdict lose. `Leave` moves handlers between the batches
without touching any of this, and a claim beside a handler puts its path in `crossed`.
`ProjectionCorrect` follows from the step lemmas, since writes to the index happen only
where the row is unsettled. `VerdictsCorrect` needs `Held` beside it: a row that is still `processing` is held by the
batch with a handler at work on it, or by the process that is about to load it.

*Offline engine.* `Records` says that a RUNNING row belongs to the last attempt of
the last incarnation of its run, `Incarnations` that a run begins only after those
before it ended, `Scanned` that what a start found RUNNING is over until it is
marked. Together they exclude a second life of a run and a second write to a row.
`ActiveCountsRuns` is inductive by itself once the set of active runs is known to be
finite. `GatedRunsArePaid` follows from `Gates`: routed events times the threshold,
plus the counter, never exceed the events counted.

*Daily log.* A task behind the lock works on copies, and so does a replace that outlived
its call. `DailyIInv` says that a task past `queued` holds its writer's lock (`Holds`), and
that what a call has read (`base`, `copy`) is still what the file holds, unless
somebody has passed it (`ReadsAreFresh`). Of the tasks of one writer only the holder of
its lock can replace the file, so whoever passes a reader is a task of another writer
or a replace without a lock, which is what `Passed` records. A fresh replacement keeps
everything; and until a stale one lands, `entry_count` counts the entries (`Counts`), and
what was or is about to be reported is in the file (`WritesAreThere`,
`ReportedWritesStay`), which is what `EntryLog` asks for.

*Memorize.* `IInv` has the lock's holder as the one call inside it (`Locking`), a
slice that contains the buffer and cells that are a detector's (`Detection`), and what
the pipelines have announced and written (`Progress`), from which the episodes of an
answered call follow. For `AckedMessagesKept`, `KInv` says where a call's payload is
at each point, from its first chat message on: in its slice, then in the buffer or in
memcells (`Carries`, `Saved`). The rows that a chat message precedes (`Headed`) are
those that cells and tail cover, whatever the slice opens with: a row of a request that
its own chat message precedes is preceded by one in every slice it is in.
`FlushLeavesNoChat` follows as the cells of a final detection have every chat message of
the slice. For `FoldedOnce`, `FInv` says that the buffer and
a first-time payload are apart from all cells; the cells of one slice are apart from
each other because a cell is the set of ranks between two cuts.

*Flush timers.* What a hook read is what the state file says, but for a reset by a
watcher in between (`Captured`), and the birth date it will hand to its watchers
is the file's (`Handed`). So a cursor moves only over lines the server has
(`Passed`), and an open window has its max-delay watcher from the moment no hook is
about to flush it or to arm one (`Timed`).

*Maintenance.* The table's lock is held by the job in its locked section
(`HeldByItsJob`); a rebuild has exactly one awaiter, a runner that fell back or the
loop (`AwaitedOnce`); only another process commits beside a locked prune or rebuild
(`RacedByOthers`); and each step of `stop()` ends its tasks for good (`Stops`).

*Knowledge.* For `NothingVanishes`, what a request works with (`Asked`) and where the
copy is while it does (`Kept`): a replacement writes only while a whole copy is in its
backup. For the rows, what changed since a job looked is in the queue (`Batched`); a row
that does not agree with its file waits for the queue or for a handler at work
(`DocMirrors`, `LanceMirrors`, `SqlMirrors`, `Searchable`); and a topic found unchanged in
LanceDB is unchanged in SQLite, but for a handler between the two (`SameTopic`). At
rest nothing waits. `Searchable` speaks of LanceDB alone and so outlives a handler that is cut
between its writes.

*Reflection.* For `NothingForgotten`, the merged entry is written, is a member of
nothing before `Add`, is not deprecated, and contains what it merged, from
`WriteMerged` to the end (`Merging`). That nobody deprecates it meanwhile, and that
nobody else's members are deprecated, needs to know in how many clusters an entry can
be: in one (`Alone`), as an episode gets there only by its own run (`Homes`), but for
the runs that were repeated. For counts and deprecations, `Apart` says that on a
cluster nobody raced on, runs and the reflection still know the truth: what they
listed is what there is.

*Skills and backfill.* None of the four properties is inductive, and the proofs share
one invariant. For `ClusteredOnce`: an item is grouped by one run, which begins when the
item is in no cluster, unless a run was repeated (`Once`); while phase 2 emits, an item
that is left has no such run, and one that is not left is in a cluster, or lost, or has
its run (`ItemsGo`), which is also what exit code 0 of that phase says at the end. For
the vectors, `Versions` orders the texts of scan, row and file, and `Vectors` says that
the row of an item not yet updated is the one scanned, unless the cascade chased it; a row
without its vectors is still to be updated, has failed, or only lacks its subject's. For
phase 3, `Files`: a skill file the probe found and nobody rewrote is in the index from the
first sync on, unless a sync failed. For `LessonsStay`, two runs do not write skills at
once (`Alone`, the partition lock), and `Lessons` says what a run without a clash knows:
the skills it will update are as it read them, cite no more than what it will write
over them, and a file it renamed is contained in the one that it wrote instead, so that
`Reap` may delete it. `Clashing` is a state of the answer, not of the step: the
theorem holds through every error and restart in the middle of the writes.

What the proofs found. A proof looks past the bounds of a run, and several
properties and models had to be corrected:

- Knowledge: with two requests `NothingVanishes` and
  `RowsMirrorTheirFiles` held in forms that three requests refute. Item 10 of section 4
  is one of the counterexamples; a patch that moves its directory into a leftover and a
  handler that skips a topic whose SQLite row is another directory's are the
  others. The exceptions `blind`, `nested` and `stolen` say what is true.
- Reflection: an episode merged before may come back as a member, by a clustering run
  that raced with an earlier reflection. Between `Patch` and `Hide` it is deprecated
  in its file and by no row; so `left` is set at `Patch` too. It takes more
  episodes and reflections than a run can afford.
- Maintenance: a fallback rebuild that is cancelled after its failure leaves
  `sinceFallback` beyond the alert threshold; the counter has no upper bound.
- Flush timers: `OpenWindowHasMaxTimer` holds without the exception it had for a
  watcher in the middle of a flush.
- Backfill: `OrphansFound` (of `ExitZeroMeansDone`) excepted skills that differ from
  what the probe found. A file that is rewritten after the probe and then rewritten back
  is equal and need not be in the index: `cli.files` now forgets what is
  rewritten. It takes more runs and faults than the instance has.
- Skills: `Clashing` speaks of the runs that are active; a run that ended excuses nothing.
- Memorize: tool rows in front of a request's first chat message are the only ones that
  an answered call can lose.

## 6. What is only model-checked

- Liveness (`Converges`, `RetriesTerminate`, `EnqueuedRunsEnd`, `TailIsMerged`,
  `CapturedIsFlushed`), which is beyond the prover.
- `Search` (`AnswersAreAllowed`, `AnswerIsRanked`, `BestFactsSurvive`), the only module
  with RECURSIVE operators, because filters nest: the prover does not take such a module,
  and what `CompileNode` computes for every filter is an induction over data. The ranking
  properties are about sorting and folding the whole list of candidates, which is induction
  again.

## 7. Not modelled

- AGENTIC search, the agent's cases and skills in search, profile search: an LLM
  chooses the rounds, and the recalls they are made of are those of `Search`. `get`
  reads a count and a page separately, without further state.
- `rebuild` of the `cascade` CLI: it drops and refills tables with the cascade stopped.
- The other strategies (profile extraction, foresight and facts from episodes):
  runs of `OfflineEngine` with an open body; their one effect is a whole-file
  write or an append, which `DailyLog` has.
- The idle scanner, config reloader and registry of the engine: they produce
  events, which come from outside in `OfflineEngine`.
- The memory root lock: one critical section.
- API, CLI and TUI, configuration, providers, observability: routing,
  formatting and I/O without a protocol. A large part of the repository's lines is of this
  kind (the TUI demo alone has several thousand), and so are prompts and
  the LLM algorithms of `everalgo`.

## 8. Plan

Written so far, in this order: MdChangeState and Cascade, Projection and its
proofs, OfflineEngine, EntryLog and DailyLog with proofs, Memorize; then
FlushTimers, Maintenance, Knowledge, Reflection, Skills and Backfill, Search.

Then the theorems of section 5, in this order: Cascade and DailyLog; OfflineEngine,
Maintenance, Memorize, FlushTimers, Knowledge, Reflection, Skills and Backfill.

Left to do:

1. `StaleVerdictsLose` without `~ Overlap`, for the rows that only one process ever
   claimed.
2. An abstract queue that `Knowledge`, `Reflection` and `Backfill` could be shown to use
   as `Cascade` provides it.
