------------------------------ MODULE Cascade ------------------------------
(***************************************************************************)
(* The cascade: markdown files are the source of truth and the LanceDB     *)
(* index is a projection of them.  A watcher thread and a periodic scanner *)
(* enqueue changed paths into md_change_state; a worker claims rows,       *)
(* re-reads the files, rewrites the index and reports the outcome.         *)
(*                                                                         *)
(* The server runs watcher, scanner and worker; a run of the CLI (cascade  *)
(* sync, cascade sync PATH, cascade fix --apply) is a second process with  *)
(* a scanner and a worker of its own on the same SQLite and LanceDB files. *)
(***************************************************************************)
EXTENDS MdChangeState, Sequences

CONSTANTS
    Server,           \* the server process
    Clis,             \* the CLI processes
    None,             \* no process
    Left,             \* the handlers a gather of the server left at work
    Mixed,            \* index rows that come from several versions of a file
    Overlap,          \* may processes run at the same time?
    Watching,         \* does the file system report changes?
    BatchSize,        \* worker.DEFAULT_BATCH_SIZE
    MaxRetry,         \* worker.DEFAULT_MAX_RETRY, inline retries of one claim
    MaxTotalRetries,  \* worker._MAX_TOTAL_RETRIES
    Outage,           \* may transient failures go on for ever?
    MaxVersion,       \* bound: versions written to one file
    MaxFaults         \* bound: crashes, lost events and failures

Procs == {Server} \cup Clis

\* The handlers at work: those of the batch that drain_once of a process awaits,
\* and those of earlier batches that the server no longer awaits.
Batches == Procs \cup {Left}

Owner(b) == IF b = Left THEN Server ELSE b

ASSUME ProcsAssumption ==
    Server \notin Clis /\ Left \notin Procs /\ None \notin Batches
ASSUME MixedAssumption == Mixed \notin Nat
ASSUME SwitchesAssumption == {Overlap, Watching, Outage} \subseteq BOOLEAN
ASSUME NumbersAssumption ==
    /\ BatchSize \in Nat \ {0}
    /\ {MaxRetry, MaxTotalRetries, MaxVersion, MaxFaults} \subseteq Nat

VARIABLES
    disk,      \* version of each file now, 0 when it does not exist
    written,   \* highest version ever written
    index,     \* version the LanceDB rows of the path were built from, 0: none,
               \* Mixed between the writes of a handler
    table,     \* md_change_state
    older,     \* the lsn order of the rows
    holder,    \* history: the batch whose UPDATE claimed the row, while
               \* nothing has re-enqueued, recovered, finished or dropped it
    crossed,   \* history: paths claimed while a handler of an earlier claim
               \* was still at work on them
    notices,   \* file system events the watchdog thread has not handled yet
    gone,      \* on_deleted calls between exists() and stat()
    tasks,     \* upsert coroutines the watcher has scheduled
    scan,      \* the scan_once of each process
    claim,     \* the claim_pending_batch of each process
    job,       \* the _process_one of each batch and path
    active,    \* running processes
    faults     \* crashes, lost events and failures so far

files   == <<disk, written>>
queue   == <<table, older, holder, crossed>>
watcher == <<notices, gone, tasks>>
worker  == <<claim, job>>
vars == <<disk, written, index, table, older, holder, crossed, notices, gone,
          tasks, scan, claim, job, active, faults>>

-----------------------------------------------------------------------------
(* Types                                                                   *)

Scan == [pc : {"idle", "walked", "emitting"}, seen : [Paths -> Nat],
         plan : SUBSET Enqueue]
IdleScan == [pc |-> "idle", seen |-> [p \in Paths |-> 0], plan |-> {}]

Emitting(plan) ==
    IF plan = {} THEN IdleScan
    ELSE [pc |-> "emitting", seen |-> IdleScan.seen, plan |-> plan]

Claim == [pc : {"idle", "picked", "updated"}, picks : SUBSET Paths]
IdleClaim == [pc |-> "idle", picks |-> {}]

\* st: "attempt" at the top of the retry loop, "read" with the file's content
\* in hand, "upserted" when its rows are written and the stale ones are not yet
\* deleted, "missing" inside handle_deleted; then what remains is to mark the
\* row: "ok" done, "retry" failed and retryable, "dead" failed for good.
Running == {"attempt", "read", "upserted", "missing"}
Verdicts == {"ok", "retry", "dead"}

Job == [st : {"none"} \cup Running \cup Verdicts,
        deletes : BOOLEAN,  \* row.change_type == "deleted"
        ver : Nat, tries : Nat, count : Nat]

\* All that a handler leaves behind is the verdict and the attempts it counted.
Ended(st, count) ==
    [st |-> st, deletes |-> FALSE, ver |-> 0, tries |-> 0, count |-> count]

NoJob == Ended("none", 0)
NoJobs == [p \in Paths |-> NoJob]

TypeOK ==
    /\ disk \in [Paths -> Nat]
    /\ written \in [Paths -> Nat]
    /\ index \in [Paths -> Nat \cup {Mixed}]
    /\ table \in [Paths -> Row]
    /\ older \in SUBSET (Paths \X Paths)
    /\ holder \in [Paths -> Batches \cup {None}]
    /\ crossed \in SUBSET Paths
    /\ notices \in Seq(Paths \X ChangeType)
    /\ gone \in SUBSET Paths
    /\ tasks \in SUBSET Enqueue
    /\ scan \in [Procs -> Scan]
    /\ claim \in [Procs -> Claim]
    /\ job \in [Batches -> [Paths -> Job]]
    /\ active \in SUBSET Procs
    /\ faults \in Nat

Init ==
    /\ disk = [p \in Paths |-> 0]
    /\ written = [p \in Paths |-> 0]
    /\ index = [p \in Paths |-> 0]
    /\ table = [p \in Paths |-> NoRow]
    /\ older = {}
    /\ holder = [p \in Paths |-> None]
    /\ crossed = {}
    /\ notices = <<>>
    /\ gone = {}
    /\ tasks = {}
    /\ scan = [d \in Procs |-> IdleScan]
    /\ claim = [d \in Procs |-> IdleClaim]
    /\ job = [b \in Batches |-> NoJobs]
    /\ active = {}
    /\ faults = 0

-----------------------------------------------------------------------------
(* Files: memory writers and users create, replace and remove md files.    *)

\* The observer thread sees the change if the server runs and nothing loses
\* the event.
Notify(p, change) ==
    notices' = IF Watching /\ Server \in active
               THEN Append(notices, <<p, change>>) ELSE notices

WriteFile(p) ==
    /\ written[p] < MaxVersion
    /\ written' = [written EXCEPT ![p] = @ + 1]
    /\ disk' = [disk EXCEPT ![p] = written[p] + 1]
    /\ Notify(p, IF disk[p] = 0 THEN "added" ELSE "modified")
    /\ UNCHANGED <<index, queue, gone, tasks, scan, worker, active, faults>>

RemoveFile(p) ==
    /\ disk[p] # 0
    /\ disk' = [disk EXCEPT ![p] = 0]
    /\ Notify(p, "deleted")
    /\ UNCHANGED <<written, index, queue, gone, tasks, scan, worker, active,
                   faults>>

-----------------------------------------------------------------------------
(* Queue writers                                                           *)

DoUpsert(p, change, mtime) ==
    /\ table' = [table EXCEPT ![p] = Upserted(@, change, mtime)]
    /\ older' = Requeued(older, table, p)
    /\ holder' = [holder EXCEPT ![p] = None]

\* _Handler.on_created, on_modified and the events on_moved stands for: the
\* stat of _enqueue and the scheduling of the coroutine.
HandleNotice ==
    /\ notices # <<>>
    /\ gone = {}
    /\ LET p == Head(notices)[1]
           change == Head(notices)[2]
       IN IF change = "deleted"
          THEN /\ gone' = IF disk[p] = 0 THEN {p} ELSE {}
               /\ UNCHANGED tasks
          ELSE /\ tasks' = tasks \cup
                    {[path |-> p, change |-> change, mtime |-> disk[p]]}
               /\ UNCHANGED gone
    /\ notices' = Tail(notices)
    /\ UNCHANGED <<files, index, queue, scan, worker, active, faults>>

\* on_deleted found the path missing; _safe_mtime stats it again.
StatGone(p) ==
    /\ p \in gone
    /\ gone' = {}
    /\ tasks' = tasks \cup
            {[path |-> p, change |-> "deleted", mtime |-> disk[p]]}
    /\ UNCHANGED <<files, index, queue, notices, scan, worker, active, faults>>

\* Each scheduled coroutine waits for a connection of its own: no order.
RunTask(t) ==
    /\ t \in tasks
    /\ tasks' = tasks \ {t}
    /\ DoUpsert(t.path, t.change, t.mtime)
    /\ UNCHANGED <<files, index, crossed, notices, gone, scan, worker, active,
                   faults>>

\* An event queue overflow, or an upsert that raises and is only logged.
LoseEvent ==
    /\ faults < MaxFaults
    /\ faults' = faults + 1
    /\ \/ /\ notices # <<>>
          /\ notices' = Tail(notices)
          /\ UNCHANGED tasks
       \/ /\ \E t \in tasks : tasks' = tasks \ {t}
          /\ UNCHANGED notices
    /\ UNCHANGED <<files, index, queue, gone, scan, worker, active>>

Busy(d) == claim[d].pc # "idle" \/ \E p \in Paths : job[d][p].st # "none"

\* scan_once: the walk in a thread, then the snapshot of the table, then one
\* upsert per decision.  A CLI process scans before it drains.
Walk(d) ==
    /\ d \in active
    /\ scan[d].pc = "idle"
    /\ d # Server => ~ Busy(d)
    /\ scan' = [scan EXCEPT ![d] = [pc |-> "walked", seen |-> disk, plan |-> {}]]
    /\ UNCHANGED <<files, index, queue, watcher, worker, active, faults>>

Snapshot(d) ==
    /\ scan[d].pc = "walked"
    /\ scan' = [scan EXCEPT ![d] = Emitting(Reconcile(scan[d].seen, table))]
    /\ UNCHANGED <<files, index, queue, watcher, worker, active, faults>>

Emit(d, e) ==
    /\ scan[d].pc = "emitting"
    /\ e \in scan[d].plan
    /\ DoUpsert(e.path, e.change, e.mtime)
    /\ scan' = [scan EXCEPT ![d] = Emitting(@.plan \ {e})]
    /\ UNCHANGED <<files, index, crossed, watcher, worker, active, faults>>

\* cascade sync PATH
ForceEnqueue(d, p) ==
    /\ d \in active \ {Server}
    /\ scan[d].pc = "idle" /\ ~ Busy(d)
    /\ DoUpsert(p, "modified", 0)
    /\ UNCHANGED <<files, index, crossed, watcher, scan, worker, active, faults>>

\* cascade fix --apply
FixApply(d) ==
    /\ d \in active \ {Server}
    /\ scan[d].pc = "idle" /\ ~ Busy(d)
    /\ \E p \in Paths : table[p].status = "failed"
    /\ table' = [p \in Paths |-> Refixed(table[p])]
    /\ UNCHANGED <<files, index, older, holder, crossed, watcher, scan, worker,
                   active, faults>>

-----------------------------------------------------------------------------
(* The worker                                                              *)

\* claim_pending_batch, first half: SELECT the oldest pending paths.  A worker
\* claims when gather has returned; what it left at work does not hold it up.
Pick(d) ==
    /\ d \in active
    /\ ~ Busy(d)
    /\ d # Server => scan[d].pc = "idle"
    /\ \E S \in FirstPending(older, table, BatchSize) \ {{}} :
           claim' = [claim EXCEPT ![d] = [pc |-> "picked", picks |-> S]]
    /\ UNCHANGED <<files, index, queue, watcher, scan, job, active, faults>>

AtWork(b, p) == job[b][p].st # "none"

\* UPDATE ... WHERE status = 'pending' and COMMIT; rowcount 0 ends the claim.
UpdatePicks(d) ==
    LET won == claim[d].picks \cap PendingIn(table)
        beside == {p \in won : \E b \in Batches : Owner(b) = d /\ AtWork(b, p)}
    IN /\ claim[d].pc = "picked"
       /\ table' = [p \in Paths |->
                      IF p \in won THEN Claimed(table[p]) ELSE table[p]]
       /\ holder' = [p \in Paths |-> IF p \in won THEN d ELSE holder[p]]
       /\ crossed' = (crossed \ won) \cup beside
       /\ claim' = [claim EXCEPT ![d] =
                      IF won = {} THEN IdleClaim ELSE [@ EXCEPT !.pc = "updated"]]
       /\ UNCHANGED <<files, index, older, watcher, scan, job, active, faults>>

FirstStep(del) == IF del THEN "missing" ELSE "attempt"

\* A handler at the top of its retry loop.
Starts(del, tries, count) ==
    [st |-> FirstStep(del), deletes |-> del, ver |-> 0, tries |-> tries,
     count |-> count]

\* The budget check at the head of _process_one.
NewJob(r) ==
    IF r.retries >= MaxTotalRetries THEN Ended("dead", r.retries)
    ELSE Starts(r.change = "deleted", 0, r.retries)

\* The second SELECT: every picked path that is 'processing' now is processed.
LoadBatch(d) ==
    /\ claim[d].pc = "updated"
    /\ job' = [job EXCEPT ![d] = [p \in Paths |->
                  IF p \in claim[d].picks /\ table[p].status = "processing"
                  THEN NewJob(table[p]) ELSE NoJob]]
    /\ claim' = [claim EXCEPT ![d] = IdleClaim]
    /\ UNCHANGED <<files, index, queue, watcher, scan, active, faults>>

\* A statement of claim_pending_batch raises: _run_loop logs it and goes on,
\* and rows that the UPDATE claimed stay in 'processing'.
ClaimFails ==
    /\ faults < MaxFaults
    /\ faults' = faults + 1
    /\ claim[Server].pc # "idle"
    /\ holder' = [p \in Paths |->
          IF holder[p] = Server THEN None ELSE holder[p]]
    /\ claim' = [claim EXCEPT ![Server] = IdleClaim]
    /\ UNCHANGED <<files, index, table, older, crossed, watcher, scan, job,
                   active>>

JobGoes(b, p, j) == job' = [job EXCEPT ![b][p] = j]

\* handle_added_or_modified opens the file, or raises FileNotFoundError and
\* _process_one turns to handle_deleted.
ReadFile(b, p) ==
    /\ job[b][p].st = "attempt"
    /\ JobGoes(b, p, [job[b][p] EXCEPT
                         !.st = IF disk[p] = 0 THEN "missing" ELSE "read",
                         !.ver = disk[p]])
    /\ UNCHANGED <<files, index, queue, watcher, scan, claim, active, faults>>

\* A handler upserts the rows of the content it read ...
UpsertRows(b, p) ==
    /\ job[b][p].st = "read"
    /\ index' = [index EXCEPT ![p] = Mixed]
    /\ JobGoes(b, p, [job[b][p] EXCEPT !.st = "upserted"])
    /\ UNCHANGED <<files, queue, watcher, scan, claim, active, faults>>

\* ... then deletes the rows it had found that the content does not have; what
\* another handler wrote meanwhile stays.
DeleteStaleRows(b, p) ==
    /\ job[b][p].st = "upserted"
    /\ index' = [index EXCEPT ![p] =
                    IF @ = Mixed THEN job[b][p].ver ELSE Mixed]
    /\ JobGoes(b, p, Ended("ok", 0))
    /\ UNCHANGED <<files, queue, watcher, scan, claim, active, faults>>

\* handle_deleted is one delete.
DeleteRows(b, p) ==
    /\ job[b][p].st = "missing"
    /\ index' = [index EXCEPT ![p] = 0]
    /\ JobGoes(b, p, Ended("ok", 0))
    /\ UNCHANGED <<files, queue, watcher, scan, claim, active, faults>>

TriedAgain(j) == Starts(j.deletes, j.tries + 1, j.count + 1)

Failed(j) == Ended(IF j.count < MaxTotalRetries THEN "retry" ELSE "dead", j.count)

\* ExternalServiceError from the embedder or a busy LanceDB table: another
\* inline attempt, or the row fails and the budget decides if it may return.
TransientFailure(b, p) ==
    /\ job[b][p].st \in Running \ {"attempt"}
    /\ LET j == job[b][p]
       IN JobGoes(b, p, IF j.tries < MaxRetry THEN TriedAgain(j) ELSE Failed(j))
    /\ IF Outage THEN UNCHANGED faults
                 ELSE faults < MaxFaults /\ faults' = faults + 1
    /\ UNCHANGED <<files, index, queue, watcher, scan, claim, active>>

\* Mutant: an unexpected exception is logged and the row marked done.
PermanentFailureSwallowed(b, p) ==
    /\ faults < MaxFaults
    /\ faults' = faults + 1
    /\ job[b][p].st \in Running
    /\ JobGoes(b, p, Ended("ok", 0))
    /\ UNCHANGED <<files, index, queue, watcher, scan, claim, active>>

\* Any other exception: a malformed file, a schema error.
PermanentFailure(b, p) ==
    /\ faults < MaxFaults
    /\ faults' = faults + 1
    /\ job[b][p].st \in Running
    /\ JobGoes(b, p, Ended("dead", job[b][p].count))
    /\ UNCHANGED <<files, index, queue, watcher, scan, claim, active>>

\* mark_done and mark_failed end a job.
Mark(b, p) ==
    LET j == job[b][p]
    IN /\ j.st \in Verdicts
       /\ table' = [table EXCEPT ![p] =
             IF j.st = "ok" THEN MarkedDone(@)
                            ELSE MarkedFailed(@, j.st = "retry", j.count)]
       /\ holder' = [holder EXCEPT ![p] =
             IF table[p].status = "processing" THEN None ELSE @]
       /\ JobGoes(b, p, NoJob)
       /\ UNCHANGED <<files, index, older, crossed, watcher, scan, claim, active,
                      faults>>

\* gather returns at the first exception of its batch and _run_loop claims
\* again, while the other handlers of the batch, rest, go on.  Bound: of each
\* path one handler at a time is at work outside an awaited batch.
Leave(rest) ==
    /\ \A p \in Paths : rest[p].st = "none" \/ ~ AtWork(Left, p)
    /\ job' = [job EXCEPT ![Server] = NoJobs,
                          ![Left] = [p \in Paths |->
                              IF AtWork(Left, p) THEN job[Left][p] ELSE rest[p]]]
    /\ holder' = [p \in Paths |->
          IF holder[p] # Server THEN holder[p]
          ELSE IF rest[p].st # "none" THEN Left ELSE None]

\* mark_done or mark_failed raises, outside any handler: the row stays in
\* 'processing'.  In a command the exception ends the process, see Crash.
MarkFails(b, p) ==
    /\ faults < MaxFaults
    /\ faults' = faults + 1
    /\ job[b][p].st \in Verdicts
    /\ \/ /\ b = Server
          /\ Leave([job[b] EXCEPT ![p] = NoJob])
       \/ /\ b = Left
          /\ JobGoes(b, p, NoJob)
          /\ holder' = [holder EXCEPT ![p] = IF @ = Left THEN None ELSE @]
    /\ UNCHANGED <<files, index, table, older, crossed, watcher, scan, claim,
                   active>>

\* The same for a row of the batch whose file is none of Paths.
OtherMarkFails ==
    /\ faults < MaxFaults
    /\ faults' = faults + 1
    /\ \E p \in Paths : AtWork(Server, p)
    /\ Leave(job[Server])
    /\ UNCHANGED <<files, index, table, older, crossed, watcher, scan, claim,
                   active>>

-----------------------------------------------------------------------------
(* Processes                                                               *)

\* Only orchestrator.start recovers orphans; the CLI never does.
Start(d) ==
    /\ d \notin active
    /\ Overlap \/ active = {}
    /\ active' = active \cup {d}
    /\ IF d = Server
       THEN /\ table' = [p \in Paths |-> Recovered(table[p])]
            /\ holder' = [p \in Paths |->
                  IF table'[p].status = "processing" THEN holder[p] ELSE None]
       ELSE UNCHANGED <<table, holder>>
    /\ UNCHANGED <<files, index, older, crossed, watcher, scan, worker, faults>>

\* What dies with process d: all it held in memory.
Halt(d) ==
    /\ active' = active \ {d}
    /\ scan' = [scan EXCEPT ![d] = IdleScan]
    /\ claim' = [claim EXCEPT ![d] = IdleClaim]
    /\ job' = [b \in Batches |-> IF Owner(b) = d THEN NoJobs ELSE job[b]]
    /\ IF d = Server
       THEN notices' = <<>> /\ gone' = {} /\ tasks' = {}
       ELSE UNCHANGED watcher
    /\ UNCHANGED <<files, index, queue>>

\* A crash, a kill, or orchestrator.stop, which cancels the tasks midway.
Crash(d) ==
    /\ d \in active
    /\ faults < MaxFaults
    /\ faults' = faults + 1
    /\ Halt(d)

\* A CLI command returns when a claim of its drain loop came back empty.
Exit(d) ==
    /\ d \in active \ {Server}
    /\ scan[d].pc = "idle" /\ ~ Busy(d)
    /\ Halt(d)
    /\ UNCHANGED faults

-----------------------------------------------------------------------------
Environment ==
    \/ \E p \in Paths : WriteFile(p) \/ RemoveFile(p)
    \/ LoseEvent
    \/ \E d \in Procs : Start(d) \/ Crash(d) \/ Exit(d)

Watcher ==
    \/ HandleNotice
    \/ \E p \in gone : StatGone(p)
    \/ \E t \in tasks : RunTask(t)

Scanner(d) ==
    \/ Walk(d)
    \/ Snapshot(d)
    \/ \E e \in scan[d].plan : Emit(d, e)

Command(d) == FixApply(d) \/ \E p \in Paths : ForceEnqueue(d, p)

Claiming(d) == Pick(d) \/ UpdatePicks(d) \/ LoadBatch(d)

Writing(b, p) == UpsertRows(b, p) \/ DeleteStaleRows(b, p) \/ DeleteRows(b, p)

\* One step of a job that the code always comes to take.
Working(b, p) == ReadFile(b, p) \/ Writing(b, p) \/ Mark(b, p)

Exception ==
    \/ ClaimFails
    \/ OtherMarkFails
    \/ \E b \in Batches, p \in Paths : PermanentFailure(b, p) \/ MarkFails(b, p)

Next ==
    \/ Environment
    \/ Watcher
    \/ \E d \in Procs : Scanner(d) \/ Command(d) \/ Claiming(d)
    \/ \E b \in Batches, p \in Paths : Working(b, p) \/ TransientFailure(b, p)
    \/ Exception

Spec == Init /\ [][Next]_vars

(***************************************************************************)
(* Fairness.  asyncio runs every ready task: the scanner's 30 s loop, the  *)
(* worker's 1 s loop and each job go on; a job that neither succeeds nor   *)
(* fails would have to hang.  The operator restarts a crashed server.      *)
(* A claim that loads rows is strongly fair: a sweep can re-enqueue a      *)
(* missing file's row between the claim's UPDATE and its SELECT, but the   *)
(* scanner sleeps 30 s between sweeps and cannot hit that gap every time.  *)
(***************************************************************************)
LoadsRows(d) == LoadBatch(d) /\ job' # job

Advance(b, p) == Working(b, p) \/ TransientFailure(b, p)

Fairness ==
    /\ WF_vars(Start(Server))
    /\ WF_vars(Walk(Server))
    /\ WF_vars(Snapshot(Server))
    /\ WF_vars(\E e \in scan[Server].plan : Emit(Server, e))
    /\ WF_vars(Watcher)
    /\ WF_vars(Claiming(Server))
    /\ SF_vars(LoadsRows(Server))
    /\ \A b \in {Server, Left}, p \in Paths : WF_vars(Advance(b, p))

FairSpec == Spec /\ Fairness

-----------------------------------------------------------------------------
(* Correctness                                                             *)

\* The row tells the scanner that p is up to date: reconcile will skip it.
Vouched(p) ==
    /\ table[p].status = "done"
    /\ table[p].change # "deleted"
    /\ disk[p] # 0
    /\ table[p].mtime = disk[p]

\* A row that reached 'done' for the mtime the file has now is never looked at
\* again, so its index rows must come from that very content, whatever edits,
\* re-enqueues, crashes and failures happened on the way, also in the middle of
\* a handler's writes or outside any handler.  Not promised for a path that was
\* claimed beside a handler still at work on it, until it is claimed alone.
SettledRowsMirrorDisk ==
    \A p \in Paths \ crossed : Vouched(p) => index[p] = disk[p]

\* mark_done and mark_failed: "a concurrent re-enqueue must win over a terminal
\* write tied to a stale claim" (md_change_state.py:326-328).  A row only ends
\* by the verdict of the claim that holds it, also when gather left that claim's
\* handlers behind.
StaleVerdictsLose ==
    [][\A p \in Paths \ crossed :
         /\ table'[p] # table[p]
         /\ table'[p].status \in {"done", "failed"}
         => \E b \in Batches : /\ holder[p] = b
                               /\ table[p].status = "processing"
                               /\ AtWork(b, p)
                               /\ ~ AtWork(b, p)']_<<table, job>>

\* claim_pending_batch: "the per-row WHERE status='pending' filter ensures each
\* row lands in exactly one batch" (md_change_state.py:219-221).  A path enters
\* the batch of the process whose UPDATE claimed it.
EachRowInOneBatch ==
    [][\A d \in Procs, p \in Paths :
         job[d][p].st = "none" /\ job'[d][p].st # "none" => holder[p] = d]_job

\* change_type is "a hint for the worker - handler re-derives truth from the
\* actual file state" (tables/md_change_state.py:64-66): a row that settled for
\* the file's mtime agrees with the file even when the hint says deleted.
ChangeTypeIsAHint ==
    \A p \in Paths :
        table[p].status = "done" /\ disk[p] # 0 /\ table[p].mtime = disk[p]
            => index[p] = disk[p]

\* Nobody will process the path again before the user edits the file.
GivenUp(p) ==
    \/ disk[p] # 0 /\ table[p].status = "failed" /\ ~ table[p].retryable
    \/ table[p].retries >= MaxTotalRetries

\* The row is in 'processing' and no handler will end it: its mark failed, or
\* the claim did after its UPDATE.  An edit or a restart of the server helps.
Stranded(p) == table[p].status = "processing" /\ holder[p] = None

AnyTransientFailure == \E b \in Batches, p \in Paths : TransientFailure(b, p)

\* The scanner alone, without one file system event, brings the index of every
\* path to the file's last content once edits stop and an outage ends, across
\* server crashes, rows a crash left in 'processing' and batches left early.
Converges ==
    <>[][~ AnyTransientFailure]_vars
        => <>[](\A p \in Paths :
                    \/ index[p] = disk[p]
                    \/ GivenUp(p) \/ Stranded(p) \/ p \in crossed)

\* A persistent outage does not retry for ever: the row of an existing file
\* comes to rest (worker.py:22-27).
RetriesTerminate ==
    <>[](\A p \in Paths :
            disk[p] # 0 => \/ table[p].status \in {"done", "failed"}
                           \/ Stranded(p) \/ p \in crossed)

\* The cascade implements Projection: it vouches for the paths whose rows it
\* will not process again, and does so only while the index shows the file.
Vouches == INSTANCE Projection
    WITH vouched <- {p \in Paths \ crossed : Vouched(p)}

ImplementsProjection == Vouches!Spec
=============================================================================
