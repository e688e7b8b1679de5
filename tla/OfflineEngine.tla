--------------------------- MODULE OfflineEngine ---------------------------
(***************************************************************************)
(* The offline memory engine (infra/ome): events are dispatched through    *)
(* gates to strategies, every route becomes one APScheduler job, a runner  *)
(* drives the job through attempts under a semaphore, run_record keeps     *)
(* each attempt, and a restart resumes what a crash cut.                   *)
(*                                                                         *)
(* A run is named by its event, its strategy and its incarnation: the      *)
(* original dispatch is 0 and a resumption of incarnation i is i + 1.      *)
(***************************************************************************)
EXTENDS Integers, FiniteSets, Sequences

CONSTANTS
    Strategies,
    Root, Down,      \* strategies that listen to events emitted from outside
                     \* and to events emitted by strategies
    Gated,           \* strategies with a Counter gate
    Threshold,       \* the gate's threshold
    MaxRetries,      \* max_retries_snapshot
    Slots,           \* max_concurrent_runs
    MaxRecords,      \* max_records_per_strategy
    MaxEvents,       \* bound: events
    MaxStarts,       \* bound: engine starts
    MaxErrors        \* bound: failing stores and jobstore

ASSUME EngineAssumption ==
    /\ Root \subseteq Strategies /\ Down \subseteq Strategies
    /\ Gated \subseteq Strategies
    /\ {Threshold, Slots, MaxRecords} \subseteq Nat \ {0}
    /\ MaxStarts \in Nat \ {0}
    /\ {MaxRetries, MaxEvents, MaxErrors} \subseteq Nat
    /\ IsFiniteSet(Strategies)

Events == 1..MaxEvents
Runs == Events \X Strategies \X (0..(MaxStarts - 1))

VARIABLES
    phase,     \* of the process: see Phase
    event,     \* the dispatch of each event
    counter,   \* counter_store.counter
    passed,    \* strategies whose last_passed_ts is set
    counted,   \* history: events that reached each gate
    run,       \* each run in the jobstore and in memory
    rows,      \* run_record: the attempts of each strategy, oldest first
    active,    \* _active_runs
    idle,      \* _idle_event
    stale,     \* runs that scan_and_resume still has to go through
    marked,    \* runs it has marked CRASHED and not yet re-added
    starts, errors

vars == <<phase, event, counter, passed, counted, run, rows, active, idle,
          stale, marked, starts, errors>>
gates == <<counter, passed, counted>>
recovery == <<stale, marked>>

-----------------------------------------------------------------------------
(* "draining" waits in wait_idle; "drained" was woken because the engine   *)
(* was idle and "late" gave up after 30 s: both go on to shut down.        *)
Phase == {"off", "recovering", "up", "draining", "drained", "late"}

\* _started
Started == phase \in {"up", "draining", "drained", "late"}

Dispatch == [st : {"none", "gating", "done", "raised"},
             by : Runs \cup {<<>>}, todo : SUBSET Strategies,
             routes : SUBSET Strategies]
NoDispatch == [st |-> "none", by |-> <<>>, todo |-> {}, routes |-> {}]

\* "queued" in the jobstore, "waiting" for a slot, "running" the strategy,
\* "emitting" inside ctx.emit, "backoff" between attempts, "over" when
\* dispatch_run returned, "lost" when the process went away with it.
RunState == {"none", "queued", "waiting", "running", "emitting", "backoff",
             "over", "lost"}
NoRun == [st |-> "none", attempt |-> 0]
QueuedRun == [st |-> "queued", attempt |-> 0]

RunStatus == {"running", "success", "failed", "dead_letter", "crashed"}
RunRecord == [run : Runs, attempt : 0..MaxRetries, status : RunStatus]

TypeOK ==
    /\ phase \in Phase
    /\ event \in [Events -> Dispatch]
    /\ counter \in [Strategies -> Nat]
    /\ passed \in SUBSET Strategies
    /\ counted \in [Strategies -> Nat]
    /\ run \in [Runs -> [st : RunState, attempt : 0..MaxRetries]]
    /\ rows \in [Strategies -> Seq(RunRecord)]
    /\ active \in Nat
    /\ idle \in BOOLEAN
    /\ stale \in SUBSET Runs /\ marked \in SUBSET Runs
    /\ starts \in 0..MaxStarts /\ errors \in 0..MaxErrors

Init ==
    /\ phase = "off"
    /\ event = [k \in Events |-> NoDispatch]
    /\ counter = [s \in Strategies |-> 0]
    /\ passed = {}
    /\ counted = [s \in Strategies |-> 0]
    /\ run = [r \in Runs |-> NoRun]
    /\ rows = [s \in Strategies |-> <<>>]
    /\ active = 0 /\ idle = TRUE
    /\ stale = {} /\ marked = {}
    /\ starts = 0 /\ errors = 0

Alive(r) == run[r].st \in {"queued", "waiting", "running", "emitting", "backoff"}
\* Mutant: a slot that the end of a run does not release.
KeepsSlot(r) == run[r].st \in {"running", "emitting", "over"}

HoldsSlot(r) == run[r].st \in {"running", "emitting"}

Fails == errors < MaxErrors /\ errors' = errors + 1

-----------------------------------------------------------------------------
(* run_record                                                              *)

HasRow(r, a, status) ==
    \E i \in DOMAIN rows[r[2]] :
        rows[r[2]][i] = [run |-> r, attempt |-> a, status |-> status]

Unfinished(r) == HasRow(r, run[r].attempt, "running")

\* Mutant: the update matches every attempt of the run.
UpdatedAllAttempts(r, a, status) ==
    [rows EXCEPT ![r[2]] =
        [i \in DOMAIN rows[r[2]] |->
            IF rows[r[2]][i].run = r
            THEN [rows[r[2]][i] EXCEPT !.status = status]
            ELSE rows[r[2]][i]]]

\* _update_status of the one row (run, attempt), a no-op when it is gone.
Updated(r, a, status) ==
    [rows EXCEPT ![r[2]] =
        [i \in DOMAIN rows[r[2]] |->
            IF rows[r[2]][i].run = r /\ rows[r[2]][i].attempt = a
            THEN [run |-> r, attempt |-> a, status |-> status]
            ELSE rows[r[2]][i]]]

\* mark_running: the new row, and the newest MaxRecords of the strategy.
Recorded(r, a) ==
    LET log == Append(rows[r[2]],
                      [run |-> r, attempt |-> a, status |-> "running"])
    IN [rows EXCEPT ![r[2]] = IF Len(log) > MaxRecords THEN Tail(log) ELSE log]

-----------------------------------------------------------------------------
(* Dispatch                                                                *)

NewDispatch(by, listeners) ==
    [st |-> "gating", by |-> by, todo |-> listeners, routes |-> {}]

NextEvent(k) ==
    event[k].st = "none" /\ \A j \in Events : j < k => event[j].st # "none"

\* engine.emit from a request, a cron tick or an idle scan; trigger_manual
\* filters the listeners down to one strategy.
Emit(k) ==
    /\ Started
    /\ NextEvent(k)
    /\ \E listeners \in {Root} \cup {{s} : s \in Strategies} :
          event' = [event EXCEPT ![k] = NewDispatch(<<>>, listeners)]
    /\ UNCHANGED <<phase, gates, run, rows, active, idle, recovery, starts, errors>>

\* Mutant: a pass that does not reset the counter.
GatePassesKeepingCount(k, s) ==
    /\ counter[s] + 1 >= Threshold
    /\ counter' = [counter EXCEPT ![s] = @ + 1]
    /\ passed' = passed \cup {s}
    /\ event' = [event EXCEPT ![k].todo = @ \ {s}, ![k].routes = @ \cup {s}]

\* incr_and_check is one IMMEDIATE transaction.  Once a gate has passed, the
\* cooldown may hold the next pass back however high the counter is.
GatePasses(k, s) ==
    /\ counter[s] + 1 >= Threshold
    /\ counter' = [counter EXCEPT ![s] = 0]
    /\ passed' = passed \cup {s}
    /\ event' = [event EXCEPT ![k].todo = @ \ {s}, ![k].routes = @ \cup {s}]

GateHolds(k, s) ==
    /\ counter[s] + 1 < Threshold \/ s \in passed
    /\ counter' = [counter EXCEPT ![s] = @ + 1]
    /\ event' = [event EXCEPT ![k].todo = @ \ {s}]
    /\ UNCHANGED passed

Gate(k, s) ==
    /\ s \in event[k].todo \cap Gated
    /\ GatePasses(k, s) \/ GateHolds(k, s)
    /\ counted' = [counted EXCEPT ![s] = @ + 1]
    /\ UNCHANGED <<phase, run, rows, active, idle, recovery, starts, errors>>

\* enabled and applies_to decide, before the gate of a strategy that has one.
Route(k, s) ==
    /\ s \in event[k].todo
    /\ \E routed \in BOOLEAN :
          /\ routed => s \notin Gated
          /\ event' = [event EXCEPT ![k].todo = @ \ {s},
                                    ![k].routes = IF routed THEN @ \cup {s} ELSE @]
    /\ UNCHANGED <<phase, gates, run, rows, active, idle, recovery, starts, errors>>

\* Mutant: no finally around the runner, a run that ends keeps its count.
NeverCompleted(added, ended) ==
    /\ active' = active + added
    /\ idle' = (idle /\ added = 0)

\* _on_run_enqueued for every run that is added, _on_run_completed for every
\* one that ends.
Accounted(added, ended) ==
    /\ active' = active + added - ended
    /\ idle' = IF added + ended = 0 THEN idle ELSE active + added = ended

\* After the last gate all jobs are added without giving up the loop, and the
\* strategy that emitted goes on.
Added(k, routes) ==
    [r \in Runs |->
        IF r[1] = k /\ r[3] = 0 /\ r[2] \in routes THEN QueuedRun
        ELSE IF r = event[k].by THEN [run[r] EXCEPT !.st = "running"]
        ELSE run[r]]

Enqueue(k) ==
    /\ event[k].st = "gating" /\ event[k].todo = {}
    /\ event' = [event EXCEPT ![k].st = "done"]
    /\ run' = Added(k, event[k].routes)
    /\ Accounted(Cardinality(event[k].routes), 0)
    /\ UNCHANGED <<phase, gates, rows, recovery, starts, errors>>

\* Mutant: one retry too many.
RetriesOnceMore(r) == run[r].attempt <= MaxRetries

\* An attempt that fails: FAILED and a retry, or DEAD_LETTER and the end.
Retries(r) == run[r].attempt < MaxRetries
EndsWith(r) == IF Retries(r) THEN 0 ELSE 1
AfterFailure(r) ==
    [run[r] EXCEPT !.st = IF Retries(r) THEN "backoff" ELSE "over"]
RecordedFailure(r) ==
    Updated(r, run[r].attempt, IF Retries(r) THEN "failed" ELSE "dead_letter")

FailAttempt(r) ==
    /\ run' = [run EXCEPT ![r] = AfterFailure(r)]
    /\ rows' = RecordedFailure(r)
    /\ Accounted(0, EndsWith(r))

\* A gate's transaction or the add_job of one route raises.  The gates that
\* passed stay reset, the routes already added stay, the others are gone, and
\* the exception reaches whoever emitted: a strategy's attempt fails.
DispatchRaises(k) ==
    /\ event[k].st = "gating"
    /\ Fails
    /\ event' = [event EXCEPT ![k].st = "raised"]
    /\ \E kept \in SUBSET event[k].routes :
          /\ kept # {} => event[k].todo = {} /\ kept # event[k].routes
          /\ IF event[k].by = <<>>
             THEN /\ run' = Added(k, kept)
                  /\ Accounted(Cardinality(kept), 0)
                  /\ UNCHANGED rows
             ELSE LET r == event[k].by IN
                  /\ run' = [Added(k, kept) EXCEPT ![r] = AfterFailure(r)]
                  /\ rows' = RecordedFailure(r)
                  /\ Accounted(Cardinality(kept), EndsWith(r))
    /\ UNCHANGED <<phase, gates, recovery, starts>>

-----------------------------------------------------------------------------
(* The runner                                                              *)

\* APScheduler fires the job: it leaves the jobstore, _runner_entry finds the
\* engine, and the first attempt waits for a slot.
Fire(r) ==
    /\ phase # "off"
    /\ run[r].st = "queued"
    /\ run' = [run EXCEPT ![r].st = "waiting"]
    /\ UNCHANGED <<phase, event, gates, rows, active, idle, recovery, starts, errors>>

\* A slot, then mark_running.
StartAttempt(r) ==
    /\ run[r].st = "waiting"
    /\ Cardinality({q \in Runs : HoldsSlot(q)}) < Slots
    /\ run' = [run EXCEPT ![r].st = "running"]
    /\ rows' = Recorded(r, run[r].attempt)
    /\ UNCHANGED <<phase, event, gates, active, idle, recovery, starts, errors>>

\* mark_running raises: the run is abandoned without a row.
StartFails(r) ==
    /\ run[r].st = "waiting"
    /\ Fails
    /\ run' = [run EXCEPT ![r].st = "over"]
    /\ Accounted(0, 1)
    /\ UNCHANGED <<phase, event, gates, rows, recovery, starts>>

\* ctx.emit of a declared event; "emit: engine not started" while recovering.
CtxEmit(r, k) ==
    /\ run[r].st = "running"
    /\ NextEvent(k)
    /\ IF Started
       THEN /\ event' = [event EXCEPT ![k] = NewDispatch(r, Down)]
            /\ run' = [run EXCEPT ![r].st = "emitting"]
            /\ UNCHANGED <<rows, active, idle>>
       ELSE FailAttempt(r) /\ UNCHANGED event
    /\ UNCHANGED <<phase, gates, recovery, starts, errors>>

Succeed(r) ==
    /\ run[r].st = "running"
    /\ run' = [run EXCEPT ![r].st = "over"]
    /\ rows' = Updated(r, run[r].attempt, "success")
    /\ Accounted(0, 1)
    /\ UNCHANGED <<phase, event, gates, recovery, starts, errors>>

Fail(r) ==
    /\ run[r].st = "running"
    /\ FailAttempt(r)
    /\ UNCHANGED <<phase, event, gates, recovery, starts, errors>>

\* StrategyContractError is never retried.
BreakContract(r) ==
    /\ run[r].st = "running"
    /\ run' = [run EXCEPT ![r].st = "over"]
    /\ rows' = Updated(r, run[r].attempt, "dead_letter")
    /\ Accounted(0, 1)
    /\ UNCHANGED <<phase, event, gates, recovery, starts, errors>>

\* mark_success, mark_failed or mark_dead_letter raises out of the runner:
\* the run is over and its row stays RUNNING.
MarkFails(r) ==
    /\ run[r].st = "running"
    /\ Fails
    /\ run' = [run EXCEPT ![r].st = "over"]
    /\ Accounted(0, 1)
    /\ UNCHANGED <<phase, event, gates, rows, recovery, starts>>

Retry(r) ==
    /\ run[r].st = "backoff"
    /\ run' = [run EXCEPT ![r] = [st |-> "waiting", attempt |-> @.attempt + 1]]
    /\ UNCHANGED <<phase, event, gates, rows, active, idle, recovery, starts, errors>>

-----------------------------------------------------------------------------
(* Start, crash recovery, stop                                             *)

\* The lock is free, the scheduler runs, and the scan finds the RUNNING rows
\* that are older than the cutoff.  Jobs of an earlier engine that are still
\* in the jobstore carry its id: _runner_entry drops them.
Start ==
    /\ phase = "off"
    /\ starts < MaxStarts
    /\ starts' = starts + 1
    /\ phase' = "recovering"
    /\ stale' \in SUBSET {r \in Runs : Unfinished(r)}
    /\ UNCHANGED <<event, gates, run, rows, active, idle, marked, errors>>

\* Mutant: the scan resumes a run and leaves its row RUNNING.
ResumedSilently(r) ==
    /\ phase = "recovering"
    /\ r \in stale /\ marked = {}
    /\ stale' = stale \ {r} /\ marked' = {r}
    /\ UNCHANGED <<phase, event, gates, run, rows, active, idle, starts, errors>>

MarkCrashed(r) ==
    /\ phase = "recovering"
    /\ r \in stale /\ marked = {}
    /\ stale' = stale \ {r} /\ marked' = {r}
    /\ rows' = Updated(r, run[r].attempt, "crashed")
    /\ UNCHANGED <<phase, event, gates, run, active, idle, starts, errors>>

Resumed(r) == <<r[1], r[2], r[3] + 1>>

Resume(r) ==
    /\ r \in marked
    /\ marked' = {}
    /\ run' = [run EXCEPT ![Resumed(r)] = QueuedRun]
    /\ Accounted(1, 0)
    /\ UNCHANGED <<phase, event, gates, rows, stale, starts, errors>>

\* add_job raises; the row stays CRASHED and the scan goes on.
ResumeFails(r) ==
    /\ r \in marked
    /\ Fails
    /\ marked' = {}
    /\ UNCHANGED <<phase, event, gates, run, rows, active, idle, stale, starts>>

StartReturns ==
    /\ phase = "recovering"
    /\ stale = {} /\ marked = {}
    /\ phase' = "up"
    /\ UNCHANGED <<event, gates, run, rows, active, idle, recovery, starts, errors>>

Stop ==
    /\ phase = "up"
    /\ phase' = "draining"
    /\ UNCHANGED <<event, gates, run, rows, active, idle, recovery, starts, errors>>

\* wait_idle: the event wakes the waiter, which runs when the loop comes to it.
Wake ==
    /\ phase = "draining" /\ idle
    /\ phase' = "drained"
    /\ UNCHANGED <<event, gates, run, rows, active, idle, recovery, starts, errors>>

GiveUp ==
    /\ phase = "draining"
    /\ phase' = "late"
    /\ UNCHANGED <<event, gates, run, rows, active, idle, recovery, starts, errors>>

\* The memory of the process is gone: runs and dispatches die where they are.
Halt ==
    /\ phase' = "off"
    /\ run' = [r \in Runs |->
          IF Alive(r) THEN [run[r] EXCEPT !.st = "lost"] ELSE run[r]]
    /\ event' = [k \in Events |->
          IF event[k].st = "gating"
          THEN [event[k] EXCEPT !.st = "raised"] ELSE event[k]]
    /\ active' = 0 /\ idle' = TRUE
    /\ stale' = {} /\ marked' = {}
    /\ UNCHANGED <<gates, rows, starts, errors>>

\* shutdown(wait=False) cancels what is still there and the lock is released.
Shutdown == phase \in {"drained", "late"} /\ Halt

\* A crash at any time, or a start that fails and is rolled back.
Crash == phase # "off" /\ starts < MaxStarts /\ Halt

-----------------------------------------------------------------------------
Dispatching(k) ==
    \/ \E s \in Strategies : Gate(k, s) \/ Route(k, s)
    \/ Enqueue(k)

Finishing(r) == Succeed(r) \/ Fail(r) \/ BreakContract(r)

Running(r) ==
    \/ Fire(r) \/ StartAttempt(r) \/ StartFails(r) \/ Retry(r)
    \/ Finishing(r) \/ MarkFails(r)
    \/ \E k \in Events : CtxEmit(r, k)

Recovering(r) == MarkCrashed(r) \/ Resume(r) \/ ResumeFails(r)

Lifecycle == \/ Start \/ StartReturns \/ Stop \/ Wake \/ GiveUp
             \/ Shutdown \/ Crash

Next ==
    \/ \E k \in Events : Emit(k) \/ Dispatching(k) \/ DispatchRaises(k)
    \/ \E r \in Runs : Running(r) \/ Recovering(r)
    \/ Lifecycle

Spec == Init /\ [][Next]_vars

\* The loop goes on with every dispatch and every run, the semaphore serves
\* its waiters in order, and a strategy that runs returns or raises.
Fairness ==
    /\ \A k \in Events : WF_vars(Dispatching(k))
    /\ \A r \in Runs : /\ WF_vars(Fire(r)) /\ SF_vars(StartAttempt(r))
                      /\ WF_vars(Finishing(r)) /\ WF_vars(Retry(r))
                      /\ WF_vars(Recovering(r))
    /\ WF_vars(StartReturns)

Live == Spec /\ Fairness

-----------------------------------------------------------------------------
(* Properties                                                              *)

\* _active_runs is the number of runs between their enqueueing and the end of
\* dispatch_run, on every path a run may end, and _idle_event is set exactly
\* when there is none.
ActiveCountsRuns ==
    /\ active = Cardinality({r \in Runs : Alive(r)})
    /\ idle <=> active = 0

\* Whatever attempt a crash interrupts, run_record has its RUNNING row, from
\* which the next start resumes it (as long as the ring buffer keeps it).
ExecutingRunsAreRecorded ==
    \A r \in Runs : HoldsSlot(r) => Unfinished(r)

\* A row leaves RUNNING once: no update, late or from recovery, overwrites
\* what was recorded of an attempt.
StatusIsWrittenOnce ==
    [][\A s \in Strategies : \A i \in DOMAIN rows[s] : \A j \in DOMAIN rows'[s] :
          /\ rows[s][i].run = rows'[s][j].run
          /\ rows[s][i].attempt = rows'[s][j].attempt
          /\ rows[s][i].status # "running"
          => rows'[s][j].status = rows[s][i].status]_vars

\* A run that ended, or died with its process, never runs again under its own
\* name, and of an event and a strategy at most one run is alive.
NoRunTwice ==
    [][\A r \in Runs :
          /\ run[r].st \in {"over", "lost"} => run'[r] = run[r]
          /\ \A q \in Runs : Alive(r)' /\ Alive(q)' /\ r[1] = q[1] /\ r[2] = q[2]
                            => r = q]_vars

\* A Counter gate never lets more through than it was paid for: each run
\* dispatched for a gated strategy used up Threshold counted events, across
\* crashes, failing transactions and interleaved dispatches.
GatedRunsArePaid ==
    \A s \in Gated :
        LET dispatched == {k \in Events :
                             run[<<k, s, 0>>].st # "none"}
        IN Cardinality(dispatched) * Threshold + counter[s] <= counted[s]

\* Every enqueued run ends, or is lost with its process: nothing waits for a
\* slot for ever, not behind retries nor behind runs that emit.
EnqueuedRunsEnd ==
    \A r \in Runs : run[r].st = "queued" ~> run[r].st \in {"over", "lost"}
=============================================================================
