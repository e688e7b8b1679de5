---------------------------- MODULE Maintenance ----------------------------
(***************************************************************************)
(* Upkeep of the LanceDB tables by the cascade worker: one optimize runner *)
(* per kind (_schedule_optimize, _optimize_runner), the rebuild loop, the  *)
(* heartbeat, their supervision and stop(); and the write lock of a table  *)
(* in LanceRepoBase.                                                       *)
(*                                                                         *)
(* Awaiting a task under asyncio.timeout CANCELS that task when the        *)
(* timeout strikes.  A task that ends wakes its waiters before anything    *)
(* that is scheduled later, so the end of a runner and the rebuild loop's  *)
(* next move are one step.                                                 *)
(***************************************************************************)
EXTENDS Naturals, Sequences, FiniteSets, SequencesExt

CONSTANTS
    Kinds,          \* in the order of self._handlers: a sequence
    AlertThreshold, \* _OPTIMIZE_FAILURE_ALERT_THRESHOLD
    Backoffs,       \* len(_REBUILD_CONFLICT_BACKOFFS_SECONDS)
    Restarts,       \* len(_LOOP_RESTART_BACKOFF_SECONDS)
    MaxSweeps,      \* bound: rebuild sweeps
    MaxWrites,      \* bound: commits, by this process and by others
    MaxFaults       \* bound: failures, timeouts and crashes of a loop

ASSUME MaintenanceAssumption ==
    /\ Kinds \in Seq(ToSet(Kinds)) /\ Kinds # <<>> /\ IsInjective(Kinds)
    /\ {AlertThreshold, MaxSweeps} \subseteq Nat \ {0}
    /\ {Backoffs, Restarts, MaxWrites, MaxFaults} \subseteq Nat

Kind == ToSet(Kinds)

VARIABLES
    phase,      \* of the worker: "up", then the steps of stop()
    state,      \* _KindOptimizerState of each kind, without its tasks
    runner,     \* state.task: the optimize runner of each kind
    rebuild,    \* state.rebuild_task of each kind
    loop,       \* _rebuild_loop
    strikes,    \* _supervise's count, for the rebuild loop
    writer,     \* a handler's upsert or delete on each table
    lock,       \* LanceRepoBase._write_lock of each table
    raced,      \* who committed on a table while its maintenance was at work
    tail,       \* history: rows that no optimize has started on since
    lost,       \* history: writers this process lost a locked commit to
    sweeps, writes, faults

vars == <<phase, state, runner, rebuild, loop, strikes, writer, lock, raced, tail,
          lost, sweeps, writes, faults>>

-----------------------------------------------------------------------------
Phase == {"up", "stopping", "halted", "stopped"}

\* A fallback that is cancelled leaves sinceFallback at the threshold or above.
OptimizerState == [dirty : BOOLEAN, failures : 0..AlertThreshold,
                   sinceFallback : Nat,
                   attempt : 0..Backoffs, retry : BOOLEAN]
Clean == [dirty |-> FALSE, failures |-> 0, sinceFallback |-> 0,
          attempt |-> 0, retry |-> FALSE]

\* "waiting" out initial_delay, "parked" on a rebuild, "light" in repo.optimize(),
\* "queued" for the lock and "heavy" with it in repo.prune(), "fallback" in its
\* own rebuild, "cooling" between two runs.
Runner == {"none", "waiting", "parked", "light", "queued", "heavy", "fallback", "cooling"}

\* "queued" for the write lock, "busy" with it in rebuild_indexes.
Rebuild == {"none", "queued", "busy"}

\* "sweep" at the kind in head position, "draining" its runner, "rebuilding" it,
\* "tick" between sweeps; "backoff" in _supervise, "exit" after it asked the
\* process to exit, "cancelled" when the task ended with CancelledError.
LoopPc == {"sweep", "draining", "rebuilding", "tick", "backoff", "exit", "cancelled"}

Holder == {"none", "writer", "prune", "rebuild"}

Init ==
    /\ phase = "up"
    /\ state = [k \in Kind |-> Clean]
    /\ runner = [k \in Kind |-> "none"]
    /\ rebuild = [k \in Kind |-> "none"]
    /\ loop = [pc |-> "sweep", todo |-> Kinds]
    /\ strikes = 0
    /\ writer = [k \in Kind |-> "none"]
    /\ lock = [k \in Kind |-> "none"]
    /\ raced = [k \in Kind |-> {}]
    /\ tail = [k \in Kind |-> FALSE]
    /\ lost = {}
    /\ sweeps = 1 /\ writes = 0 /\ faults = 0

Stopping == phase # "up"
Fault == faults < MaxFaults /\ faults' = faults + 1

counts == <<sweeps, writes>>

-----------------------------------------------------------------------------
(* LanceRepoBase: writers, and other processes, commit on the table *)

\* repo.upsert / update / delete of a handler, inside _locked.
AskWrite(k) ==
    /\ phase = "up" /\ writer[k] = "none" /\ writes < MaxWrites
    /\ writes' = writes + 1
    /\ writer' = [writer EXCEPT ![k] = "queued"]
    /\ UNCHANGED <<phase, state, runner, rebuild, loop, strikes, lock, raced, tail,
                   lost, sweeps, faults>>

\* Mutant: writes that do not take the table's lock.
LockWriteNot(k) ==
    /\ writer[k] = "queued"
    /\ writer' = [writer EXCEPT ![k] = "busy"]
    /\ UNCHANGED <<phase, state, runner, rebuild, loop, strikes, lock, raced, tail,
                   lost, counts, faults>>

LockWrite(k) ==
    /\ writer[k] = "queued" /\ lock[k] = "none"
    /\ lock' = [lock EXCEPT ![k] = "writer"]
    /\ writer' = [writer EXCEPT ![k] = "busy"]
    /\ UNCHANGED <<phase, state, runner, rebuild, loop, strikes, raced, tail,
                   lost, counts, faults>>

\* Maintenance of k that a commit on the table can preempt.
AtWork(k) == runner[k] \in {"light", "heavy"} \/ rebuild[k] = "busy"

RacedBy(k, who) == IF AtWork(k) THEN [raced EXCEPT ![k] = @ \cup {who}] ELSE raced

\* _schedule_optimize(kind): the state after it.
Scheduled(k) ==
    /\ state' = [state EXCEPT ![k].dirty = TRUE]
    /\ runner' = IF runner[k] = "none" THEN [runner EXCEPT ![k] = "waiting"] ELSE runner

\* The write commits and releases; drain_once schedules the kind when its batch is done.
CommitWrite(k) ==
    /\ writer[k] = "busy"
    /\ writer' = [writer EXCEPT ![k] = "none"]
    /\ lock' = [lock EXCEPT ![k] = IF @ = "writer" THEN "none" ELSE @]
    /\ raced' = RacedBy(k, "writer")
    /\ tail' = [tail EXCEPT ![k] = TRUE]
    /\ IF Stopping THEN UNCHANGED <<state, runner>> ELSE Scheduled(k)
    /\ UNCHANGED <<phase, rebuild, loop, strikes, lost, counts, faults>>

\* The deadline of _locked strikes, waiting or writing: VectorStoreBusyError.
WriteBusy(k) ==
    /\ writer[k] # "none"
    /\ Fault
    /\ writer' = [writer EXCEPT ![k] = "none"]
    /\ lock' = [lock EXCEPT ![k] = IF writer[k] = "busy" /\ @ = "writer" THEN "none" ELSE @]
    /\ UNCHANGED <<phase, state, runner, rebuild, loop, strikes, raced, tail, lost, counts>>

\* `cascade backfill` or `cascade sync` in another process: the lock does not fence it.
OtherProcessCommits(k) ==
    /\ writes < MaxWrites
    /\ writes' = writes + 1
    /\ raced' = RacedBy(k, "other process")
    /\ UNCHANGED <<phase, state, runner, rebuild, loop, strikes, writer, lock, tail, lost,
                   sweeps, faults>>

-----------------------------------------------------------------------------
(* _optimize_runner and _run_optimize_once *)

\* Mutant: the heartbeat leaves a kind alone that no write has marked dirty.
HeartbeatIfDirty(k) ==
    /\ phase = "up" /\ state[k].dirty
    /\ Scheduled(k)
    /\ UNCHANGED <<phase, rebuild, loop, strikes, writer, lock, raced, tail, lost,
                   counts, faults>>

Heartbeat(k) ==
    /\ phase = "up"
    /\ Scheduled(k)
    /\ UNCHANGED <<phase, rebuild, loop, strikes, writer, lock, raced, tail, lost,
                   counts, faults>>

Drains(k) == loop.pc = "draining" /\ Head(loop.todo) = k

\* The runner ends; a rebuild loop that waits for it starts its rebuild at once.
EndRunner(k) ==
    /\ runner' = [runner EXCEPT ![k] = "none"]
    /\ IF Drains(k)
       THEN /\ rebuild' = [rebuild EXCEPT ![k] = "queued"]
            /\ loop' = [loop EXCEPT !.pc = "rebuilding"]
       ELSE UNCHANGED <<rebuild, loop>>

\* A light or a heavy run, by the prune clock.
StartRun(k) ==
    /\ state[k].dirty /\ ~Stopping
    /\ state' = [state EXCEPT ![k].dirty = FALSE]
    /\ \/ /\ runner' = [runner EXCEPT ![k] = "light"]
          /\ raced' = [raced EXCEPT ![k] = IF AtWork(k) THEN @ ELSE {}]
       \/ runner' = [runner EXCEPT ![k] = "queued"] /\ UNCHANGED raced
    /\ UNCHANGED <<rebuild, loop>>

\* while state.dirty and not self._stop.is_set()
LoopHead(k) ==
    \/ StartRun(k)
    \/ /\ ~state[k].dirty \/ Stopping
       /\ EndRunner(k)
       /\ UNCHANGED <<state, raced>>

\* initial_delay has passed, or stop() has cut it: park on a rebuild in flight, or start.
Begin(k) ==
    /\ runner[k] = "waiting"
    /\ \/ /\ rebuild[k] # "none"
          /\ runner' = [runner EXCEPT ![k] = "parked"]
          /\ UNCHANGED <<state, raced, rebuild, loop>>
       \/ (rebuild[k] = "none" \/ Stopping) /\ LoopHead(k)
    /\ UNCHANGED <<phase, strikes, writer, lock, tail, lost, counts, faults>>

\* The rebuild the runner waited for is over, and so is its cooldown.
Resume(k) ==
    /\ \/ runner[k] = "parked" /\ rebuild[k] = "none"
       \/ runner[k] = "cooling"
    /\ LoopHead(k)
    /\ UNCHANGED <<phase, strikes, writer, lock, tail, lost, counts, faults>>

\* TimeoutError in the wait for the rebuild, whose own deadline (300 s) is longer than
\* this one (180 s): the rebuild is cancelled with it, and
\* CancelledError ends the loop that awaits it, its supervisor included.
GiveUpOnRebuild(k) ==
    /\ runner[k] = "parked" /\ rebuild[k] # "none"
    /\ Fault
    /\ runner' = [runner EXCEPT ![k] = "none"]
    /\ rebuild' = [rebuild EXCEPT ![k] = "none"]
    /\ lock' = [lock EXCEPT ![k] = IF @ = "rebuild" THEN "none" ELSE @]
    /\ loop' = [loop EXCEPT !.pc = "cancelled"]
    /\ UNCHANGED <<phase, state, strikes, writer, raced, tail, lost, counts>>

LockPrune(k) ==
    /\ runner[k] = "queued" /\ lock[k] = "none"
    /\ lock' = [lock EXCEPT ![k] = "prune"]
    /\ runner' = [runner EXCEPT ![k] = "heavy"]
    /\ raced' = [raced EXCEPT ![k] = IF AtWork(k) THEN @ ELSE {}]
    /\ UNCHANGED <<phase, state, rebuild, loop, strikes, writer, tail, lost, counts, faults>>

PruneReleased(k) == [lock EXCEPT ![k] = IF @ = "prune" THEN "none" ELSE @]

\* After one run: cool down if writes came meanwhile, else end.
AfterRun(k) ==
    \/ /\ state[k].dirty /\ ~Stopping
       /\ runner' = [runner EXCEPT ![k] = "cooling"]
       /\ UNCHANGED <<rebuild, loop>>
    \/ (~state[k].dirty \/ Stopping) /\ EndRunner(k)

\* repo.optimize() or repo.prune() returned.
RunCommits(k) ==
    /\ runner[k] \in {"light", "heavy"}
    /\ lock' = PruneReleased(k)
    /\ raced' = IF rebuild[k] = "busy" THEN [raced EXCEPT ![k] = @ \cup {"optimize"}] ELSE raced
    /\ tail' = [tail EXCEPT ![k] = @ /\ "writer" \in raced[k]]
    /\ state' = [state EXCEPT ![k].failures = 0, ![k].sinceFallback = 0]
    /\ AfterRun(k)
    /\ UNCHANGED <<phase, strikes, writer, lost, counts, faults>>

\* _is_benign_commit_conflict: the commit was preempted; not counted.
RunConflicts(k) ==
    /\ runner[k] \in {"light", "heavy"} /\ raced[k] # {}
    /\ lock' = PruneReleased(k)
    /\ lost' = IF runner[k] = "heavy" THEN lost \cup raced[k] ELSE lost
    /\ AfterRun(k)
    /\ UNCHANGED <<phase, state, strikes, writer, raced, tail, counts, faults>>

\* Any other error or deadline: counted, and every AlertThreshold failures a rebuild.
RunFails(k) ==
    /\ runner[k] \in {"light", "queued", "heavy"}
    /\ Fault
    /\ lock' = PruneReleased(k)
    /\ LET since == state[k].sinceFallback + 1 IN
       /\ state' = [state EXCEPT
                      ![k].failures = IF @ < AlertThreshold THEN @ + 1 ELSE @,
                      ![k].sinceFallback = since]
       /\ IF since >= AlertThreshold
          THEN /\ runner' = [runner EXCEPT ![k] = "fallback"]
               /\ rebuild' = [rebuild EXCEPT ![k] = "queued"]
               /\ UNCHANGED loop
          ELSE AfterRun(k)
    /\ UNCHANGED <<phase, strikes, writer, raced, tail, lost, counts>>

-----------------------------------------------------------------------------
(* _rebuild_loop and _run_rebuild_once *)

NextKind ==
    IF Len(loop.todo) = 1 THEN [pc |-> "tick", todo |-> <<>>]
    ELSE [pc |-> "sweep", todo |-> Tail(loop.todo)]

\* The next kind's turn: wait for its runner, or start the rebuild.
Turn ==
    LET k == Head(loop.todo) IN
    /\ loop.pc = "sweep" /\ ~Stopping
    /\ IF runner[k] # "none"
       THEN loop' = [loop EXCEPT !.pc = "draining"] /\ UNCHANGED rebuild
       ELSE /\ loop' = [loop EXCEPT !.pc = "rebuilding"]
            /\ rebuild' = [rebuild EXCEPT ![k] = "queued"]
    /\ UNCHANGED <<phase, state, runner, strikes, writer, lock, raced, tail, lost,
                   counts, faults>>

\* The runner's task is cancelled, with the rebuild it may be awaiting.
CancelRunner(k) ==
    /\ runner' = [runner EXCEPT ![k] = "none"]
    /\ rebuild' = [rebuild EXCEPT ![k] = IF runner[k] = "fallback" THEN "none" ELSE @]
    /\ lock' = [lock EXCEPT ![k] =
                  IF (runner[k] = "heavy" /\ @ = "prune")
                     \/ (runner[k] = "fallback" /\ @ = "rebuild")
                  THEN "none" ELSE @]

\* TimeoutError in the wait for the runner: this kind is skipped.
GiveUpOnRunner(k) ==
    /\ Drains(k)
    /\ Fault
    /\ CancelRunner(k)
    /\ loop' = NextKind
    /\ UNCHANGED <<phase, state, strikes, writer, raced, tail, lost, counts>>

LockRebuild(k) ==
    /\ rebuild[k] = "queued" /\ lock[k] = "none"
    /\ lock' = [lock EXCEPT ![k] = "rebuild"]
    /\ rebuild' = [rebuild EXCEPT ![k] = "busy"]
    /\ raced' = [raced EXCEPT ![k] = IF AtWork(k) THEN @ ELSE {}]
    /\ UNCHANGED <<phase, state, runner, loop, strikes, writer, tail, lost, counts, faults>>

\* What the awaiter does next: the runner's fallback, or the loop.
RebuildReturns(k, attempt, retry) ==
    LET ends == runner[k] = "fallback" /\ (~state[k].dirty \/ Stopping)
        again == ends /\ Drains(k) IN
    /\ rebuild' = [rebuild EXCEPT ![k] = IF again THEN "queued" ELSE "none"]
    /\ lock' = [lock EXCEPT ![k] = IF @ = "rebuild" THEN "none" ELSE @]
    /\ state' = [state EXCEPT ![k].attempt = attempt, ![k].retry = retry,
                              ![k].sinceFallback = IF runner[k] = "fallback" THEN 0 ELSE @]
    /\ runner' = [runner EXCEPT ![k] = IF ends THEN "none"
                                       ELSE IF @ = "fallback" THEN "cooling" ELSE @]
    /\ loop' = IF runner[k] # "fallback" THEN NextKind
               ELSE IF again THEN [loop EXCEPT !.pc = "rebuilding"] ELSE loop

RebuildCommits(k) ==
    /\ rebuild[k] = "busy"
    /\ RebuildReturns(k, 0, FALSE)
    /\ raced' = IF runner[k] \in {"light", "heavy"}
                THEN [raced EXCEPT ![k] = @ \cup {"rebuild"}] ELSE raced
    /\ UNCHANGED <<phase, strikes, writer, tail, lost, counts, faults>>

\* A lost commit race: a retry is scheduled while the backoffs last.
RebuildConflicts(k) ==
    /\ rebuild[k] = "busy" /\ raced[k] # {}
    /\ lost' = lost \cup raced[k]
    /\ IF state[k].attempt < Backoffs
       THEN RebuildReturns(k, state[k].attempt + 1, TRUE)
       ELSE RebuildReturns(k, 0, FALSE)
    /\ UNCHANGED <<phase, strikes, writer, raced, tail, counts, faults>>

RebuildFails(k) ==
    /\ rebuild[k] # "none"
    /\ Fault
    /\ RebuildReturns(k, 0, FALSE)
    /\ UNCHANGED <<phase, strikes, writer, raced, tail, lost, counts>>

\* optimize_rebuild_interval has passed.
Sweep ==
    /\ loop.pc = "tick" /\ ~Stopping /\ sweeps < MaxSweeps
    /\ sweeps' = sweeps + 1
    /\ loop' = [pc |-> "sweep", todo |-> Kinds]
    /\ UNCHANGED <<phase, state, runner, rebuild, strikes, writer, lock, raced, tail, lost,
                   writes, faults>>

\* A conflict's deadline has passed.
Retry(k) ==
    /\ loop.pc = "tick" /\ ~Stopping /\ state[k].retry
    /\ state' = [state EXCEPT ![k].retry = FALSE]
    /\ loop' = [pc |-> "sweep", todo |-> <<k>>]
    /\ UNCHANGED <<phase, runner, rebuild, strikes, writer, lock, raced, tail, lost,
                   counts, faults>>

\* The loop's body raises, after a short or a long run; _supervise counts and restarts.
LoopCrashes(stable) ==
    LET count == IF stable THEN 1 ELSE strikes + 1 IN
    /\ loop.pc \in {"sweep", "tick"} /\ ~Stopping
    /\ Fault
    /\ strikes' = count
    /\ loop' = [loop EXCEPT !.pc = IF count > Restarts THEN "exit" ELSE "backoff"]
    /\ UNCHANGED <<phase, state, runner, rebuild, writer, lock, raced, tail, lost, counts>>

LoopRestarts ==
    /\ loop.pc = "backoff" /\ ~Stopping
    /\ loop' = [pc |-> "sweep", todo |-> Kinds]
    /\ UNCHANGED <<phase, state, runner, rebuild, strikes, writer, lock, raced, tail, lost,
                   counts, faults>>

-----------------------------------------------------------------------------
(* stop() *)

\* _stop is set; the drain task, with the handlers it awaits, and the heartbeat
\* are cancelled.
StopBegins ==
    /\ phase = "up"
    /\ phase' = "stopping"
    /\ writer' = [k \in Kind |-> "none"]
    /\ lock' = [k \in Kind |-> IF lock[k] = "writer" THEN "none" ELSE lock[k]]
    /\ UNCHANGED <<state, runner, rebuild, loop, strikes, raced, tail, lost, counts, faults>>

\* Mutant: the rebuild loop is cancelled, its rebuild is not.
StopLoopOnly ==
    /\ phase = "stopping"
    /\ phase' = "halted"
    /\ loop' = [loop EXCEPT !.pc = IF @ = "exit" THEN @ ELSE "cancelled"]
    /\ UNCHANGED <<state, runner, rebuild, strikes, writer, lock, raced, tail, lost,
                   counts, faults>>

\* The rebuild loop is cancelled, and whatever it awaits with it.
StopLoop ==
    /\ phase = "stopping"
    /\ phase' = "halted"
    /\ loop' = [loop EXCEPT !.pc = IF @ = "exit" THEN @ ELSE "cancelled"]
    /\ \/ loop.pc = "draining" /\ CancelRunner(Head(loop.todo))
       \/ /\ loop.pc = "rebuilding"
          /\ LET k == Head(loop.todo) IN
             /\ rebuild' = [rebuild EXCEPT ![k] = "none"]
             /\ lock' = [lock EXCEPT ![k] = IF @ = "rebuild" THEN "none" ELSE @]
          /\ UNCHANGED runner
       \/ /\ loop.pc \notin {"draining", "rebuilding"}
          /\ UNCHANGED <<runner, rebuild, lock>>
    /\ UNCHANGED <<state, strikes, writer, raced, tail, lost, counts, faults>>

\* _flush_optimizers has gathered the tasks in flight.
StopReturns ==
    /\ phase = "halted"
    /\ \A k \in Kind : runner[k] = "none"
    /\ phase' = "stopped"
    /\ UNCHANGED <<state, runner, rebuild, loop, strikes, writer, lock, raced, tail, lost,
                   counts, faults>>

-----------------------------------------------------------------------------
WriteStep(k) == LockWrite(k) \/ CommitWrite(k)
RunnerStep(k) == Begin(k) \/ Resume(k) \/ LockPrune(k) \/ RunCommits(k) \/ RunConflicts(k)
RebuildStep(k) == LockRebuild(k) \/ RebuildCommits(k) \/ RebuildConflicts(k)
LoopStep == Turn \/ Sweep \/ (\E k \in Kind : Retry(k)) \/ LoopRestarts
StopStep == StopLoop \/ StopReturns

Next ==
    \/ \E k \in Kind :
          \/ AskWrite(k) \/ WriteStep(k) \/ WriteBusy(k) \/ OtherProcessCommits(k)
          \/ Heartbeat(k)
          \/ RunnerStep(k) \/ RunFails(k) \/ GiveUpOnRebuild(k) \/ GiveUpOnRunner(k)
          \/ RebuildStep(k) \/ RebuildFails(k)
    \/ LoopStep
    \/ \E stable \in BOOLEAN : LoopCrashes(stable)
    \/ StopBegins \/ StopStep

\* Tasks that are not cancelled go on, and the heartbeat keeps beating.
Fairness ==
    /\ \A k \in Kind : /\ WF_vars(WriteStep(k)) /\ WF_vars(Heartbeat(k))
                       /\ WF_vars(RunnerStep(k)) /\ WF_vars(RebuildStep(k))
    /\ WF_vars(LoopStep) /\ WF_vars(StopStep)

Spec == Init /\ [][Next]_vars /\ Fairness

-----------------------------------------------------------------------------
(* Properties *)

\* Every variable has its type.
TypeOK ==
    /\ phase \in Phase
    /\ state \in [Kind -> OptimizerState]
    /\ runner \in [Kind -> Runner]
    /\ rebuild \in [Kind -> Rebuild]
    /\ loop \in [pc : LoopPc, todo : Seq(Kind)]
    /\ strikes \in 0..(Restarts + 1)
    /\ writer \in [Kind -> {"none", "queued", "busy"}]
    /\ lock \in [Kind -> Holder]
    /\ raced \in [Kind -> SUBSET {"writer", "other process", "optimize", "rebuild"}]
    /\ tail \in [Kind -> BOOLEAN]
    /\ lost \subseteq {"writer", "other process", "optimize", "rebuild"}
    /\ sweeps \in 1..MaxSweeps /\ writes \in 0..MaxWrites /\ faults \in 0..MaxFaults

\* A prune or a rebuild that loses its commit has lost it to another process: in this
\* one neither a handler's write (the lock) nor the other maintenance job (each waits
\* for the other's task) commits on the table meanwhile, whatever times out, fails,
\* is cancelled or falls back; "the two commit on the same manifest".
LockedWorkLosesOnlyToOthers == lost \subseteq {"other process"}

\* When stop() returns nothing of this process is at work on a table, and no lock
\* is held: no run outlives its cancelled awaiter.
StoppedIsQuiet ==
    phase = "stopped" =>
        \A k \in Kind : runner[k] = "none" /\ rebuild[k] = "none" /\ lock[k] = "none"

\* The rebuild loop is running, or being restarted, or has asked the process to exit;
\* only stop() cancels it (worker.py: without supervision "one uncaught exception ends
\* that loop permanently and silently").
LoopsDieLoudly == loop.pc = "cancelled" => phase \in {"halted", "stopped"}

\* Rows a handler wrote are merged into the indexes in the end, whatever was lost to a
\* conflict, a failure or a cancelled runner on the way: the heartbeat is the safety
\* net; unless the worker stops.
TailIsMerged == \A k \in Kind : tail[k] ~> (~tail[k] \/ phase # "up")

=============================================================================
