------------------------- MODULE MaintenanceProofs -------------------------
(***************************************************************************)
(* For any kinds, bounds and counts: locked maintenance loses its commit   *)
(* to other processes only, and a worker that has stopped is quiet.        *)
(***************************************************************************)
EXTENDS Maintenance, SequenceTheorems, TLAPS

-----------------------------------------------------------------------------
(* The inductive invariant *)

\* The rebuild loop awaits the rebuild of k.
Rebuilds(k) == loop.pc = "rebuilding" /\ Head(loop.todo) = k

\* The table's lock is held by the one job that is in its locked section.
HeldByItsJob(k) ==
    /\ lock[k] = "writer" <=> writer[k] = "busy"
    /\ lock[k] = "prune" <=> runner[k] = "heavy"
    /\ lock[k] = "rebuild" <=> rebuild[k] = "busy"

\* A rebuild has one awaiter: a runner that fell back, or the rebuild loop, and
\* then the runner of its kind has not started a run.
AwaitedOnce(k) ==
    /\ runner[k] = "fallback" => rebuild[k] # "none" /\ ~ Rebuilds(k)
    /\ Rebuilds(k) => rebuild[k] # "none"
    /\ rebuild[k] # "none" /\ runner[k] # "fallback" =>
          Rebuilds(k) /\ runner[k] \in {"none", "waiting", "parked"}

\* Only another process commits beside a prune or a rebuild that holds the lock.
RacedByOthers(k) ==
    runner[k] = "heavy" \/ rebuild[k] = "busy" => raced[k] \subseteq {"other process"}

\* What each step of stop() has ended, for good.
Stops ==
    /\ phase # "up" => \A k \in Kind : writer[k] = "none"
    /\ phase \in {"halted", "stopped"} => loop.pc \in {"exit", "cancelled"}
    /\ phase = "stopped" => \A k \in Kind : runner[k] = "none"

\* The loop has a kind to work on, and asks the process to exit at the last restart.
Turns ==
    /\ loop.pc \in {"sweep", "draining", "rebuilding"} => loop.todo # <<>>
    /\ loop.pc # "exit" => strikes <= Restarts

Tables == \A k \in Kind : HeldByItsJob(k) /\ AwaitedOnce(k) /\ RacedByOthers(k)

IInv == TypeOK /\ Tables /\ Stops /\ Turns /\ LockedWorkLosesOnlyToOthers

-----------------------------------------------------------------------------
(* Data *)

LEMMA Numbers ==
    /\ AlertThreshold \in Nat \ {0} /\ Backoffs \in Nat /\ Restarts \in Nat
    /\ MaxSweeps \in Nat \ {0} /\ MaxWrites \in Nat /\ MaxFaults \in Nat
    /\ Kinds \in Seq(Kind) /\ Kinds # <<>>
  BY MaintenanceAssumption DEF Kind

LEMMA CountersAre ==
    ASSUME IInv
    PROVE  /\ strikes \in 0..(Restarts + 1) /\ strikes \in Nat
           /\ sweeps \in 1..MaxSweeps /\ sweeps \in Nat
           /\ writes \in 0..MaxWrites /\ writes \in Nat
           /\ faults \in 0..MaxFaults /\ faults \in Nat
  <1>1. /\ strikes \in 0..(Restarts + 1) /\ sweeps \in 1..MaxSweeps
        /\ writes \in 0..MaxWrites /\ faults \in 0..MaxFaults
    BY DEF IInv, TypeOK
  <1>2. QED
    BY <1>1, Numbers

\* What holds of one table.
LEMMA Table ==
    ASSUME IInv, NEW k \in Kind
    PROVE  /\ runner[k] \in Runner /\ rebuild[k] \in Rebuild
           /\ writer[k] \in {"none", "queued", "busy"} /\ lock[k] \in Holder
           /\ HeldByItsJob(k) /\ AwaitedOnce(k) /\ RacedByOthers(k)
  BY DEF IInv, TypeOK, Tables

\* The kinds of the loop.
LEMMA LoopKinds ==
    ASSUME IInv
    PROVE  /\ loop \in [pc : LoopPc, todo : Seq(Kind)]
           /\ loop.todo # <<>> => /\ Head(loop.todo) \in Kind
                                  /\ NextKind \in [pc : LoopPc, todo : Seq(Kind)]
                                  /\ NextKind.pc \in {"sweep", "tick"}
                                  /\ NextKind.pc = "sweep" => NextKind.todo # <<>>
  <1>1. loop \in [pc : LoopPc, todo : Seq(Kind)]
    BY DEF IInv, TypeOK
  <1>2. loop.todo # <<>> =>
           /\ Head(loop.todo) \in Kind
           /\ Tail(loop.todo) \in Seq(Kind)
           /\ Len(loop.todo) # 1 => Tail(loop.todo) # <<>>
    <2> SUFFICES ASSUME loop.todo # <<>>
                 PROVE  /\ Head(loop.todo) \in Kind
                        /\ Tail(loop.todo) \in Seq(Kind)
                        /\ Len(loop.todo) # 1 => Tail(loop.todo) # <<>>
      OBVIOUS
    <2>1. loop.todo \in Seq(Kind)
      BY <1>1
    <2>2. /\ Head(loop.todo) \in Kind
          /\ Tail(loop.todo) \in Seq(Kind) /\ Len(Tail(loop.todo)) = Len(loop.todo) - 1
          /\ Len(loop.todo) \in Nat
      BY <2>1, HeadTailProperties, LenProperties
    <2>3. ASSUME Tail(loop.todo) = <<>> PROVE Len(Tail(loop.todo)) = 0
      BY <2>3, EmptySeq
    <2>4. QED
      BY <2>2, <2>3
  <1>3. QED
    BY <1>1, <1>2 DEF NextKind, LoopPc

\* A step on one table leaves the others as they are.
Elsewhere(k) ==
    \A j \in Kind \ {k} :
        /\ lock'[j] = lock[j] /\ writer'[j] = writer[j]
        /\ runner'[j] = runner[j] /\ rebuild'[j] = rebuild[j]
        /\ raced'[j] = raced[j]
        /\ Rebuilds(j)' <=> Rebuilds(j)

LEMMA OneTable ==
    ASSUME IInv, NEW k \in Kind, Elsewhere(k),
           HeldByItsJob(k)', AwaitedOnce(k)', RacedByOthers(k)'
    PROVE  Tables'
  <1> SUFFICES ASSUME NEW j \in Kind
               PROVE  HeldByItsJob(j)' /\ AwaitedOnce(j)' /\ RacedByOthers(j)'
    BY DEF Tables
  <1>1. CASE j = k
    BY <1>1
  <1>2. CASE j # k
    <2>1. HeldByItsJob(j) /\ AwaitedOnce(j) /\ RacedByOthers(j)
      BY Table
    <2>2. QED
      BY <1>2, <2>1 DEF Elsewhere, HeldByItsJob, AwaitedOnce, RacedByOthers
  <1>3. QED
    BY <1>1, <1>2

-----------------------------------------------------------------------------
(* The parts of the steps *)

\* The loop stays where it is, or goes from waiting for the runner to its rebuild.
LoopWaits(k) ==
    \/ loop' = loop
    \/ /\ Drains(k)
       /\ loop' \in [pc : LoopPc, todo : Seq(Kind)]
       /\ loop'.pc = "rebuilding" /\ loop'.todo = loop.todo

LEMMA EndRunnerDoes ==
    ASSUME IInv, NEW k \in Kind, EndRunner(k), runner[k] # "fallback"
    PROVE  /\ runner'[k] = "none"
           /\ rebuild'[k] = "busy" <=> rebuild[k] = "busy"
           /\ AwaitedOnce(k)'
           /\ LoopWaits(k)
  <1>1. /\ runner'[k] = "none"
        /\ runner[k] \in Runner /\ AwaitedOnce(k)
    BY Table DEF EndRunner, IInv, TypeOK
  <1>2. CASE Drains(k)
    <2>1. /\ rebuild'[k] = "queued"
          /\ loop'.pc = "rebuilding" /\ loop'.todo = loop.todo
          /\ loop' \in [pc : LoopPc, todo : Seq(Kind)]
      <3>1. rebuild'[k] = "queued" /\ loop' = [loop EXCEPT !.pc = "rebuilding"]
        BY <1>2 DEF EndRunner, IInv, TypeOK
      <3>2. loop \in [pc : LoopPc, todo : Seq(Kind)] /\ "rebuilding" \in LoopPc
        BY LoopKinds DEF LoopPc
      <3>3. QED
        BY <3>1, <3>2
    <2>2. rebuild[k] = "none"
      BY <1>1, <1>2 DEF AwaitedOnce, Rebuilds, Drains
    <2>3. QED
      BY <1>1, <1>2, <2>1, <2>2 DEF AwaitedOnce, Rebuilds, LoopWaits, Drains
  <1>3. CASE ~ Drains(k)
    BY <1>1, <1>3 DEF EndRunner, AwaitedOnce, Rebuilds, LoopWaits
  <1>4. QED
    BY <1>2, <1>3

LEMMA AfterRunDoes ==
    ASSUME IInv, NEW k \in Kind, AfterRun(k), runner[k] \in {"light", "queued", "heavy"}
    PROVE  /\ runner'[k] \in {"none", "cooling"}
           /\ rebuild'[k] = "busy" <=> rebuild[k] = "busy"
           /\ AwaitedOnce(k)'
           /\ LoopWaits(k)
  <1>1. CASE EndRunner(k)
    BY <1>1, EndRunnerDoes
  <1>2. CASE ~ EndRunner(k)
    <2>1. runner'[k] = "cooling" /\ UNCHANGED <<rebuild, loop>>
      BY <1>2 DEF AfterRun, IInv, TypeOK
    <2>2. rebuild[k] = "none" /\ ~ Rebuilds(k)
      BY Table DEF AwaitedOnce
    <2>3. QED
      BY <2>1, <2>2 DEF AwaitedOnce, Rebuilds, LoopWaits
  <1>3. QED
    BY <1>1, <1>2

\* The head of the runner's loop, when no rebuild is in flight or the worker stops.
LEMMA LoopHeadDoes ==
    ASSUME IInv, NEW k \in Kind, LoopHead(k),
           runner[k] \in {"waiting", "parked", "cooling"},
           rebuild[k] = "none" \/ Stopping
    PROVE  /\ runner'[k] \in {"none", "light", "queued"}
           /\ rebuild'[k] = "busy" <=> rebuild[k] = "busy"
           /\ raced'[k] = raced[k] \/ rebuild[k] = "none"
           /\ AwaitedOnce(k)'
           /\ LoopWaits(k)
  <1>1. CASE StartRun(k)
    <2>1. /\ runner'[k] \in {"light", "queued"} /\ UNCHANGED <<rebuild, loop>>
          /\ rebuild[k] = "none"
      BY <1>1 DEF StartRun, IInv, TypeOK
    <2>2. ~ Rebuilds(k)
      BY <2>1, Table DEF AwaitedOnce
    <2>3. QED
      BY <2>1, <2>2 DEF AwaitedOnce, Rebuilds, LoopWaits
  <1>2. CASE ~ StartRun(k)
    BY <1>2, EndRunnerDoes DEF LoopHead
  <1>3. QED
    BY <1>1, <1>2

\* The kinds a step leaves alone.
LEMMA LoopWaitsElsewhere ==
    ASSUME IInv, NEW k \in Kind, LoopWaits(k), NEW j \in Kind \ {k}
    PROVE  Rebuilds(j)' <=> Rebuilds(j)
  BY DEF LoopWaits, Rebuilds, Drains

LEMMA LoopWaitsTurns ==
    ASSUME IInv, NEW k \in Kind, LoopWaits(k), UNCHANGED strikes
    PROVE  Turns'
  BY DEF LoopWaits, Drains, IInv, Turns

LEMMA LoopWaitsStops ==
    ASSUME IInv, NEW k \in Kind, LoopWaits(k), phase \in {"halted", "stopped"}
    PROVE  loop' = loop
  BY DEF LoopWaits, Drains, IInv, Stops

\* A rebuild in flight returns to its awaiter.
LEMMA RebuildReturnsDoes ==
    ASSUME IInv, NEW k \in Kind, NEW attempt, NEW retry,
           RebuildReturns(k, attempt, retry), rebuild[k] # "none"
    PROVE  /\ \A j \in Kind \ {k} : /\ lock'[j] = lock[j] /\ runner'[j] = runner[j]
                                    /\ rebuild'[j] = rebuild[j]
                                    /\ Rebuilds(j)' <=> Rebuilds(j)
           /\ lock'[k] = IF lock[k] = "rebuild" THEN "none" ELSE lock[k]
           /\ runner'[k] \in {"none", "cooling", "waiting", "parked"}
           /\ runner[k] = "none" => runner'[k] = "none"
           /\ rebuild'[k] \in {"none", "queued"}
           /\ AwaitedOnce(k)'
           /\ loop'.pc \in {"sweep", "draining", "rebuilding"} => loop'.todo # <<>>
           /\ loop'.pc = "exit" <=> loop.pc = "exit"
           /\ phase \in {"halted", "stopped"} => loop' = loop
  <1>1. /\ \A j \in Kind \ {k} : /\ lock'[j] = lock[j] /\ runner'[j] = runner[j]
                                 /\ rebuild'[j] = rebuild[j]
        /\ lock'[k] = IF lock[k] = "rebuild" THEN "none" ELSE lock[k]
    BY DEF RebuildReturns, IInv, TypeOK
  <1>2. /\ AwaitedOnce(k) /\ Turns /\ Stops /\ runner[k] \in Runner
        /\ loop \in [pc : LoopPc, todo : Seq(Kind)]
    BY Table, LoopKinds DEF IInv
  <1>3. CASE runner[k] # "fallback"
    <2>1. Rebuilds(k) /\ runner[k] \in {"none", "waiting", "parked"}
      BY <1>2, <1>3 DEF AwaitedOnce
    <2>2. /\ rebuild'[k] = "none" /\ runner'[k] = runner[k] /\ loop' = NextKind
      BY <1>3 DEF RebuildReturns, IInv, TypeOK
    <2>3. NextKind.pc \in {"sweep", "tick"} /\ (NextKind.pc = "sweep" => NextKind.todo # <<>>)
      BY <1>2, <2>1, LoopKinds DEF Rebuilds, Turns
    <2>4. QED
      BY <1>1, <1>2, <2>1, <2>2, <2>3 DEF AwaitedOnce, Rebuilds, Stops
  <1>4. CASE runner[k] = "fallback" /\ ~ (~ state[k].dirty \/ Stopping)
    <2>1. /\ rebuild'[k] = "none" /\ runner'[k] = "cooling" /\ loop' = loop
      BY <1>4 DEF RebuildReturns, IInv, TypeOK
    <2>2. QED
      BY <1>1, <1>2, <1>4, <2>1 DEF AwaitedOnce, Rebuilds, Stops, Turns
  <1>5. CASE runner[k] = "fallback" /\ (~ state[k].dirty \/ Stopping) /\ ~ Drains(k)
    <2>1. /\ rebuild'[k] = "none" /\ runner'[k] = "none" /\ loop' = loop
      BY <1>5 DEF RebuildReturns, IInv, TypeOK
    <2>2. QED
      BY <1>1, <1>2, <1>5, <2>1 DEF AwaitedOnce, Rebuilds, Stops, Turns
  <1>6. CASE runner[k] = "fallback" /\ (~ state[k].dirty \/ Stopping) /\ Drains(k)
    <2>1. /\ rebuild'[k] = "queued" /\ runner'[k] = "none"
          /\ loop' = [loop EXCEPT !.pc = "rebuilding"]
      BY <1>6 DEF RebuildReturns, IInv, TypeOK
    <2>2. /\ loop'.pc = "rebuilding" /\ loop'.todo = loop.todo
          /\ loop.pc = "draining" /\ Head(loop.todo) = k
      BY <1>2, <1>6, <2>1 DEF Drains
    <2>3. QED
      BY <1>1, <1>2, <1>6, <2>1, <2>2 DEF AwaitedOnce, Rebuilds, Stops, Turns
  <1>7. QED
    BY <1>3, <1>4, <1>5, <1>6

-----------------------------------------------------------------------------
(* Each step keeps the invariant *)

Kept == Tables' /\ Stops' /\ Turns' /\ LockedWorkLosesOnlyToOthers'

\* A step that leaves the loop, the runners and the rebuilds alone.
LEMMA LoopStays ==
    ASSUME IInv, UNCHANGED <<runner, rebuild, loop>>, NEW k \in Kind
    PROVE  /\ Rebuilds(k)' <=> Rebuilds(k)
           /\ AwaitedOnce(k)'
           /\ UNCHANGED strikes => Turns'
  BY Table DEF Rebuilds, AwaitedOnce, Turns, IInv

LEMMA AskWriteKeeps ==
    ASSUME IInv, NEW k \in Kind, AskWrite(k) PROVE Kept
  <1>1. Elsewhere(k) /\ HeldByItsJob(k)' /\ RacedByOthers(k)'
    BY LoopStays, Table DEF AskWrite, Elsewhere, HeldByItsJob, RacedByOthers, IInv, TypeOK
  <1>2. Stops' /\ Turns' /\ AwaitedOnce(k)' /\ LockedWorkLosesOnlyToOthers'
    BY LoopStays DEF AskWrite, IInv, TypeOK, Stops, LockedWorkLosesOnlyToOthers
  <1>3. QED
    BY <1>1, <1>2, OneTable DEF Kept

LEMMA LockWriteKeeps ==
    ASSUME IInv, NEW k \in Kind, LockWrite(k) PROVE Kept
  <1>1. Elsewhere(k) /\ HeldByItsJob(k)' /\ RacedByOthers(k)'
    BY LoopStays, Table DEF LockWrite, Elsewhere, HeldByItsJob, RacedByOthers, IInv, TypeOK
  <1>2. Stops' /\ Turns' /\ AwaitedOnce(k)' /\ LockedWorkLosesOnlyToOthers'
    BY LoopStays DEF LockWrite, IInv, TypeOK, Stops, LockedWorkLosesOnlyToOthers
  <1>3. QED
    BY <1>1, <1>2, OneTable DEF Kept

\* A writer that commits holds the lock: no prune and no rebuild is in its section.
LEMMA CommitWriteKeeps ==
    ASSUME IInv, NEW k \in Kind, CommitWrite(k) PROVE Kept
  <1>1. /\ HeldByItsJob(k) /\ AwaitedOnce(k) /\ runner[k] \in Runner
        /\ writer[k] = "busy" /\ lock[k] = "writer"
        /\ phase = "up"
    BY Table DEF CommitWrite, HeldByItsJob, IInv, Stops
  <1>2. /\ runner[k] # "heavy" /\ rebuild[k] # "busy"
    BY <1>1 DEF HeldByItsJob
  <1>3. /\ UNCHANGED <<phase, rebuild, loop, strikes, lost>>
        /\ writer' = [writer EXCEPT ![k] = "none"]
        /\ writer'[k] = "none" /\ lock'[k] = "none"
        /\ runner' = IF runner[k] = "none" THEN [runner EXCEPT ![k] = "waiting"] ELSE runner
        /\ \A j \in Kind \ {k} : /\ lock'[j] = lock[j] /\ writer'[j] = writer[j]
                                 /\ raced'[j] = raced[j]
    BY <1>1 DEF CommitWrite, Stopping, Scheduled, RacedBy, IInv, TypeOK
  <1>4. /\ runner'[k] = IF runner[k] = "none" THEN "waiting" ELSE runner[k]
        /\ \A j \in Kind \ {k} : runner'[j] = runner[j]
    BY <1>3 DEF IInv, TypeOK
  <1>5. Elsewhere(k)
    BY <1>3, <1>4 DEF Elsewhere, Rebuilds
  <1>6. HeldByItsJob(k)' /\ RacedByOthers(k)' /\ AwaitedOnce(k)'
    <2>1. /\ runner'[k] = "heavy" <=> runner[k] = "heavy"
          /\ runner'[k] = "fallback" <=> runner[k] = "fallback"
          /\ runner[k] \in {"none", "waiting", "parked"} => runner'[k] \in {"none", "waiting", "parked"}
      BY <1>4
    <2>2. rebuild'[k] = rebuild[k] /\ (Rebuilds(k)' <=> Rebuilds(k))
      BY <1>3 DEF Rebuilds
    <2>3. HeldByItsJob(k)' /\ RacedByOthers(k)'
      BY <1>1, <1>2, <1>3, <2>1, <2>2 DEF HeldByItsJob, RacedByOthers
    <2>4. AwaitedOnce(k)'
      BY <1>1, <2>1, <2>2 DEF AwaitedOnce
    <2>5. QED
      BY <2>3, <2>4
  <1>7. Stops' /\ Turns' /\ LockedWorkLosesOnlyToOthers'
    BY <1>1, <1>3 DEF IInv, Stops, Turns, LockedWorkLosesOnlyToOthers
  <1>8. QED
    BY <1>5, <1>6, <1>7, OneTable DEF Kept

LEMMA WriteBusyKeeps ==
    ASSUME IInv, NEW k \in Kind, WriteBusy(k) PROVE Kept
  <1>1. Elsewhere(k) /\ HeldByItsJob(k)' /\ RacedByOthers(k)'
    BY LoopStays, Table
       DEF WriteBusy, Elsewhere, HeldByItsJob, RacedByOthers, IInv, TypeOK
  <1>2. Stops' /\ Turns' /\ AwaitedOnce(k)' /\ LockedWorkLosesOnlyToOthers'
    BY LoopStays DEF WriteBusy, IInv, TypeOK, Stops, LockedWorkLosesOnlyToOthers
  <1>3. QED
    BY <1>1, <1>2, OneTable DEF Kept

LEMMA OtherProcessCommitsKeeps ==
    ASSUME IInv, NEW k \in Kind, OtherProcessCommits(k) PROVE Kept
  <1>1. Elsewhere(k) /\ HeldByItsJob(k)' /\ RacedByOthers(k)'
    BY LoopStays, Table
       DEF OtherProcessCommits, RacedBy, Elsewhere, HeldByItsJob, RacedByOthers, IInv, TypeOK
  <1>2. Stops' /\ Turns' /\ AwaitedOnce(k)' /\ LockedWorkLosesOnlyToOthers'
    BY LoopStays DEF OtherProcessCommits, IInv, TypeOK, Stops, LockedWorkLosesOnlyToOthers
  <1>3. QED
    BY <1>1, <1>2, OneTable DEF Kept

LEMMA HeartbeatKeeps ==
    ASSUME IInv, NEW k \in Kind, Heartbeat(k) PROVE Kept
  <1>1. /\ runner'[k] = IF runner[k] = "none" THEN "waiting" ELSE runner[k]
        /\ \A j \in Kind \ {k} : runner'[j] = runner[j]
        /\ UNCHANGED <<phase, rebuild, loop, strikes, lost, writer, lock, raced>>
        /\ phase = "up"
    BY DEF Heartbeat, Scheduled, IInv, TypeOK
  <1>2. Elsewhere(k)
    BY <1>1 DEF Elsewhere, Rebuilds
  <1>3. HeldByItsJob(k)' /\ RacedByOthers(k)' /\ AwaitedOnce(k)'
    BY <1>1, Table DEF HeldByItsJob, RacedByOthers, AwaitedOnce, Rebuilds
  <1>4. Stops' /\ Turns' /\ LockedWorkLosesOnlyToOthers'
    BY <1>1 DEF IInv, Stops, Turns, LockedWorkLosesOnlyToOthers
  <1>5. QED
    BY <1>2, <1>3, <1>4, OneTable DEF Kept

LEMMA BeginKeeps ==
    ASSUME IInv, NEW k \in Kind, Begin(k) PROVE Kept
  <1>1. /\ runner[k] = "waiting" /\ HeldByItsJob(k) /\ RacedByOthers(k) /\ AwaitedOnce(k)
        /\ UNCHANGED <<phase, strikes, writer, lock, lost>>
    BY Table DEF Begin
  <1>2. CASE rebuild[k] # "none" /\ runner' = [runner EXCEPT ![k] = "parked"]
             /\ UNCHANGED <<raced, rebuild, loop>>
    <2>1. Elsewhere(k) /\ runner'[k] = "parked"
      BY <1>1, <1>2 DEF Elsewhere, Rebuilds, IInv, TypeOK
    <2>2. HeldByItsJob(k)' /\ RacedByOthers(k)' /\ AwaitedOnce(k)'
      BY <1>1, <1>2, <2>1 DEF HeldByItsJob, RacedByOthers, AwaitedOnce, Rebuilds
    <2>3. Stops' /\ Turns' /\ LockedWorkLosesOnlyToOthers'
      BY <1>1, <1>2, <2>1 DEF IInv, Stops, Turns, LockedWorkLosesOnlyToOthers
    <2>4. QED
      BY <2>1, <2>2, <2>3, OneTable DEF Kept
  <1>3. CASE (rebuild[k] = "none" \/ Stopping) /\ LoopHead(k)
    <2>1. /\ runner'[k] \in {"none", "light", "queued"}
          /\ rebuild'[k] = "busy" <=> rebuild[k] = "busy"
          /\ raced'[k] = raced[k] \/ rebuild[k] = "none"
          /\ AwaitedOnce(k)' /\ LoopWaits(k)
      BY <1>1, <1>3, LoopHeadDoes
    <2>2. Elsewhere(k)
      BY <1>1, <1>3, <2>1, LoopWaitsElsewhere
         DEF Elsewhere, LoopHead, StartRun, EndRunner, IInv, TypeOK
    <2>3. HeldByItsJob(k)' /\ RacedByOthers(k)'
      BY <1>1, <2>1 DEF HeldByItsJob, RacedByOthers
    <2>4. Turns'
      BY <1>1, <2>1, LoopWaitsTurns
    <2>5. Stops' /\ LockedWorkLosesOnlyToOthers'
      BY <1>1, <2>1, LoopWaitsStops DEF IInv, Stops, LockedWorkLosesOnlyToOthers
    <2>6. QED
      BY <2>1, <2>2, <2>3, <2>4, <2>5, OneTable DEF Kept
  <1>4. QED
    BY <1>2, <1>3 DEF Begin

LEMMA ResumeKeeps ==
    ASSUME IInv, NEW k \in Kind, Resume(k) PROVE Kept
  <1>1. /\ runner[k] \in {"parked", "cooling"} /\ rebuild[k] = "none"
        /\ HeldByItsJob(k) /\ RacedByOthers(k)
        /\ LoopHead(k)
        /\ UNCHANGED <<phase, strikes, writer, lock, lost>>
    BY Table DEF Resume, AwaitedOnce
  <1>2. /\ runner'[k] \in {"none", "light", "queued"}
        /\ rebuild'[k] = "busy" <=> rebuild[k] = "busy"
        /\ AwaitedOnce(k)' /\ LoopWaits(k)
    BY <1>1, LoopHeadDoes
  <1>3. Elsewhere(k)
    BY <1>1, <1>2, LoopWaitsElsewhere
       DEF Elsewhere, LoopHead, StartRun, EndRunner, IInv, TypeOK
  <1>4. HeldByItsJob(k)' /\ RacedByOthers(k)'
    BY <1>1, <1>2 DEF HeldByItsJob, RacedByOthers
  <1>5. Turns'
    BY <1>1, <1>2, LoopWaitsTurns
  <1>6. Stops' /\ LockedWorkLosesOnlyToOthers'
    BY <1>1, <1>2, LoopWaitsStops DEF IInv, Stops, LockedWorkLosesOnlyToOthers
  <1>7. QED
    BY <1>2, <1>3, <1>4, <1>5, <1>6, OneTable DEF Kept

LEMMA LockPruneKeeps ==
    ASSUME IInv, NEW k \in Kind, LockPrune(k) PROVE Kept
  <1>1. /\ runner[k] = "queued" /\ lock[k] = "none"
        /\ HeldByItsJob(k) /\ AwaitedOnce(k)
        /\ runner'[k] = "heavy" /\ lock'[k] = "prune"
        /\ UNCHANGED <<phase, rebuild, loop, strikes, lost, writer>>
        /\ \A j \in Kind \ {k} : /\ runner'[j] = runner[j] /\ lock'[j] = lock[j]
                                 /\ raced'[j] = raced[j]
    BY Table DEF LockPrune, IInv, TypeOK
  <1>2. rebuild[k] = "none" /\ ~ Rebuilds(k) /\ ~ AtWork(k)
    BY <1>1 DEF AwaitedOnce, AtWork
  <1>3. raced'[k] = {}
    BY <1>2 DEF LockPrune, IInv, TypeOK
  <1>4. Elsewhere(k)
    BY <1>1 DEF Elsewhere, Rebuilds
  <1>5. HeldByItsJob(k)' /\ RacedByOthers(k)' /\ AwaitedOnce(k)'
    BY <1>1, <1>2, <1>3 DEF HeldByItsJob, RacedByOthers, AwaitedOnce, Rebuilds
  <1>6. Stops' /\ Turns' /\ LockedWorkLosesOnlyToOthers'
    BY <1>1 DEF IInv, Stops, Turns, LockedWorkLosesOnlyToOthers
  <1>7. QED
    BY <1>4, <1>5, <1>6, OneTable DEF Kept

\* The end of a run releases the lock of a prune and leaves a rebuild alone.
LEMMA RunEnds ==
    ASSUME IInv, NEW k \in Kind, runner[k] \in {"light", "queued", "heavy"},
           AfterRun(k), lock' = PruneReleased(k),
           UNCHANGED <<phase, strikes, writer, raced>>, lost' \subseteq {"other process"}
    PROVE  Kept
  <1>1. /\ runner'[k] \in {"none", "cooling"}
        /\ rebuild'[k] = "busy" <=> rebuild[k] = "busy"
        /\ AwaitedOnce(k)' /\ LoopWaits(k)
    BY AfterRunDoes
  <1>2. /\ lock'[k] = IF lock[k] = "prune" THEN "none" ELSE lock[k]
        /\ HeldByItsJob(k) /\ RacedByOthers(k)
    BY Table DEF PruneReleased, IInv, TypeOK
  <1>3. Elsewhere(k)
    BY <1>1, LoopWaitsElsewhere DEF Elsewhere, AfterRun, EndRunner, PruneReleased, IInv, TypeOK
  <1>4. HeldByItsJob(k)' /\ RacedByOthers(k)'
    BY <1>1, <1>2 DEF HeldByItsJob, RacedByOthers
  <1>5. Turns' /\ Stops'
    BY <1>1, LoopWaitsTurns, LoopWaitsStops DEF IInv, Stops
  <1>6. QED
    BY <1>1, <1>3, <1>4, <1>5, OneTable DEF Kept, LockedWorkLosesOnlyToOthers

LEMMA RunCommitsKeeps ==
    ASSUME IInv, NEW k \in Kind, RunCommits(k) PROVE Kept
  <1>1. rebuild[k] # "busy"
    BY Table DEF RunCommits, AwaitedOnce
  <1>2. /\ runner[k] \in {"light", "queued", "heavy"} /\ AfterRun(k)
        /\ lock' = PruneReleased(k) /\ UNCHANGED <<phase, strikes, writer, raced>>
        /\ lost' \subseteq {"other process"}
    BY <1>1 DEF RunCommits, IInv, LockedWorkLosesOnlyToOthers
  <1>3. QED
    BY <1>2, RunEnds

LEMMA RunConflictsKeeps ==
    ASSUME IInv, NEW k \in Kind, RunConflicts(k) PROVE Kept
  <1>1. lost' \subseteq {"other process"}
    BY Table DEF RunConflicts, RacedByOthers, IInv, LockedWorkLosesOnlyToOthers
  <1>2. /\ runner[k] \in {"light", "queued", "heavy"} /\ AfterRun(k)
        /\ lock' = PruneReleased(k) /\ UNCHANGED <<phase, strikes, writer, raced>>
    BY DEF RunConflicts
  <1>3. QED
    BY <1>1, <1>2, RunEnds

LEMMA RunFailsKeeps ==
    ASSUME IInv, NEW k \in Kind, RunFails(k) PROVE Kept
  <1>1. /\ runner[k] \in {"light", "queued", "heavy"} /\ lock' = PruneReleased(k)
        /\ UNCHANGED <<phase, strikes, writer, raced>> /\ lost' \subseteq {"other process"}
    BY DEF RunFails, IInv, LockedWorkLosesOnlyToOthers
  <1>2. CASE AfterRun(k)
    BY <1>1, <1>2, RunEnds
  <1>3. CASE /\ runner' = [runner EXCEPT ![k] = "fallback"]
             /\ rebuild' = [rebuild EXCEPT ![k] = "queued"]
             /\ UNCHANGED loop
    <2>1. /\ runner'[k] = "fallback" /\ rebuild'[k] = "queued"
          /\ lock'[k] = IF lock[k] = "prune" THEN "none" ELSE lock[k]
          /\ HeldByItsJob(k) /\ AwaitedOnce(k)
      BY <1>1, <1>3, Table DEF PruneReleased, IInv, TypeOK
    <2>2. rebuild[k] = "none" /\ ~ Rebuilds(k)
      BY <1>1, <2>1 DEF AwaitedOnce
    <2>3. Elsewhere(k)
      BY <1>1, <1>3 DEF Elsewhere, Rebuilds, PruneReleased, IInv, TypeOK
    <2>4. HeldByItsJob(k)' /\ RacedByOthers(k)' /\ AwaitedOnce(k)'
      BY <1>1, <1>3, <2>1, <2>2 DEF HeldByItsJob, RacedByOthers, AwaitedOnce, Rebuilds
    <2>5. Stops' /\ Turns' /\ LockedWorkLosesOnlyToOthers'
      BY <1>1, <1>3, <2>1 DEF IInv, Stops, Turns, LockedWorkLosesOnlyToOthers
    <2>6. QED
      BY <2>3, <2>4, <2>5, OneTable DEF Kept
  <1>4. QED
    BY <1>2, <1>3 DEF RunFails

LEMMA GiveUpOnRebuildKeeps ==
    ASSUME IInv, NEW k \in Kind, GiveUpOnRebuild(k) PROVE Kept
  <1>1. /\ runner[k] = "parked" /\ HeldByItsJob(k) /\ Rebuilds(k)
        /\ runner'[k] = "none" /\ rebuild'[k] = "none"
        /\ lock'[k] = IF lock[k] = "rebuild" THEN "none" ELSE lock[k]
        /\ loop'.pc = "cancelled"
        /\ UNCHANGED <<phase, strikes, writer, raced, lost>>
        /\ \A j \in Kind \ {k} : /\ runner'[j] = runner[j] /\ lock'[j] = lock[j]
                                 /\ rebuild'[j] = rebuild[j]
    BY Table, LoopKinds DEF GiveUpOnRebuild, AwaitedOnce, IInv, TypeOK
  <1>2. Elsewhere(k)
    BY <1>1 DEF Elsewhere, Rebuilds
  <1>3. HeldByItsJob(k)' /\ RacedByOthers(k)' /\ AwaitedOnce(k)'
    BY <1>1 DEF HeldByItsJob, RacedByOthers, AwaitedOnce, Rebuilds
  <1>4. Stops' /\ Turns' /\ LockedWorkLosesOnlyToOthers'
    BY <1>1 DEF IInv, Stops, Turns, LockedWorkLosesOnlyToOthers, Rebuilds
  <1>5. QED
    BY <1>2, <1>3, <1>4, OneTable DEF Kept

\* A runner is cancelled while the loop does not rebuild its kind.
LEMMA CancelRunnerDoes ==
    ASSUME IInv, NEW k \in Kind, CancelRunner(k), loop.pc # "rebuilding"
    PROVE  /\ runner'[k] = "none" /\ rebuild'[k] = "none"
           /\ (writer'[k] = writer[k]) => HeldByItsJob(k)'
           /\ \A j \in Kind \ {k} : /\ runner'[j] = runner[j] /\ lock'[j] = lock[j]
                                    /\ rebuild'[j] = rebuild[j]
  <1>1. HeldByItsJob(k) /\ AwaitedOnce(k) /\ ~ Rebuilds(k)
    BY Table DEF Rebuilds
  <1>2. /\ runner'[k] = "none"
        /\ rebuild'[k] = IF runner[k] = "fallback" THEN "none" ELSE rebuild[k]
        /\ lock'[k] = IF \/ runner[k] = "heavy" /\ lock[k] = "prune"
                         \/ runner[k] = "fallback" /\ lock[k] = "rebuild"
                      THEN "none" ELSE lock[k]
        /\ \A j \in Kind \ {k} : /\ runner'[j] = runner[j] /\ lock'[j] = lock[j]
                                 /\ rebuild'[j] = rebuild[j]
    BY DEF CancelRunner, IInv, TypeOK
  <1>3. rebuild'[k] = "none"
    BY <1>1, <1>2 DEF AwaitedOnce
  <1>4. (writer'[k] = writer[k]) => HeldByItsJob(k)'
    BY <1>1, <1>2, <1>3 DEF HeldByItsJob, AwaitedOnce
  <1>5. QED
    BY <1>2, <1>3, <1>4

LEMMA GiveUpOnRunnerKeeps ==
    ASSUME IInv, NEW k \in Kind, GiveUpOnRunner(k) PROVE Kept
  <1>1. /\ loop.pc = "draining" /\ Head(loop.todo) = k /\ loop.todo # <<>>
        /\ CancelRunner(k) /\ loop' = NextKind
        /\ UNCHANGED <<phase, strikes, writer, raced, lost>>
    BY DEF GiveUpOnRunner, Drains, IInv, Turns
  <1>2. /\ loop'.pc \in {"sweep", "tick"}
        /\ loop'.pc = "sweep" => loop'.todo # <<>>
    BY <1>1, LoopKinds
  <1>3. /\ runner'[k] = "none" /\ rebuild'[k] = "none"
        /\ HeldByItsJob(k)'
        /\ \A j \in Kind \ {k} : /\ runner'[j] = runner[j] /\ lock'[j] = lock[j]
                                 /\ rebuild'[j] = rebuild[j]
    BY <1>1, CancelRunnerDoes
  <1>4. Elsewhere(k)
    BY <1>1, <1>2, <1>3 DEF Elsewhere, Rebuilds
  <1>5. RacedByOthers(k)' /\ AwaitedOnce(k)'
    BY <1>2, <1>3 DEF RacedByOthers, AwaitedOnce, Rebuilds
  <1>6. Stops' /\ Turns' /\ LockedWorkLosesOnlyToOthers'
    BY <1>1, <1>2, <1>3 DEF IInv, Stops, Turns, LockedWorkLosesOnlyToOthers
  <1>7. QED
    BY <1>3, <1>4, <1>5, <1>6, OneTable DEF Kept

\* A rebuild takes the lock: its kind's runner is not in a run.
LEMMA LockRebuildKeeps ==
    ASSUME IInv, NEW k \in Kind, LockRebuild(k) PROVE Kept
  <1>1. /\ rebuild[k] = "queued" /\ lock[k] = "none"
        /\ HeldByItsJob(k) /\ AwaitedOnce(k)
        /\ rebuild'[k] = "busy" /\ lock'[k] = "rebuild"
        /\ UNCHANGED <<phase, runner, loop, strikes, lost, writer>>
        /\ \A j \in Kind \ {k} : /\ rebuild'[j] = rebuild[j] /\ lock'[j] = lock[j]
                                 /\ raced'[j] = raced[j]
    BY Table DEF LockRebuild, IInv, TypeOK
  <1>2. ~ AtWork(k)
    BY <1>1 DEF AwaitedOnce, AtWork
  <1>3. raced'[k] = {}
    BY <1>2 DEF LockRebuild, IInv, TypeOK
  <1>4. Elsewhere(k)
    BY <1>1 DEF Elsewhere, Rebuilds
  <1>5. HeldByItsJob(k)' /\ RacedByOthers(k)' /\ AwaitedOnce(k)'
    BY <1>1, <1>3 DEF HeldByItsJob, RacedByOthers, AwaitedOnce, Rebuilds
  <1>6. Stops' /\ Turns' /\ LockedWorkLosesOnlyToOthers'
    BY <1>1 DEF IInv, Stops, Turns, LockedWorkLosesOnlyToOthers
  <1>7. QED
    BY <1>4, <1>5, <1>6, OneTable DEF Kept

\* However a rebuild ends.
LEMMA RebuildEnds ==
    ASSUME IInv, NEW k \in Kind, NEW attempt, NEW retry,
           RebuildReturns(k, attempt, retry), rebuild[k] # "none",
           UNCHANGED <<phase, strikes, writer, raced>>, lost' \subseteq {"other process"}
    PROVE  Kept
  <1>1. /\ \A j \in Kind \ {k} : /\ lock'[j] = lock[j] /\ runner'[j] = runner[j]
                                 /\ rebuild'[j] = rebuild[j]
                                 /\ Rebuilds(j)' <=> Rebuilds(j)
        /\ lock'[k] = IF lock[k] = "rebuild" THEN "none" ELSE lock[k]
        /\ runner'[k] \in {"none", "cooling", "waiting", "parked"}
        /\ runner[k] = "none" => runner'[k] = "none"
        /\ rebuild'[k] \in {"none", "queued"}
        /\ AwaitedOnce(k)'
        /\ loop'.pc \in {"sweep", "draining", "rebuilding"} => loop'.todo # <<>>
        /\ loop'.pc = "exit" <=> loop.pc = "exit"
        /\ phase \in {"halted", "stopped"} => loop' = loop
    BY RebuildReturnsDoes
  <1>2. HeldByItsJob(k) /\ AwaitedOnce(k)
    BY Table
  <1>3. HeldByItsJob(k)'
    BY <1>1, <1>2 DEF HeldByItsJob, AwaitedOnce
  <1>4. Elsewhere(k)
    BY <1>1 DEF Elsewhere
  <1>5. RacedByOthers(k)'
    BY <1>1 DEF RacedByOthers
  <1>6. Stops' /\ Turns'
    BY <1>1 DEF IInv, Stops, Turns
  <1>7. QED
    BY <1>1, <1>3, <1>4, <1>5, <1>6, OneTable DEF Kept, LockedWorkLosesOnlyToOthers

LEMMA RebuildCommitsKeeps ==
    ASSUME IInv, NEW k \in Kind, RebuildCommits(k) PROVE Kept
  <1>1. runner[k] \notin {"light", "heavy"} /\ rebuild[k] # "none"
    BY Table DEF RebuildCommits, AwaitedOnce
  <1>2. /\ RebuildReturns(k, 0, FALSE) /\ UNCHANGED <<phase, strikes, writer, raced>>
        /\ lost' \subseteq {"other process"}
    BY <1>1 DEF RebuildCommits, IInv, LockedWorkLosesOnlyToOthers
  <1>3. QED
    BY <1>1, <1>2, RebuildEnds

LEMMA RebuildConflictsKeeps ==
    ASSUME IInv, NEW k \in Kind, RebuildConflicts(k) PROVE Kept
  <1>1. lost' \subseteq {"other process"}
    BY Table DEF RebuildConflicts, RacedByOthers, IInv, LockedWorkLosesOnlyToOthers
  <1>2. /\ rebuild[k] # "none" /\ UNCHANGED <<phase, strikes, writer, raced>>
        /\ \/ RebuildReturns(k, state[k].attempt + 1, TRUE)
           \/ RebuildReturns(k, 0, FALSE)
    BY DEF RebuildConflicts
  <1>3. QED
    BY <1>1, <1>2, RebuildEnds

LEMMA RebuildFailsKeeps ==
    ASSUME IInv, NEW k \in Kind, RebuildFails(k) PROVE Kept
  <1>1. /\ RebuildReturns(k, 0, FALSE) /\ UNCHANGED <<phase, strikes, writer, raced>>
        /\ lost' \subseteq {"other process"} /\ rebuild[k] # "none"
    BY DEF RebuildFails, IInv, LockedWorkLosesOnlyToOthers
  <1>2. QED
    BY <1>1, RebuildEnds

LEMMA TurnKeeps ==
    ASSUME IInv, Turn PROVE Kept
  <1>0. PICK k \in Kind : k = Head(loop.todo)
    BY LoopKinds DEF Turn, IInv, Turns
  <1>1. /\ loop.pc = "sweep" /\ loop.todo # <<>> /\ phase = "up"
        /\ loop \in [pc : LoopPc, todo : Seq(Kind)]
    BY LoopKinds DEF Turn, Stopping, IInv, Turns
  <1>2. /\ UNCHANGED <<phase, runner, strikes, writer, lock, raced, lost>>
        /\ HeldByItsJob(k) /\ AwaitedOnce(k) /\ RacedByOthers(k) /\ ~ Rebuilds(k)
    BY <1>0, <1>1, Table DEF Turn, Rebuilds
  <1>3. CASE runner[k] # "none"
    <2>1. /\ UNCHANGED rebuild /\ loop' = [loop EXCEPT !.pc = "draining"]
      BY <1>0, <1>3 DEF Turn
    <2>2. loop'.pc = "draining" /\ loop'.todo = loop.todo
      BY <1>1, <2>1
    <2>3. Elsewhere(k)
      BY <1>0, <1>1, <1>2, <2>1, <2>2 DEF Elsewhere, Rebuilds
    <2>4. HeldByItsJob(k)' /\ RacedByOthers(k)' /\ AwaitedOnce(k)'
      BY <1>2, <2>1, <2>2 DEF HeldByItsJob, RacedByOthers, AwaitedOnce, Rebuilds
    <2>5. Stops' /\ Turns' /\ LockedWorkLosesOnlyToOthers'
      BY <1>1, <1>2, <2>2 DEF IInv, Stops, Turns, LockedWorkLosesOnlyToOthers
    <2>6. QED
      BY <1>1, <2>3, <2>4, <2>5, OneTable DEF Kept
  <1>4. CASE runner[k] = "none"
    <2>1. /\ rebuild' = [rebuild EXCEPT ![k] = "queued"]
          /\ loop' = [loop EXCEPT !.pc = "rebuilding"]
      BY <1>0, <1>4 DEF Turn
    <2>2. /\ loop'.pc = "rebuilding" /\ loop'.todo = loop.todo
          /\ rebuild'[k] = "queued"
          /\ \A j \in Kind \ {k} : rebuild'[j] = rebuild[j]
      BY <1>1, <2>1 DEF IInv, TypeOK
    <2>3. Elsewhere(k)
      BY <1>0, <1>1, <1>2, <2>1, <2>2 DEF Elsewhere, Rebuilds
    <2>4. HeldByItsJob(k)' /\ RacedByOthers(k)' /\ AwaitedOnce(k)'
      BY <1>0, <1>2, <1>4, <2>2 DEF HeldByItsJob, RacedByOthers, AwaitedOnce, Rebuilds
    <2>5. Stops' /\ Turns' /\ LockedWorkLosesOnlyToOthers'
      BY <1>1, <1>2, <2>2 DEF IInv, Stops, Turns, LockedWorkLosesOnlyToOthers
    <2>6. QED
      BY <1>1, <2>3, <2>4, <2>5, OneTable DEF Kept
  <1>5. QED
    BY <1>3, <1>4

\* A move of the loop alone, while it awaits no rebuild.
LEMMA LoopMoves ==
    ASSUME IInv, loop.pc # "rebuilding", loop'.pc # "rebuilding",
           UNCHANGED <<phase, runner, rebuild, writer, lock, raced, lost>>
    PROVE  Tables' /\ LockedWorkLosesOnlyToOthers'
  <1>1. ASSUME NEW k \in Kind
        PROVE  HeldByItsJob(k)' /\ AwaitedOnce(k)' /\ RacedByOthers(k)'
    BY Table DEF HeldByItsJob, AwaitedOnce, RacedByOthers, Rebuilds
  <1>2. QED
    BY <1>1 DEF Tables, IInv, LockedWorkLosesOnlyToOthers

LEMMA LoopStepKeeps ==
    ASSUME IInv,
           \/ Sweep \/ LoopRestarts
           \/ \E k \in Kind : Retry(k)
           \/ \E stable \in BOOLEAN : LoopCrashes(stable)
    PROVE  Kept
  <1>1. /\ loop.pc # "rebuilding" /\ phase = "up"
        /\ UNCHANGED <<phase, runner, rebuild, writer, lock, raced, lost>>
    BY DEF Sweep, LoopRestarts, Retry, LoopCrashes, Stopping
  <1>2. loop'.pc # "rebuilding" /\ Turns'
    <2>1. CASE Sweep \/ LoopRestarts
      BY <2>1, Numbers DEF Sweep, LoopRestarts, Turns, IInv
    <2>2. CASE \E k \in Kind : Retry(k)
      <3>1. PICK k \in Kind : Retry(k)
        BY <2>2
      <3>2. QED
        BY <3>1 DEF Retry, Turns, IInv
    <2>3. CASE \E stable \in BOOLEAN : LoopCrashes(stable)
      <3>1. PICK stable \in BOOLEAN : LoopCrashes(stable)
        BY <2>3
      <3>2. /\ strikes' = IF stable THEN 1 ELSE strikes + 1
            /\ loop' = [loop EXCEPT !.pc = IF strikes' > Restarts THEN "exit" ELSE "backoff"]
        BY <3>1 DEF LoopCrashes
      <3>3. /\ strikes' \in Nat /\ loop \in [pc : LoopPc, todo : Seq(Kind)]
        <4>1. strikes \in Nat
          BY CountersAre
        <4>2. QED
          BY <3>2, <4>1, LoopKinds
      <3>4. loop'.pc = IF strikes' > Restarts THEN "exit" ELSE "backoff"
        BY <3>2, <3>3
      <3>5. QED
        BY <3>3, <3>4, Numbers DEF Turns
    <2>4. QED
      BY <2>1, <2>2, <2>3
  <1>3. Stops'
    BY <1>1 DEF IInv, Stops
  <1>4. QED
    BY <1>1, <1>2, <1>3, LoopMoves DEF Kept

LEMMA StopBeginsKeeps ==
    ASSUME IInv, StopBegins PROVE Kept
  <1>1. UNCHANGED <<runner, rebuild, loop, strikes, raced, lost>> /\ phase' = "stopping"
    BY DEF StopBegins
  <1>2. ASSUME NEW k \in Kind
        PROVE  HeldByItsJob(k)' /\ AwaitedOnce(k)' /\ RacedByOthers(k)'
    <2>1. writer'[k] = "none" /\ lock'[k] = IF lock[k] = "writer" THEN "none" ELSE lock[k]
      BY DEF StopBegins
    <2>2. HeldByItsJob(k) /\ RacedByOthers(k)
      BY Table
    <2>3. QED
      BY <1>1, <2>1, <2>2, LoopStays DEF HeldByItsJob, RacedByOthers
  <1>3. Stops' /\ Turns' /\ LockedWorkLosesOnlyToOthers'
    BY <1>1 DEF StopBegins, IInv, Stops, Turns, LockedWorkLosesOnlyToOthers
  <1>4. QED
    BY <1>2, <1>3 DEF Kept, Tables

\* Cancelling the loop cancels what it awaits: no rebuild is left without an awaiter.
LEMMA StopLoopKeeps ==
    ASSUME IInv, StopLoop PROVE Kept
  <1>1. /\ UNCHANGED <<strikes, writer, raced, lost>>
        /\ phase = "stopping" /\ phase' = "halted"
        /\ loop' = [loop EXCEPT !.pc = IF @ = "exit" THEN @ ELSE "cancelled"]
    BY DEF StopLoop
  <1>2. /\ loop \in [pc : LoopPc, todo : Seq(Kind)]
        /\ loop'.pc \in {"exit", "cancelled"}
        /\ loop'.pc = "exit" <=> loop.pc = "exit"
    BY <1>1, LoopKinds
  <1>3. Stops' /\ Turns' /\ LockedWorkLosesOnlyToOthers'
    BY <1>1, <1>2 DEF IInv, Stops, Turns, LockedWorkLosesOnlyToOthers
  <1>4. CASE loop.pc \notin {"draining", "rebuilding"}
    <2>1. UNCHANGED <<runner, rebuild, lock>>
      BY <1>4 DEF StopLoop
    <2>2. ASSUME NEW j \in Kind
          PROVE  HeldByItsJob(j)' /\ AwaitedOnce(j)' /\ RacedByOthers(j)'
      BY <1>1, <1>2, <1>4, <2>1, Table DEF HeldByItsJob, AwaitedOnce, RacedByOthers, Rebuilds
    <2>3. QED
      BY <1>3, <2>2 DEF Kept, Tables
  <1>5. CASE loop.pc = "draining"
    <2>0. PICK k \in Kind : k = Head(loop.todo)
      BY <1>5, LoopKinds DEF IInv, Turns
    <2>1. CancelRunner(k)
      BY <1>5, <2>0 DEF StopLoop
    <2>2. /\ runner'[k] = "none" /\ rebuild'[k] = "none"
          /\ HeldByItsJob(k)'
          /\ \A j \in Kind \ {k} : /\ runner'[j] = runner[j] /\ lock'[j] = lock[j]
                                   /\ rebuild'[j] = rebuild[j]
      BY <1>1, <1>5, <2>1, CancelRunnerDoes
    <2>3. Elsewhere(k) /\ RacedByOthers(k)' /\ AwaitedOnce(k)'
      BY <1>1, <1>2, <1>5, <2>2 DEF Elsewhere, Rebuilds, RacedByOthers, AwaitedOnce
    <2>4. QED
      BY <1>3, <2>1, <2>2, <2>3, OneTable DEF Kept
  <1>6. CASE loop.pc = "rebuilding"
    <2>0. PICK k \in Kind : k = Head(loop.todo)
      BY <1>6, LoopKinds DEF IInv, Turns
    <2>1. /\ rebuild' = [rebuild EXCEPT ![k] = "none"]
          /\ lock' = [lock EXCEPT ![k] = IF @ = "rebuild" THEN "none" ELSE @]
          /\ UNCHANGED runner
      BY <1>6, <2>0 DEF StopLoop
    <2>2. /\ rebuild'[k] = "none"
          /\ lock'[k] = IF lock[k] = "rebuild" THEN "none" ELSE lock[k]
          /\ \A j \in Kind \ {k} : lock'[j] = lock[j] /\ rebuild'[j] = rebuild[j]
      BY <2>1 DEF IInv, TypeOK
    <2>3. Rebuilds(k) /\ HeldByItsJob(k) /\ AwaitedOnce(k)
      BY <1>6, <2>0, Table DEF Rebuilds
    <2>4. Elsewhere(k)
      BY <1>1, <1>2, <2>0, <2>1, <2>2, <2>3 DEF Elsewhere, Rebuilds
    <2>5. HeldByItsJob(k)'
      BY <1>1, <1>2, <2>1, <2>2, <2>3 DEF HeldByItsJob, Rebuilds
    <2>6. RacedByOthers(k)'
      BY <1>1, <1>2, <2>1, <2>2, <2>3 DEF RacedByOthers, AwaitedOnce, Rebuilds
    <2>7. AwaitedOnce(k)'
      BY <1>1, <1>2, <2>1, <2>2, <2>3 DEF AwaitedOnce, Rebuilds
    <2>8. QED
      BY <1>3, <2>1, <2>4, <2>5, <2>6, <2>7, OneTable DEF Kept
  <1>7. QED
    BY <1>4, <1>5, <1>6

LEMMA StopReturnsKeeps ==
    ASSUME IInv, StopReturns PROVE Kept
  <1>1. ASSUME NEW k \in Kind
        PROVE  HeldByItsJob(k)' /\ AwaitedOnce(k)' /\ RacedByOthers(k)'
    BY Table DEF StopReturns, HeldByItsJob, AwaitedOnce, RacedByOthers, Rebuilds
  <1>2. Stops' /\ Turns' /\ LockedWorkLosesOnlyToOthers'
    BY DEF StopReturns, IInv, Stops, Turns, LockedWorkLosesOnlyToOthers
  <1>3. QED
    BY <1>1, <1>2 DEF Kept, Tables

-----------------------------------------------------------------------------
(* Types *)

Lock == [Kind -> Holder]
LoopType == [pc : LoopPc, todo : Seq(Kind)]
Committers == {"writer", "other process", "optimize", "rebuild"}

\* The types a step on one table can disturb.
TablesTyped ==
    /\ state \in [Kind -> OptimizerState]
    /\ runner \in [Kind -> Runner]
    /\ rebuild \in [Kind -> Rebuild]
    /\ loop \in LoopType
    /\ writer \in [Kind -> {"none", "queued", "busy"}]
    /\ lock \in Lock
    /\ raced \in [Kind -> SUBSET Committers]
    /\ tail \in [Kind -> BOOLEAN]
    /\ lost \subseteq Committers

CountersTyped ==
    /\ strikes \in 0..(Restarts + 1)
    /\ sweeps \in 1..MaxSweeps /\ writes \in 0..MaxWrites /\ faults \in 0..MaxFaults

LEMMA TypesAre ==
    TypeOK <=> phase \in Phase /\ TablesTyped /\ CountersTyped
  BY DEF TypeOK, TablesTyped, CountersTyped, Lock, LoopType, Committers

LEMMA TypesAreNext ==
    TypeOK' <=> (phase' \in Phase) /\ TablesTyped' /\ CountersTyped'
  BY DEF TypeOK, TablesTyped, CountersTyped, Lock, LoopType, Committers

\* The ways a step changes the state of one kind's optimizer.
LEMMA StateDirty ==
    ASSUME TablesTyped, NEW k \in Kind, NEW d \in BOOLEAN,
           state' = [state EXCEPT ![k].dirty = d]
    PROVE  state' \in [Kind -> OptimizerState]
  BY DEF TablesTyped, OptimizerState

LEMMA StateRetry ==
    ASSUME TablesTyped, NEW k \in Kind, state' = [state EXCEPT ![k].retry = FALSE]
    PROVE  state' \in [Kind -> OptimizerState]
  BY ZenonT(40) DEF TablesTyped, OptimizerState

LEMMA StateOf ==
    ASSUME TablesTyped, NEW k \in Kind
    PROVE  /\ state[k] \in OptimizerState
           /\ state[k] = [dirty |-> state[k].dirty, failures |-> state[k].failures,
                          sinceFallback |-> state[k].sinceFallback,
                          attempt |-> state[k].attempt, retry |-> state[k].retry]
           /\ state[k].dirty \in BOOLEAN /\ state[k].failures \in 0..AlertThreshold
           /\ state[k].sinceFallback \in Nat /\ state[k].attempt \in 0..Backoffs
           /\ state[k].retry \in BOOLEAN
  BY DEF TablesTyped, OptimizerState

LEMMA StateFailures ==
    ASSUME TablesTyped, NEW k \in Kind, NEW f \in 0..AlertThreshold, NEW n \in Nat,
           state' = [state EXCEPT ![k].failures = f, ![k].sinceFallback = n]
    PROVE  state' \in [Kind -> OptimizerState]
  <1>1. state' = [state EXCEPT ![k] = [@ EXCEPT !.failures = f, !.sinceFallback = n]]
    BY DEF TablesTyped
  <1>2. [state[k] EXCEPT !.failures = f, !.sinceFallback = n] \in OptimizerState
    BY StateOf DEF OptimizerState
  <1>3. QED
    BY <1>1, <1>2 DEF TablesTyped

LEMMA StateAttempt ==
    ASSUME TablesTyped, NEW k \in Kind, NEW a \in 0..Backoffs, NEW b \in BOOLEAN, NEW n \in Nat,
           state' = [state EXCEPT ![k].attempt = a, ![k].retry = b, ![k].sinceFallback = n]
    PROVE  state' \in [Kind -> OptimizerState]
  <1>1. state' = [state EXCEPT ![k] = [@ EXCEPT !.attempt = a, !.retry = b,
                                                !.sinceFallback = n]]
    BY DEF TablesTyped
  <1>2. [state[k] EXCEPT !.attempt = a, !.retry = b, !.sinceFallback = n] \in OptimizerState
    BY StateOf DEF OptimizerState
  <1>3. QED
    BY <1>1, <1>2 DEF TablesTyped

\* The ways a step changes the other variables of one table.
LEMMA RunnerTyped ==
    ASSUME TablesTyped, NEW k \in Kind, NEW x \in Runner,
           runner' = [runner EXCEPT ![k] = x]
    PROVE  runner' \in [Kind -> Runner]
  BY DEF TablesTyped

LEMMA RebuildTyped ==
    ASSUME TablesTyped, NEW k \in Kind, NEW x \in Rebuild,
           rebuild' = [rebuild EXCEPT ![k] = x]
    PROVE  rebuild' \in [Kind -> Rebuild]
  BY DEF TablesTyped

LEMMA LockTyped ==
    ASSUME TablesTyped, NEW k \in Kind, NEW x \in Holder,
           lock' = [lock EXCEPT ![k] = x]
    PROVE  lock' \in Lock
  BY DEF TablesTyped, Lock

LEMMA LoopTyped ==
    ASSUME TablesTyped, NEW x \in LoopPc, loop' = [loop EXCEPT !.pc = x]
    PROVE  loop' \in LoopType
  BY DEF TablesTyped, LoopType

LEMMA EndRunnerTyped ==
    ASSUME TablesTyped, NEW k \in Kind, EndRunner(k)
    PROVE  /\ runner' \in [Kind -> Runner] /\ rebuild' \in [Kind -> Rebuild]
           /\ loop' \in LoopType
  <1>1. runner' \in [Kind -> Runner]
    BY RunnerTyped DEF EndRunner, Runner
  <1>2. rebuild' \in [Kind -> Rebuild]
    BY RebuildTyped DEF EndRunner, Rebuild, TablesTyped
  <1>3. loop' \in LoopType
    BY LoopTyped DEF EndRunner, LoopPc, TablesTyped
  <1>4. QED
    BY <1>1, <1>2, <1>3

LEMMA LoopHeadTyped ==
    ASSUME TablesTyped, NEW k \in Kind, LoopHead(k)
    PROVE  /\ runner' \in [Kind -> Runner] /\ rebuild' \in [Kind -> Rebuild]
           /\ loop' \in LoopType
           /\ state' \in [Kind -> OptimizerState]
           /\ raced' \in [Kind -> SUBSET Committers]
  <1>1. CASE StartRun(k)
    <2>1. runner' \in [Kind -> Runner]
      BY <1>1, RunnerTyped DEF StartRun, Runner
    <2>2. state' \in [Kind -> OptimizerState]
      BY <1>1, StateDirty DEF StartRun
    <2>3. QED
      BY <1>1, <2>1, <2>2 DEF StartRun, TablesTyped
  <1>2. CASE EndRunner(k) /\ UNCHANGED <<state, raced>>
    BY <1>2, EndRunnerTyped DEF TablesTyped
  <1>3. QED
    BY <1>1, <1>2 DEF LoopHead

LEMMA AfterRunTyped ==
    ASSUME TablesTyped, NEW k \in Kind, AfterRun(k)
    PROVE  /\ runner' \in [Kind -> Runner] /\ rebuild' \in [Kind -> Rebuild]
           /\ loop' \in LoopType
  <1>1. CASE runner' = [runner EXCEPT ![k] = "cooling"] /\ UNCHANGED <<rebuild, loop>>
    BY <1>1, RunnerTyped DEF Runner, TablesTyped
  <1>2. CASE EndRunner(k)
    BY <1>2, EndRunnerTyped
  <1>3. QED
    BY <1>1, <1>2 DEF AfterRun

LEMMA ReleasedTyped ==
    ASSUME TablesTyped, NEW k \in Kind, lock' = PruneReleased(k)
    PROVE  lock' \in Lock
  BY DEF PruneReleased, TablesTyped, Lock, Holder

LEMMA CancelRunnerTyped ==
    ASSUME TablesTyped, NEW k \in Kind, CancelRunner(k)
    PROVE  /\ runner' \in [Kind -> Runner] /\ rebuild' \in [Kind -> Rebuild]
           /\ lock' \in Lock
  BY DEF CancelRunner, TablesTyped, Lock, Holder, Runner, Rebuild

LEMMA RebuildReturnsTyped ==
    ASSUME IInv, NEW k \in Kind, NEW a \in 0..Backoffs, NEW b \in BOOLEAN,
           RebuildReturns(k, a, b), rebuild[k] # "none"
    PROVE  /\ runner' \in [Kind -> Runner] /\ rebuild' \in [Kind -> Rebuild]
           /\ lock' \in Lock /\ loop' \in LoopType
           /\ state' \in [Kind -> OptimizerState]
  <1>1. TablesTyped
    BY TypesAre DEF IInv
  <1>2. runner' \in [Kind -> Runner] /\ rebuild' \in [Kind -> Rebuild] /\ lock' \in Lock
    BY <1>1 DEF RebuildReturns, TablesTyped, Lock, Holder, Runner, Rebuild
  <1>3. loop' \in LoopType
    <2>1. CASE runner[k] # "fallback"
      <3>1. Rebuilds(k)
        BY <2>1, Table DEF AwaitedOnce
      <3>2. loop' = NextKind /\ loop.todo # <<>>
        BY <2>1, <3>1 DEF RebuildReturns, Rebuilds, IInv, Turns
      <3>3. QED
        BY <3>2, LoopKinds DEF LoopType
    <2>2. CASE runner[k] = "fallback"
      <3>1. loop' = loop \/ loop' = [loop EXCEPT !.pc = "rebuilding"]
        BY <2>2 DEF RebuildReturns
      <3>2. "rebuilding" \in LoopPc /\ loop \in LoopType
        BY <1>1 DEF LoopPc, TablesTyped
      <3>3. QED
        BY <3>1, <3>2, <1>1, LoopTyped
    <2>3. QED
      BY <2>1, <2>2
  <1>4. state' \in [Kind -> OptimizerState]
    <2>1. PICK n : /\ n = IF runner[k] = "fallback" THEN 0 ELSE state[k].sinceFallback
                   /\ n \in Nat
      BY <1>1, StateOf
    <2>2. state' = [state EXCEPT ![k].attempt = a, ![k].retry = b, ![k].sinceFallback = n]
      BY <2>1, <1>1 DEF RebuildReturns, TablesTyped
    <2>3. QED
      BY <2>1, <2>2, <1>1, StateAttempt
  <1>5. QED
    BY <1>2, <1>3, <1>4

LEMMA FaultCounts ==
    ASSUME IInv, Fault PROVE faults' \in 0..MaxFaults
  BY CountersAre, Numbers DEF Fault

LEMMA WriteStepsTyped ==
    ASSUME IInv, NEW k \in Kind,
           \/ AskWrite(k) \/ LockWrite(k) \/ CommitWrite(k) \/ WriteBusy(k)
           \/ OtherProcessCommits(k)
    PROVE  TypeOK'
  <1>1. TablesTyped /\ CountersTyped /\ phase \in Phase
    BY TypesAre DEF IInv
  <1>2. CASE AskWrite(k)
    BY <1>1, <1>2, CountersAre, Numbers, TypesAreNext
       DEF AskWrite, TablesTyped, CountersTyped
  <1>3. CASE LockWrite(k)
    <2>1. TablesTyped'
      BY <1>1, <1>3 DEF LockWrite, TablesTyped, Lock, Holder
    <2>2. QED
      BY <1>1, <1>3, <2>1, TypesAreNext DEF LockWrite, CountersTyped, counts
  <1>4. CASE CommitWrite(k)
    <2>1. runner' \in [Kind -> Runner]
      BY <1>1, <1>4, RunnerTyped DEF CommitWrite, Scheduled, Runner, TablesTyped
    <2>2. state' \in [Kind -> OptimizerState]
      BY <1>1, <1>4, StateDirty DEF CommitWrite, Scheduled, TablesTyped
    <2>3. /\ lock' \in Lock /\ writer' \in [Kind -> {"none", "queued", "busy"}]
          /\ tail' \in [Kind -> BOOLEAN]
      BY <1>1, <1>4 DEF CommitWrite, TablesTyped, Lock, Holder
    <2>4. raced' \in [Kind -> SUBSET Committers]
      BY <1>1, <1>4 DEF CommitWrite, RacedBy, TablesTyped, Committers
    <2>5. QED
      BY <1>1, <1>4, <2>1, <2>2, <2>3, <2>4, TypesAreNext
         DEF CommitWrite, TablesTyped, CountersTyped, counts
  <1>5. CASE WriteBusy(k)
    <2>1. TablesTyped'
      BY <1>1, <1>5 DEF WriteBusy, TablesTyped, Lock, Holder
    <2>2. faults' \in 0..MaxFaults
      BY <1>5, FaultCounts DEF WriteBusy
    <2>3. QED
      BY <1>1, <1>5, <2>1, <2>2, TypesAreNext DEF WriteBusy, CountersTyped, counts
  <1>6. CASE OtherProcessCommits(k)
    <2>1. raced' \in [Kind -> SUBSET Committers]
      BY <1>1, <1>6 DEF OtherProcessCommits, RacedBy, TablesTyped, Committers
    <2>2. writes' \in 0..MaxWrites
      <3>1. writes < MaxWrites /\ writes' = writes + 1
        BY <1>6 DEF OtherProcessCommits
      <3>2. QED
        BY <3>1, CountersAre, Numbers
    <2>3. QED
      BY <1>1, <1>6, <2>1, <2>2, TypesAreNext
         DEF OtherProcessCommits, TablesTyped, CountersTyped
  <1>7. QED
    BY <1>2, <1>3, <1>4, <1>5, <1>6

LEMMA RunnerStepsTyped ==
    ASSUME IInv, NEW k \in Kind,
           \/ Heartbeat(k) \/ Begin(k) \/ Resume(k) \/ LockPrune(k)
           \/ RunCommits(k) \/ RunConflicts(k) \/ RunFails(k) \/ GiveUpOnRebuild(k)
    PROVE  TypeOK'
  <1>1. TablesTyped /\ CountersTyped /\ phase \in Phase
    BY TypesAre DEF IInv
  <1>2. CASE Heartbeat(k)
    <2>1. runner' \in [Kind -> Runner]
      BY <1>1, <1>2, RunnerTyped DEF Heartbeat, Scheduled, Runner, TablesTyped
    <2>2. state' \in [Kind -> OptimizerState]
      BY <1>1, <1>2, StateDirty DEF Heartbeat, Scheduled
    <2>3. QED
      BY <1>1, <1>2, <2>1, <2>2, TypesAreNext
         DEF Heartbeat, TablesTyped, CountersTyped, counts
  <1>3. CASE Begin(k)
    <2>1. CASE /\ runner' = [runner EXCEPT ![k] = "parked"]
               /\ UNCHANGED <<state, raced, rebuild, loop>>
      <3>1. runner' \in [Kind -> Runner]
        BY <1>1, <2>1, RunnerTyped DEF Runner
      <3>2. QED
        BY <1>1, <1>3, <2>1, <3>1, TypesAreNext DEF Begin, TablesTyped, CountersTyped, counts
    <2>2. CASE LoopHead(k)
      BY <1>1, <1>3, <2>2, LoopHeadTyped, TypesAreNext
         DEF Begin, TablesTyped, CountersTyped, counts
    <2>3. QED
      BY <1>3, <2>1, <2>2 DEF Begin
  <1>4. CASE Resume(k)
    BY <1>1, <1>4, LoopHeadTyped, TypesAreNext
       DEF Resume, TablesTyped, CountersTyped, counts
  <1>5. CASE LockPrune(k)
    <2>1. /\ runner' \in [Kind -> Runner] /\ lock' \in Lock
          /\ raced' \in [Kind -> SUBSET Committers]
      BY <1>1, <1>5 DEF LockPrune, TablesTyped, Runner, Lock, Holder
    <2>2. QED
      BY <1>1, <1>5, <2>1, TypesAreNext DEF LockPrune, TablesTyped, CountersTyped, counts
  <1>6. CASE RunCommits(k)
    <2>1. state' \in [Kind -> OptimizerState]
      <3>1. /\ state' = [state EXCEPT ![k].failures = 0, ![k].sinceFallback = 0]
            /\ 0 \in 0..AlertThreshold /\ 0 \in Nat
        BY <1>6, Numbers DEF RunCommits
      <3>2. QED
        BY <1>1, <3>1, StateFailures
    <2>2. raced' \in [Kind -> SUBSET Committers] /\ tail' \in [Kind -> BOOLEAN]
      BY <1>1, <1>6 DEF RunCommits, TablesTyped, Committers
    <2>3. QED
      BY <1>1, <1>6, <2>1, <2>2, AfterRunTyped, ReleasedTyped, TypesAreNext
         DEF RunCommits, TablesTyped, CountersTyped, counts
  <1>7. CASE RunConflicts(k)
    <2>1. lost' \subseteq Committers
      BY <1>1, <1>7 DEF RunConflicts, TablesTyped
    <2>2. QED
      BY <1>1, <1>7, <2>1, AfterRunTyped, ReleasedTyped, TypesAreNext
         DEF RunConflicts, TablesTyped, CountersTyped, counts
  <1>8. CASE RunFails(k)
    <2>1. PICK f \in 0..AlertThreshold, n \in Nat :
             state' = [state EXCEPT ![k].failures = f, ![k].sinceFallback = n]
      <3>1. /\ state[k].failures \in 0..AlertThreshold /\ state[k].sinceFallback \in Nat
            /\ state \in [Kind -> OptimizerState]
        BY <1>1, StateOf DEF TablesTyped
      <3>2. PICK f : /\ f = IF state[k].failures < AlertThreshold
                            THEN state[k].failures + 1 ELSE state[k].failures
                     /\ f \in 0..AlertThreshold
        BY <3>1, Numbers
      <3>3. PICK n \in Nat : n = state[k].sinceFallback + 1
        BY <3>1
      <3>4. state' = [state EXCEPT ![k].failures = f, ![k].sinceFallback = n]
        BY <1>8, <3>1, <3>2, <3>3 DEF RunFails
      <3>5. QED
        BY <3>2, <3>3, <3>4
    <2>2. state' \in [Kind -> OptimizerState]
      BY <1>1, <2>1, StateFailures
    <2>3. /\ runner' \in [Kind -> Runner] /\ rebuild' \in [Kind -> Rebuild]
          /\ loop' \in LoopType
      <3>1. CASE /\ runner' = [runner EXCEPT ![k] = "fallback"]
                 /\ rebuild' = [rebuild EXCEPT ![k] = "queued"]
                 /\ UNCHANGED loop
        BY <1>1, <3>1, RunnerTyped, RebuildTyped DEF Runner, Rebuild, TablesTyped
      <3>2. CASE AfterRun(k)
        BY <1>1, <3>2, AfterRunTyped
      <3>3. QED
        BY <1>8, <3>1, <3>2 DEF RunFails
    <2>4. faults' \in 0..MaxFaults /\ lock' \in Lock
      BY <1>1, <1>8, FaultCounts, ReleasedTyped DEF RunFails
    <2>5. QED
      BY <1>1, <1>8, <2>2, <2>3, <2>4, TypesAreNext
         DEF RunFails, TablesTyped, CountersTyped, counts
  <1>9. CASE GiveUpOnRebuild(k)
    <2>1. /\ runner' \in [Kind -> Runner] /\ rebuild' \in [Kind -> Rebuild]
          /\ lock' \in Lock
      BY <1>1, <1>9 DEF GiveUpOnRebuild, TablesTyped, Runner, Rebuild, Lock, Holder
    <2>2. loop' \in LoopType /\ faults' \in 0..MaxFaults
      BY <1>1, <1>9, LoopTyped, FaultCounts DEF GiveUpOnRebuild, LoopPc
    <2>3. QED
      BY <1>1, <1>9, <2>1, <2>2, TypesAreNext
         DEF GiveUpOnRebuild, TablesTyped, CountersTyped, counts
  <1>10. QED
    BY <1>2, <1>3, <1>4, <1>5, <1>6, <1>7, <1>8, <1>9

LEMMA RebuildStepsTyped ==
    ASSUME IInv, NEW k \in Kind,
           \/ GiveUpOnRunner(k) \/ LockRebuild(k) \/ RebuildCommits(k)
           \/ RebuildConflicts(k) \/ RebuildFails(k)
    PROVE  TypeOK'
  <1>1. TablesTyped /\ CountersTyped /\ phase \in Phase
    BY TypesAre DEF IInv
  <1>2. CASE GiveUpOnRunner(k)
    <2>1. loop' \in LoopType
      BY <1>2, LoopKinds DEF GiveUpOnRunner, Drains, LoopType, IInv, Turns
    <2>2. faults' \in 0..MaxFaults
      BY <1>2, FaultCounts DEF GiveUpOnRunner
    <2>3. QED
      BY <1>1, <1>2, <2>1, <2>2, CancelRunnerTyped, TypesAreNext
         DEF GiveUpOnRunner, TablesTyped, CountersTyped, counts
  <1>3. CASE LockRebuild(k)
    <2>1. /\ rebuild' \in [Kind -> Rebuild] /\ lock' \in Lock
          /\ raced' \in [Kind -> SUBSET Committers]
      BY <1>1, <1>3 DEF LockRebuild, TablesTyped, Rebuild, Lock, Holder
    <2>2. QED
      BY <1>1, <1>3, <2>1, TypesAreNext DEF LockRebuild, TablesTyped, CountersTyped, counts
  <1>4. 0 \in 0..Backoffs /\ FALSE \in BOOLEAN /\ TRUE \in BOOLEAN
    BY Numbers
  <1>5. CASE RebuildCommits(k)
    <2>1. /\ runner' \in [Kind -> Runner] /\ rebuild' \in [Kind -> Rebuild]
          /\ lock' \in Lock /\ loop' \in LoopType
          /\ state' \in [Kind -> OptimizerState]
      BY <1>4, <1>5, RebuildReturnsTyped DEF RebuildCommits
    <2>2. raced' \in [Kind -> SUBSET Committers]
      BY <1>1, <1>5 DEF RebuildCommits, TablesTyped, Committers
    <2>3. QED
      BY <1>1, <1>5, <2>1, <2>2, TypesAreNext
         DEF RebuildCommits, TablesTyped, CountersTyped, counts
  <1>6. CASE RebuildConflicts(k)
    <2>1. PICK a \in 0..Backoffs, b \in BOOLEAN : RebuildReturns(k, a, b)
      <3>1. state[k].attempt \in 0..Backoffs
        BY <1>1, StateOf
      <3>2. state[k].attempt < Backoffs => state[k].attempt + 1 \in 0..Backoffs
        BY <3>1, Numbers
      <3>3. QED
        BY <1>4, <1>6, <3>2 DEF RebuildConflicts
    <2>2. /\ runner' \in [Kind -> Runner] /\ rebuild' \in [Kind -> Rebuild]
          /\ lock' \in Lock /\ loop' \in LoopType
          /\ state' \in [Kind -> OptimizerState]
      BY <1>6, <2>1, RebuildReturnsTyped DEF RebuildConflicts
    <2>3. lost' \subseteq Committers
      BY <1>1, <1>6 DEF RebuildConflicts, TablesTyped
    <2>4. QED
      BY <1>1, <1>6, <2>2, <2>3, TypesAreNext
         DEF RebuildConflicts, TablesTyped, CountersTyped, counts
  <1>7. CASE RebuildFails(k)
    <2>1. /\ runner' \in [Kind -> Runner] /\ rebuild' \in [Kind -> Rebuild]
          /\ lock' \in Lock /\ loop' \in LoopType
          /\ state' \in [Kind -> OptimizerState]
      BY <1>4, <1>7, RebuildReturnsTyped DEF RebuildFails
    <2>2. faults' \in 0..MaxFaults
      BY <1>7, FaultCounts DEF RebuildFails
    <2>3. QED
      BY <1>1, <1>7, <2>1, <2>2, TypesAreNext
         DEF RebuildFails, TablesTyped, CountersTyped, counts
  <1>8. QED
    BY <1>2, <1>3, <1>5, <1>6, <1>7

LEMMA LoopStepsTyped ==
    ASSUME IInv,
           \/ Turn \/ Sweep \/ LoopRestarts
           \/ \E k \in Kind : Retry(k)
           \/ \E stable \in BOOLEAN : LoopCrashes(stable)
    PROVE  TypeOK'
  <1>1. TablesTyped /\ CountersTyped /\ phase \in Phase
    BY TypesAre DEF IInv
  <1>2. [pc |-> "sweep", todo |-> Kinds] \in LoopType
    BY Numbers DEF LoopType, LoopPc
  <1>3. CASE Turn
    <2>1. loop' \in LoopType
      BY <1>1, <1>3, LoopTyped DEF Turn, LoopPc
    <2>2. PICK k \in Kind : k = Head(loop.todo)
      BY <1>3, LoopKinds DEF Turn, IInv, Turns
    <2>3. rebuild' \in [Kind -> Rebuild]
      BY <1>1, <1>3, <2>2, RebuildTyped DEF Turn, Rebuild, TablesTyped
    <2>4. QED
      BY <1>1, <1>3, <2>1, <2>3, TypesAreNext DEF Turn, TablesTyped, CountersTyped, counts
  <1>4. CASE Sweep
    <2>1. sweeps' \in 1..MaxSweeps
      BY <1>4, CountersAre, Numbers DEF Sweep
    <2>2. QED
      BY <1>1, <1>2, <1>4, <2>1, TypesAreNext DEF Sweep, TablesTyped, CountersTyped
  <1>5. CASE LoopRestarts
    BY <1>1, <1>2, <1>5, TypesAreNext DEF LoopRestarts, TablesTyped, CountersTyped, counts
  <1>6. CASE \E k \in Kind : Retry(k)
    <2>1. PICK k \in Kind : Retry(k)
      BY <1>6
    <2>2. loop' \in LoopType
      <3>1. <<k>> \in Seq(Kind)
        OBVIOUS
      <3>2. QED
        BY <2>1, <3>1 DEF Retry, LoopType, LoopPc
    <2>3. state' \in [Kind -> OptimizerState]
      BY <1>1, <2>1, StateRetry DEF Retry
    <2>4. QED
      BY <1>1, <2>1, <2>2, <2>3, TypesAreNext DEF Retry, TablesTyped, CountersTyped, counts
  <1>7. CASE \E stable \in BOOLEAN : LoopCrashes(stable)
    <2>1. PICK stable \in BOOLEAN : LoopCrashes(stable)
      BY <1>7
    <2>2. loop' \in LoopType
      BY <1>1, <2>1, LoopTyped DEF LoopCrashes, LoopPc
    <2>3. strikes <= Restarts
      BY <2>1 DEF LoopCrashes, IInv, Turns
    <2>4. strikes' \in 0..(Restarts + 1)
      BY <2>1, <2>3, CountersAre, Numbers DEF LoopCrashes
    <2>5. faults' \in 0..MaxFaults
      BY <2>1, FaultCounts DEF LoopCrashes
    <2>6. QED
      BY <1>1, <2>1, <2>2, <2>4, <2>5, TypesAreNext
         DEF LoopCrashes, TablesTyped, CountersTyped, counts
  <1>8. QED
    BY <1>3, <1>4, <1>5, <1>6, <1>7

LEMMA StopStepsTyped ==
    ASSUME IInv, StopBegins \/ StopLoop \/ StopReturns
    PROVE  TypeOK'
  <1>1. TablesTyped /\ CountersTyped /\ phase \in Phase
    BY TypesAre DEF IInv
  <1>2. CASE StopBegins
    <2>1. lock' \in Lock
      BY <1>1, <1>2 DEF StopBegins, TablesTyped, Lock, Holder
    <2>2. QED
      BY <1>1, <1>2, <2>1, TypesAreNext
         DEF StopBegins, TablesTyped, CountersTyped, counts, Phase
  <1>3. CASE StopLoop
    <2>1. loop' \in LoopType
      BY <1>1, <1>3, LoopTyped DEF StopLoop, LoopPc
    <2>2. /\ runner' \in [Kind -> Runner] /\ rebuild' \in [Kind -> Rebuild]
          /\ lock' \in Lock
      <3>1. CASE loop.pc = "draining"
        <4>1. PICK k \in Kind : k = Head(loop.todo)
          BY <3>1, LoopKinds DEF IInv, Turns
        <4>2. CancelRunner(k)
          BY <1>3, <3>1, <4>1 DEF StopLoop
        <4>3. QED
          BY <1>1, <4>2, CancelRunnerTyped
      <3>2. CASE loop.pc = "rebuilding"
        <4>1. PICK k \in Kind : k = Head(loop.todo)
          BY <3>2, LoopKinds DEF IInv, Turns
        <4>2. /\ rebuild' = [rebuild EXCEPT ![k] = "none"]
              /\ lock' = [lock EXCEPT ![k] = IF @ = "rebuild" THEN "none" ELSE @]
              /\ UNCHANGED runner
          BY <1>3, <3>2, <4>1 DEF StopLoop
        <4>3. QED
          BY <1>1, <4>2 DEF TablesTyped, Lock, Holder, Rebuild
      <3>3. CASE loop.pc \notin {"draining", "rebuilding"}
        BY <1>1, <1>3, <3>3 DEF StopLoop, TablesTyped
      <3>4. QED
        BY <3>1, <3>2, <3>3
    <2>3. QED
      BY <1>1, <1>3, <2>1, <2>2, TypesAreNext
         DEF StopLoop, TablesTyped, CountersTyped, counts, Phase
  <1>4. CASE StopReturns
    BY <1>1, <1>4, TypesAreNext DEF StopReturns, TablesTyped, CountersTyped, counts, Phase
  <1>5. QED
    BY <1>2, <1>3, <1>4

-----------------------------------------------------------------------------
(* The theorems *)

LEMMA InitHolds == Init => IInv
  <1> SUFFICES ASSUME Init PROVE IInv
    OBVIOUS
  <1>1. TablesTyped /\ CountersTyped /\ phase \in Phase
    <2>1. Clean \in OptimizerState
      BY Numbers DEF Clean, OptimizerState
    <2>2. loop \in LoopType
      BY Numbers DEF Init, LoopType, LoopPc
    <2>3. TablesTyped
      BY <2>1, <2>2 DEF Init, TablesTyped, Lock, Holder, Runner, Rebuild
    <2>4. sweeps \in 1..MaxSweeps
      BY Numbers DEF Init
    <2>5. CountersTyped /\ phase \in Phase
      BY <2>4, Numbers DEF Init, CountersTyped, Phase
    <2>6. QED
      BY <2>3, <2>5
  <1>2. TypeOK
    BY <1>1, TypesAre
  <1>3. Tables
    BY DEF Init, Tables, HeldByItsJob, AwaitedOnce, RacedByOthers, Rebuilds
  <1>4. Stops /\ Turns /\ LockedWorkLosesOnlyToOthers
    BY Numbers DEF Init, Stops, Turns, LockedWorkLosesOnlyToOthers
  <1>5. QED
    BY <1>2, <1>3, <1>4 DEF IInv

LEMMA NextHolds == IInv /\ [Next]_vars => IInv'
  <1> SUFFICES ASSUME IInv, [Next]_vars PROVE IInv'
    OBVIOUS
  <1>1. ASSUME NEW k \in Kind,
               \/ AskWrite(k) \/ LockWrite(k) \/ CommitWrite(k) \/ WriteBusy(k)
               \/ OtherProcessCommits(k)
        PROVE  IInv'
    <2>1. Kept
      BY <1>1, AskWriteKeeps, LockWriteKeeps, CommitWriteKeeps, WriteBusyKeeps,
         OtherProcessCommitsKeeps
    <2>2. QED
      BY <1>1, <2>1, WriteStepsTyped DEF Kept, IInv
  <1>2. ASSUME NEW k \in Kind,
               \/ Heartbeat(k) \/ Begin(k) \/ Resume(k) \/ LockPrune(k)
               \/ RunCommits(k) \/ RunConflicts(k) \/ RunFails(k) \/ GiveUpOnRebuild(k)
        PROVE  IInv'
    <2>1. Kept
      BY <1>2, HeartbeatKeeps, BeginKeeps, ResumeKeeps, LockPruneKeeps, RunCommitsKeeps,
         RunConflictsKeeps, RunFailsKeeps, GiveUpOnRebuildKeeps
    <2>2. QED
      BY <1>2, <2>1, RunnerStepsTyped DEF Kept, IInv
  <1>3. ASSUME NEW k \in Kind,
               \/ GiveUpOnRunner(k) \/ LockRebuild(k) \/ RebuildCommits(k)
               \/ RebuildConflicts(k) \/ RebuildFails(k)
        PROVE  IInv'
    <2>1. Kept
      BY <1>3, GiveUpOnRunnerKeeps, LockRebuildKeeps, RebuildCommitsKeeps,
         RebuildConflictsKeeps, RebuildFailsKeeps
    <2>2. QED
      BY <1>3, <2>1, RebuildStepsTyped DEF Kept, IInv
  <1>4. ASSUME \/ Turn \/ Sweep \/ LoopRestarts
               \/ \E k \in Kind : Retry(k)
               \/ \E stable \in BOOLEAN : LoopCrashes(stable)
        PROVE  IInv'
    <2>1. Kept
      BY <1>4, TurnKeeps, LoopStepKeeps
    <2>2. QED
      BY <1>4, <2>1, LoopStepsTyped DEF Kept, IInv
  <1>5. ASSUME StopBegins \/ StopLoop \/ StopReturns
        PROVE  IInv'
    <2>1. Kept
      BY <1>5, StopBeginsKeeps, StopLoopKeeps, StopReturnsKeeps
    <2>2. QED
      BY <1>5, <2>1, StopStepsTyped DEF Kept, IInv
  <1>6. CASE UNCHANGED vars
    BY <1>6 DEF vars, IInv, TypeOK, Tables, HeldByItsJob, AwaitedOnce, RacedByOthers,
                Rebuilds, Stops, Turns, LockedWorkLosesOnlyToOthers
  <1>7. QED
    BY <1>1, <1>2, <1>3, <1>4, <1>5, <1>6
       DEF Next, WriteStep, RunnerStep, RebuildStep, LoopStep, StopStep

LEMMA Invariance == Spec => []IInv
  BY InitHolds, NextHolds, PTL DEF Spec

\* Every variable of the upkeep of the tables has its type; a failed fallback rebuild
\* that is cancelled may leave sinceFallback beyond the alert threshold.
THEOREM TypeCorrect == Spec => []TypeOK
  <1>1. IInv => TypeOK
    BY DEF IInv
  <1>2. QED
    BY <1>1, Invariance, PTL

\* A prune or a rebuild that holds the table's lock (_locked) and loses its commit
\* has lost it to another process, for any number of kinds, writes and faults.
THEOREM LossesCorrect == Spec => []LockedWorkLosesOnlyToOthers
  <1>1. IInv => LockedWorkLosesOnlyToOthers
    BY DEF IInv
  <1>2. QED
    BY <1>1, Invariance, PTL

\* When CascadeWorker.stop returns, no run and no rebuild is at work and every lock
\* is free, whatever it interrupted.
THEOREM StopCorrect == Spec => []StoppedIsQuiet
  <1>1. IInv => StoppedIsQuiet
    <2> SUFFICES ASSUME IInv, phase = "stopped", NEW k \in Kind
                 PROVE  runner[k] = "none" /\ rebuild[k] = "none" /\ lock[k] = "none"
      BY DEF StoppedIsQuiet
    <2>1. /\ runner[k] = "none" /\ writer[k] = "none"
          /\ loop.pc \in {"exit", "cancelled"}
      BY DEF IInv, Stops
    <2>2. rebuild[k] = "none"
      BY <2>1, Table DEF AwaitedOnce, Rebuilds
    <2>3. lock[k] = "none"
      BY <2>1, <2>2, Table DEF HeldByItsJob, Holder
    <2>4. QED
      BY <2>1, <2>2, <2>3
  <1>2. QED
    BY <1>1, Invariance, PTL

=============================================================================
