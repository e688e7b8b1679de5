------------------------ MODULE OfflineEngineProofs ------------------------
(***************************************************************************)
(* For any strategies, events, retries, slots, starts and errors: the      *)
(* engine's count of active runs is right, an attempt's row is written     *)
(* once, no run runs twice, and gated runs are paid for.                   *)
(***************************************************************************)
EXTENDS OfflineEngine, FiniteSetTheorems, SequenceTheorems, TLAPS

-----------------------------------------------------------------------------
(* The inductive invariant *)

Begun(r) == run[r].st # "none"
Ended(r) == run[r].st \in {"over", "lost"}

\* Earlier incarnations of the same event and strategy.
Before(q, r) == q[1] = r[1] /\ q[2] = r[2] /\ q[3] < r[3]
Newest(r) == \A q \in Runs : Before(r, q) => ~ Begun(q)

RowsOf(s) == {rows[s][i] : i \in DOMAIN rows[s]}

\* While an event is gating its runs do not exist, and the run that emits it
\* is inside ctx.emit, of this event only.
Dispatches ==
    \A k \in Events :
        /\ event[k].st \in {"none", "gating"} =>
              \A r \in Runs : r[1] = k => ~ Begun(r)
        /\ event[k].st = "gating" =>
              /\ phase # "off"
              /\ event[k].by # <<>> => run[event[k].by].st = "emitting"
              /\ \A j \in Events :
                    event[j].st = "gating" /\ event[j].by = event[k].by
                    /\ event[k].by # <<>> => j = k

\* Incarnation n begins at a start after the n-th, when all before it ended.
Incarnations ==
    /\ phase # "off" => starts > 0
    /\ \A r \in Runs :
        /\ Begun(r) => r[3] < starts /\ \A q \in Runs : Before(q, r) => Ended(q)
        /\ Alive(r) => phase # "off"
        /\ run[r].st = "backoff" => run[r].attempt < MaxRetries

\* One row per attempt; a RUNNING row is of the last attempt of the last
\* incarnation, and the row of an attempt that executes is RUNNING.
Records ==
    \A s \in Strategies : \A x \in RowsOf(s) :
        /\ x.run[2] = s
        /\ Begun(x.run)
        /\ x.attempt <= run[x.run].attempt
        /\ x.attempt = run[x.run].attempt =>
              /\ run[x.run].st \notin {"queued", "waiting"}
              /\ HoldsSlot(x.run) => x.status = "running"
        /\ x.status = "running" =>
              /\ x.attempt = run[x.run].attempt
              /\ run[x.run].st # "backoff"
              /\ Newest(x.run)
        /\ \A y \in RowsOf(s) : x.run = y.run /\ x.attempt = y.attempt => x = y

\* What a start found is over, has no later incarnation, and its rows are
\* RUNNING until they are marked.
Scanned ==
    /\ phase # "recovering" => stale = {} /\ marked = {}
    /\ stale \cap marked = {}
    /\ \A r \in stale \cup marked :
          /\ Ended(r) /\ r[3] + 1 < starts /\ Newest(r)
    /\ \A r \in stale : \A x \in RowsOf(r[2]) :
          x.run = r /\ x.attempt = run[r].attempt => x.status = "running"
    /\ \A r \in marked : \A x \in RowsOf(r[2]) :
          x.run = r => x.status # "running"

\* The events a gate let through.
Passes(s) == {k \in Events : s \in event[k].routes}

Gates ==
    /\ \A k \in Events :
          /\ event[k].todo \cap event[k].routes = {}
          /\ event[k].st = "none" => event[k].routes = {}
          /\ event[k].st = "none" => event[k].todo = {}
    /\ \A r \in Runs : Begun(r) /\ r[3] = 0 => r[2] \in event[r[1]].routes
    /\ \A s \in Gated : Cardinality(Passes(s)) * Threshold + counter[s] <= counted[s]

IInv ==
    /\ TypeOK
    /\ ActiveCountsRuns
    /\ Dispatches
    /\ Incarnations
    /\ Records
    /\ Scanned
    /\ Gates

-----------------------------------------------------------------------------
(* Data *)

RunType == [st : RunState, attempt : 0..MaxRetries]

\* A run is an event, a strategy and an incarnation.
LEMMA RunParts ==
    ASSUME NEW r \in Runs
    PROVE  /\ r = <<r[1], r[2], r[3]>>
           /\ r[1] \in Events /\ r[2] \in Strategies
           /\ r[3] \in 0..(MaxStarts - 1) /\ r[3] \in Nat
           /\ r # <<>>
  BY EngineAssumption DEF Runs

LEMMA Numbers ==
    /\ MaxStarts \in Nat \ {0} /\ MaxRetries \in Nat /\ MaxEvents \in Nat
    /\ MaxErrors \in Nat /\ Threshold \in Nat \ {0} /\ Slots \in Nat \ {0}
    /\ MaxRecords \in Nat \ {0} /\ 0 \in 0..MaxRetries
    /\ Root \subseteq Strategies /\ Down \subseteq Strategies
  BY EngineAssumption

\* There are finitely many runs.
LEMMA FiniteRuns == IsFiniteSet(Events) /\ IsFiniteSet(Runs)
  <1>1. IsFiniteSet(Events) /\ IsFiniteSet(0..(MaxStarts - 1))
    BY FS_Interval, Numbers DEF Events
  <1>2. IsFiniteSet(Strategies)
    BY EngineAssumption
  <1> DEFINE Pairs == Events \X Strategies
             Trips == Pairs \X (0..(MaxStarts - 1))
             f == [t \in Trips |-> <<t[1][1], t[1][2], t[2]>>]
  <1>3. IsFiniteSet(Trips)
    BY <1>1, <1>2, FS_Product
  <1>4. f \in Surjection(Trips, Runs)
    <2>1. f \in [Trips -> Runs]
      BY DEF Runs
    <2>2. ASSUME NEW r \in Runs PROVE \E t \in Trips : f[t] = r
      <3>1. <<<<r[1], r[2]>>, r[3]>> \in Trips
        BY RunParts
      <3>2. f[<<<<r[1], r[2]>>, r[3]>>] = r
        BY <3>1, RunParts
      <3>3. QED
        BY <3>1, <3>2
    <2>3. QED
      BY <2>1, <2>2 DEF Surjection
  <1>5. QED
    BY <1>1, <1>3, <1>4, FS_Surjection

\* A step of one run.
LEMMA RunGoes ==
    ASSUME TypeOK, NEW r \in Runs, NEW new \in RunType,
           run' = [run EXCEPT ![r] = new]
    PROVE  /\ run' \in [Runs -> RunType]
           /\ run'[r] = new
           /\ \A q \in Runs : q # r => run'[q] = run[q]
  BY DEF TypeOK, RunType

LEMMA RunMoves ==
    ASSUME TypeOK, NEW r \in Runs, NEW st \in RunState,
           run' = [run EXCEPT ![r].st = st]
    PROVE  /\ run' \in [Runs -> RunType]
           /\ run'[r].st = st /\ run'[r].attempt = run[r].attempt
           /\ \A q \in Runs : q # r => run'[q] = run[q]
  BY DEF TypeOK, RunType

\* mark_success and its like change the rows of one attempt.
LEMMA UpdatedRows ==
    ASSUME TypeOK, NEW r \in Runs, NEW a \in 0..MaxRetries,
           NEW status \in RunStatus, rows' = Updated(r, a, status)
    PROVE  /\ rows' \in [Strategies -> Seq(RunRecord)]
           /\ \A s \in Strategies : \A x \in RowsOf(s)' :
                \/ x \in RowsOf(s) /\ (s # r[2] \/ x.run # r \/ x.attempt # a)
                \/ /\ s = r[2]
                   /\ x = [run |-> r, attempt |-> a, status |-> status]
                   /\ \E y \in RowsOf(s) : y.run = r /\ y.attempt = a
  <1> DEFINE log == rows[r[2]]
             new == [i \in DOMAIN log |->
                        IF log[i].run = r /\ log[i].attempt = a
                        THEN [run |-> r, attempt |-> a, status |-> status]
                        ELSE log[i]]
  <1>1. r[2] \in Strategies /\ log \in Seq(RunRecord)
    BY RunParts DEF TypeOK
  <1>2. [run |-> r, attempt |-> a, status |-> status] \in RunRecord
    BY DEF RunRecord
  <1>3. new \in Seq(RunRecord) /\ DOMAIN new = DOMAIN log
    <2>1. DOMAIN log = 1..Len(log) /\ Len(log) \in Nat
      BY <1>1
    <2>2. \A i \in 1..Len(log) : log[i] \in RunRecord
      BY <1>1
    <2>3. new \in [1..Len(log) -> RunRecord]
      BY <2>1, <2>2, <1>2
    <2>4. QED
      BY <2>1, <2>3
  <1>4. rows' = [rows EXCEPT ![r[2]] = new]
    BY DEF Updated
  <1>5. rows' \in [Strategies -> Seq(RunRecord)]
    BY <1>1, <1>3, <1>4 DEF TypeOK
  <1>6. ASSUME NEW s \in Strategies, NEW i \in DOMAIN rows'[s]
        PROVE  \/ /\ rows'[s][i] \in RowsOf(s)
                  /\ s # r[2] \/ rows'[s][i].run # r \/ rows'[s][i].attempt # a
               \/ /\ s = r[2]
                  /\ rows'[s][i] = [run |-> r, attempt |-> a, status |-> status]
                  /\ \E y \in RowsOf(s) : y.run = r /\ y.attempt = a
    <2>1. CASE s # r[2]
      BY <1>1, <1>4, <2>1 DEF TypeOK, RowsOf
    <2>2. CASE s = r[2]
      <3>1. i \in DOMAIN log /\ rows'[s][i] = new[i]
        BY <1>1, <1>3, <1>4, <2>2 DEF TypeOK
      <3>2. QED
        BY <2>2, <3>1 DEF RowsOf
    <2>3. QED
      BY <2>1, <2>2
  <1>7. QED
    BY <1>5, <1>6 DEF RowsOf

\* mark_running adds one row and may drop the oldest.
LEMMA RecordedRows ==
    ASSUME TypeOK, NEW r \in Runs, NEW a \in 0..MaxRetries,
           rows' = Recorded(r, a)
    PROVE  /\ rows' \in [Strategies -> Seq(RunRecord)]
           /\ \A s \in Strategies : \A x \in RowsOf(s)' :
                \/ x \in RowsOf(s)
                \/ /\ s = r[2]
                   /\ x = [run |-> r, attempt |-> a, status |-> "running"]
  <1> DEFINE new == [run |-> r, attempt |-> a, status |-> "running"]
             log == Append(rows[r[2]], new)
             kept == IF Len(log) > MaxRecords THEN Tail(log) ELSE log
  <1>1. r[2] \in Strategies /\ rows[r[2]] \in Seq(RunRecord)
    BY RunParts DEF TypeOK
  <1>2. new \in RunRecord
    BY DEF RunRecord, RunStatus
  <1>3. log \in Seq(RunRecord) /\ Len(log) = Len(rows[r[2]]) + 1
    BY <1>1, <1>2
  <1>4. ASSUME NEW i \in DOMAIN log
        PROVE  log[i] = new \/ log[i] \in RowsOf(r[2])
    BY <1>1, <1>2, <1>3 DEF RowsOf
  <1>5. /\ kept \in Seq(RunRecord)
        /\ \A i \in DOMAIN kept : \E j \in DOMAIN log : kept[i] = log[j]
    <2>1. CASE Len(log) > MaxRecords
      <3>1. kept = Tail(log)
        BY <2>1
      <3>2. /\ Tail(log) \in Seq(RunRecord)
            /\ Len(Tail(log)) = Len(log) - 1
            /\ \A i \in 1..Len(Tail(log)) : Tail(log)[i] = log[i + 1]
        <4> HIDE DEF log
        <4>1. log # <<>>
          BY <1>1, <1>3
        <4>2. QED
          BY <1>3, <4>1, HeadTailProperties
      <3>3. \A i \in DOMAIN Tail(log) : i + 1 \in DOMAIN log
        BY <1>3, <1>1, <3>2
      <3>4. QED
        BY <3>1, <3>2, <3>3
    <2>2. CASE ~ (Len(log) > MaxRecords)
      BY <1>3, <2>2
    <2>3. QED
      BY <2>1, <2>2
  <1>6. rows' = [rows EXCEPT ![r[2]] = kept]
    BY DEF Recorded
  <1>7. rows' \in [Strategies -> Seq(RunRecord)]
    BY <1>1, <1>5, <1>6 DEF TypeOK
  <1>8. ASSUME NEW s \in Strategies, NEW i \in DOMAIN rows'[s]
        PROVE  \/ rows'[s][i] \in RowsOf(s)
               \/ s = r[2] /\ rows'[s][i] = new
    <2>1. CASE s # r[2]
      BY <1>1, <1>6, <2>1 DEF TypeOK, RowsOf
    <2>2. CASE s = r[2]
      <3>1. rows'[s] = kept
        BY <1>1, <1>6, <2>2 DEF TypeOK
      <3>2. PICK j \in DOMAIN log : kept[i] = log[j]
        BY <1>5, <3>1
      <3>3. QED
        BY <1>4, <2>2, <3>1, <3>2
    <2>3. QED
      BY <2>1, <2>2
  <1>9. QED
    BY <1>7, <1>8 DEF RowsOf

-----------------------------------------------------------------------------
(* Counting the runs that are alive *)

AliveRuns == {r \in Runs : Alive(r)}

LEMMA AliveFinite == IsFiniteSet(AliveRuns) /\ Cardinality(AliveRuns) \in Nat
  BY FiniteRuns, FS_Subset, FS_CardinalityType DEF AliveRuns

\* Runs are added and runs end, and both are accounted for.
LEMMA CountStep ==
    ASSUME ActiveCountsRuns,
           NEW added \in SUBSET Runs, NEW ended \in SUBSET AliveRuns,
           added \cap AliveRuns = {},
           AliveRuns' = (AliveRuns \ ended) \cup added,
           Accounted(Cardinality(added), Cardinality(ended))
    PROVE  ActiveCountsRuns' /\ active' \in Nat
  <1>1. /\ IsFiniteSet(AliveRuns) /\ IsFiniteSet(ended) /\ IsFiniteSet(added)
        /\ Cardinality(AliveRuns) \in Nat /\ Cardinality(ended) \in Nat
        /\ Cardinality(added) \in Nat
    BY AliveFinite, FiniteRuns, FS_Subset, FS_CardinalityType DEF AliveRuns
  <1>2. /\ IsFiniteSet(AliveRuns \ ended)
        /\ Cardinality(AliveRuns \ ended) =
              Cardinality(AliveRuns) - Cardinality(ended)
    <2>1. /\ IsFiniteSet(AliveRuns \ ended)
          /\ Cardinality(AliveRuns \ ended) =
               Cardinality(AliveRuns) - Cardinality(AliveRuns \cap ended)
      BY <1>1, FS_Difference
    <2>2. AliveRuns \cap ended = ended
      OBVIOUS
    <2>3. QED
      BY <2>1, <2>2
  <1>3. Cardinality(AliveRuns') =
              Cardinality(AliveRuns) - Cardinality(ended) + Cardinality(added)
    <2>1. (AliveRuns \ ended) \cap added = {}
      OBVIOUS
    <2>2. Cardinality((AliveRuns \ ended) \cup added) =
             Cardinality(AliveRuns \ ended) + Cardinality(added) - Cardinality({})
      BY <1>1, <1>2, <2>1, FS_Union
    <2>3. Cardinality({}) = 0
      BY FS_EmptySet
    <2>4. QED
      BY <1>1, <1>2, <2>2, <2>3
  <1>4. Cardinality(ended) <= Cardinality(AliveRuns)
    BY <1>1, FS_Subset
  <1>5. active = Cardinality(AliveRuns) /\ (idle <=> active = 0)
    BY DEF ActiveCountsRuns, AliveRuns
  <1>6. active' = Cardinality(AliveRuns') /\ active' \in Nat
    BY <1>1, <1>3, <1>4, <1>5 DEF Accounted
  <1>7. idle' <=> active' = 0
    <2>1. CASE Cardinality(added) + Cardinality(ended) = 0
      <3>1. idle' = idle /\ active' = active
        BY <1>1, <1>5, <2>1 DEF Accounted
      <3>2. QED
        BY <1>5, <3>1
    <2>2. CASE Cardinality(added) + Cardinality(ended) # 0
      <3>1. idle' = (active + Cardinality(added) = Cardinality(ended))
        BY <2>2 DEF Accounted
      <3>2. active + Cardinality(added) = Cardinality(ended) <=> active' = 0
        BY <1>1, <1>5 DEF Accounted
      <3>3. QED
        BY <3>1, <3>2
    <2>3. QED
      BY <2>1, <2>2
  <1>8. QED
    BY <1>6, <1>7 DEF ActiveCountsRuns, AliveRuns

\* Nothing begins or ends.
LEMMA CountStays ==
    ASSUME TypeOK, ActiveCountsRuns, UNCHANGED <<active, idle>>,
           \A r \in Runs : Alive(r)' <=> Alive(r)
    PROVE  ActiveCountsRuns' /\ active' \in Nat
  BY DEF ActiveCountsRuns, TypeOK

\* One run ends.
LEMMA CountEnd ==
    ASSUME ActiveCountsRuns, NEW r \in Runs, Alive(r), ~ Alive(r)',
           \A q \in Runs : q # r => (Alive(q)' <=> Alive(q)),
           Accounted(0, 1)
    PROVE  ActiveCountsRuns' /\ active' \in Nat
  <1>1. AliveRuns' = (AliveRuns \ {r}) \cup {} /\ {r} \subseteq AliveRuns
    BY DEF AliveRuns
  <1>2. Cardinality({}) = 0 /\ Cardinality({r}) = 1
    BY FS_EmptySet, FS_Singleton
  <1>3. Accounted(Cardinality({}), Cardinality({r}))
    BY <1>2
  <1>4. QED
    BY <1>1, <1>3, CountStep

\* The runs that a dispatch adds are as many as its routes.
RunsOf(k, routes) == {r \in Runs : r[1] = k /\ r[3] = 0 /\ r[2] \in routes}

LEMMA RoutesCount ==
    ASSUME NEW k \in Events, NEW routes \in SUBSET Strategies
    PROVE  Cardinality(RunsOf(k, routes)) = Cardinality(routes)
  <1> DEFINE f == [s \in routes |-> <<k, s, 0>>]
  <1>1. \A s \in routes : <<k, s, 0>> \in RunsOf(k, routes)
    BY Numbers DEF RunsOf, Runs
  <1>2. f \in [routes -> RunsOf(k, routes)]
    BY <1>1
  <1>3. \A r \in RunsOf(k, routes) : r[2] \in routes /\ f[r[2]] = r
    BY RunParts DEF RunsOf
  <1>4. f \in Bijection(routes, RunsOf(k, routes))
    <2>1. \A s, u \in routes : f[s] = f[u] => s = u
      OBVIOUS
    <2>2. f \in Injection(routes, RunsOf(k, routes))
      <3> HIDE DEF f
      <3>1. QED
        BY <1>2, <2>1 DEF Injection, IsInjective
    <2>3. f \in Surjection(routes, RunsOf(k, routes))
      BY <1>2, <1>3 DEF Surjection
    <2>4. QED
      BY <2>2, <2>3 DEF Bijection
  <1>5. IsFiniteSet(routes)
    BY EngineAssumption, FS_Subset
  <1>6. QED
    BY <1>4, <1>5, FS_Bijection DEF ExistsBijection

-----------------------------------------------------------------------------
(* What the steps do, in one place *)

\* The steps of one run that keep events: what becomes of the run and its rows.
LEMMA FailDoes ==
    ASSUME TypeOK, NEW r \in Runs, FailAttempt(r), Begun(r)
    PROVE  /\ run' \in [Runs -> RunType]
           /\ run'[r].st = IF Retries(r) THEN "backoff" ELSE "over"
           /\ run'[r].attempt = run[r].attempt
           /\ \A q \in Runs : q # r => run'[q] = run[q]
           /\ rows' = Updated(r, run[r].attempt,
                              IF Retries(r) THEN "failed" ELSE "dead_letter")
           /\ Accounted(0, EndsWith(r))
  <1>1. run[r] \in RunType
    BY DEF TypeOK, RunType
  <1>2. /\ AfterFailure(r) \in RunType
        /\ AfterFailure(r).st = IF Retries(r) THEN "backoff" ELSE "over"
        /\ AfterFailure(r).attempt = run[r].attempt
    BY <1>1 DEF AfterFailure, RunType, RunState
  <1>3. QED
    BY <1>2, RunGoes DEF FailAttempt, RecordedFailure

\* An event's gates are evaluated one by one.
LEMMA GateDoes ==
    ASSUME TypeOK, NEW k \in Events, NEW s \in Strategies, Gate(k, s) \/ Route(k, s)
    PROVE  /\ event' \in [Events -> Dispatch]
           /\ \A j \in Events : j # k => event'[j] = event[j]
           /\ event'[k].st = event[k].st /\ event'[k].by = event[k].by
           /\ event'[k].todo = event[k].todo \ {s}
           /\ s \in event[k].todo
           /\ event'[k].routes \in {event[k].routes, event[k].routes \cup {s}}
           /\ UNCHANGED <<phase, run, rows, active, idle, recovery, starts, errors>>
  <1>1. event[k] \in Dispatch /\ event \in [Events -> Dispatch]
    BY DEF TypeOK
  <1> DEFINE pass == [event EXCEPT ![k].todo = @ \ {s}, ![k].routes = @ \cup {s}]
             hold == [event EXCEPT ![k].todo = @ \ {s}]
  <1>2. event' \in {pass, hold}
    BY DEF Gate, GatePasses, GateHolds, Route
  <1>3. /\ pass \in [Events -> Dispatch]
        /\ pass[k].st = event[k].st /\ pass[k].by = event[k].by
        /\ pass[k].todo = event[k].todo \ {s}
        /\ pass[k].routes = event[k].routes \cup {s}
        /\ \A j \in Events : j # k => pass[j] = event[j]
    BY <1>1 DEF Dispatch
  <1>4. /\ hold \in [Events -> Dispatch]
        /\ hold[k].st = event[k].st /\ hold[k].by = event[k].by
        /\ hold[k].todo = event[k].todo \ {s}
        /\ hold[k].routes = event[k].routes
        /\ \A j \in Events : j # k => hold[j] = event[j]
    BY <1>1 DEF Dispatch
  <1>5. /\ s \in event[k].todo
        /\ UNCHANGED <<phase, run, rows, active, idle, recovery, starts, errors>>
    BY DEF Gate, Route
  <1>6. QED
    BY <1>2, <1>3, <1>4, <1>5

\* A new dispatch, from outside or from a run.
LEMMA EmitDoes ==
    ASSUME TypeOK, NEW k \in Events, NEW by \in Runs \cup {<<>>},
           NEW listeners \in SUBSET Strategies,
           event' = [event EXCEPT ![k] = NewDispatch(by, listeners)]
    PROVE  /\ event' \in [Events -> Dispatch]
           /\ event'[k] = NewDispatch(by, listeners)
           /\ \A j \in Events : j # k => event'[j] = event[j]
  BY DEF TypeOK, Dispatch, NewDispatch

\* The jobs of a dispatch are added, and the run that emitted goes on.
LEMMA AddedDoes ==
    ASSUME IInv, NEW k \in Events, event[k].st = "gating",
           NEW routes \in SUBSET Strategies
    PROVE  /\ Added(k, routes) \in [Runs -> RunType]
           /\ \A q \in RunsOf(k, routes) :
                 Added(k, routes)[q] = QueuedRun /\ run[q].st = "none"
           /\ \A q \in Runs : q \notin RunsOf(k, routes) /\ q # event[k].by =>
                 Added(k, routes)[q] = run[q]
           /\ event[k].by \in Runs =>
                 /\ run[event[k].by].st = "emitting"
                 /\ event[k].by \notin RunsOf(k, routes)
                 /\ Added(k, routes)[event[k].by].st = "running"
                 /\ Added(k, routes)[event[k].by].attempt = run[event[k].by].attempt
  <1>1. \A q \in RunsOf(k, routes) : q \in Runs /\ run[q].st = "none"
    BY DEF IInv, Dispatches, RunsOf, Begun
  <1>2. event[k].by \in Runs => run[event[k].by].st = "emitting"
    BY RunParts DEF IInv, Dispatches
  <1>3. event[k].by \in Runs => event[k].by \notin RunsOf(k, routes)
    BY <1>1, <1>2
  <1>4. ASSUME NEW q \in Runs
        PROVE  /\ QueuedRun \in RunType
               /\ run[q] \in RunType
               /\ [run[q] EXCEPT !.st = "running"] \in RunType
               /\ [run[q] EXCEPT !.st = "running"].st = "running"
               /\ [run[q] EXCEPT !.st = "running"].attempt = run[q].attempt
    BY Numbers DEF IInv, TypeOK, QueuedRun, RunType, RunState
  <1>5. Added(k, routes) \in [Runs -> RunType]
    BY <1>4 DEF Added
  <1>6. \A q \in Runs : q \notin RunsOf(k, routes) /\ q # event[k].by =>
           Added(k, routes)[q] = run[q]
    BY DEF Added, RunsOf
  <1>7. event[k].by \in Runs =>
           Added(k, routes)[event[k].by] = [run[event[k].by] EXCEPT !.st = "running"]
    BY <1>3 DEF Added, RunsOf
  <1>8. \A q \in RunsOf(k, routes) : Added(k, routes)[q] = QueuedRun
    BY DEF Added, RunsOf
  <1>9. QED
    BY <1>1, <1>2, <1>3, <1>4, <1>5, <1>6, <1>7, <1>8

\* A process that ends takes its runs and dispatches with it.
LEMMA HaltDoes ==
    ASSUME TypeOK, Halt
    PROVE  /\ run' \in [Runs -> RunType]
           /\ \A r \in Runs : /\ run'[r].attempt = run[r].attempt
                              /\ run'[r].st = IF Alive(r) THEN "lost" ELSE run[r].st
                              /\ ~ Alive(r) => run'[r] = run[r]
           /\ event' \in [Events -> Dispatch]
           /\ \A k \in Events :
                /\ event'[k].st = IF event[k].st = "gating" THEN "raised"
                                  ELSE event[k].st
                /\ event'[k].by = event[k].by
                /\ event'[k].todo = event[k].todo
                /\ event'[k].routes = event[k].routes
  <1>1. \A r \in Runs : /\ run[r] \in RunType
                        /\ [run[r] EXCEPT !.st = "lost"] \in RunType
                        /\ [run[r] EXCEPT !.st = "lost"].st = "lost"
                        /\ [run[r] EXCEPT !.st = "lost"].attempt = run[r].attempt
    BY DEF TypeOK, RunType, RunState
  <1>2. \A k \in Events :
           /\ event[k] \in Dispatch
           /\ [event[k] EXCEPT !.st = "raised"] \in Dispatch
           /\ [event[k] EXCEPT !.st = "raised"].st = "raised"
           /\ [event[k] EXCEPT !.st = "raised"].by = event[k].by
           /\ [event[k] EXCEPT !.st = "raised"].todo = event[k].todo
           /\ [event[k] EXCEPT !.st = "raised"].routes = event[k].routes
    BY DEF TypeOK, Dispatch
  <1>3. QED
    BY <1>1, <1>2 DEF Halt

-----------------------------------------------------------------------------
(* Types and the count *)

\* A run fails, and its emission with it: the count of a dispatch that raises.
LEMMA RaiseDoes ==
    ASSUME IInv, NEW k \in Events, DispatchRaises(k)
    PROVE  \E kept \in SUBSET event[k].routes :
             /\ run' \in [Runs -> RunType]
             /\ \A q \in RunsOf(k, kept) : run'[q] = QueuedRun /\ run[q].st = "none"
             /\ \A q \in Runs : q \notin RunsOf(k, kept) /\ q # event[k].by =>
                   run'[q] = run[q]
             /\ event[k].by \notin Runs =>
                   /\ rows' = rows
                   /\ Accounted(Cardinality(kept), 0)
             /\ event[k].by \in Runs =>
                   LET r == event[k].by IN
                   /\ run[r].st = "emitting"
                   /\ r \notin RunsOf(k, kept)
                   /\ run'[r].st = IF Retries(r) THEN "backoff" ELSE "over"
                   /\ run'[r].attempt = run[r].attempt
                   /\ rows' = Updated(r, run[r].attempt,
                                IF Retries(r) THEN "failed" ELSE "dead_letter")
                   /\ Accounted(Cardinality(kept), EndsWith(r))
  <1>1. PICK kept \in SUBSET event[k].routes :
          IF event[k].by = <<>>
          THEN /\ run' = Added(k, kept)
               /\ Accounted(Cardinality(kept), 0)
               /\ UNCHANGED rows
          ELSE LET r == event[k].by IN
               /\ run' = [Added(k, kept) EXCEPT ![r] = AfterFailure(r)]
               /\ rows' = RecordedFailure(r)
               /\ Accounted(Cardinality(kept), EndsWith(r))
    BY DEF DispatchRaises
  <1>2. event[k].st = "gating" /\ event[k] \in Dispatch
    BY DEF DispatchRaises, IInv, TypeOK
  <1>3. kept \in SUBSET Strategies /\ event[k].by \in Runs \cup {<<>>}
    BY <1>2 DEF Dispatch
  <1>4. <<>> \notin Runs
    BY DEF Runs
  <1> HIDE DEF RunType, RunsOf
  <1>5. CASE event[k].by = <<>>
    <2>1. run' = Added(k, kept) /\ rows' = rows /\ Accounted(Cardinality(kept), 0)
      BY <1>1, <1>5
    <2>2. event[k].by \notin Runs
      BY <1>4, <1>5
    <2>3. QED
      BY <1>2, <1>3, <2>1, <2>2, AddedDoes
  <1>6. CASE event[k].by # <<>>
    <2> DEFINE r == event[k].by
               A == Added(k, kept)
    <2>1. r \in Runs /\ r # <<>>
      BY <1>3, <1>6
    <2>2. /\ A \in [Runs -> RunType]
          /\ \A q \in RunsOf(k, kept) : A[q] = QueuedRun /\ run[q].st = "none"
          /\ \A q \in Runs : q \notin RunsOf(k, kept) /\ q # r => A[q] = run[q]
          /\ run[r].st = "emitting" /\ r \notin RunsOf(k, kept)
      BY <1>2, <1>3, <2>1, AddedDoes
    <2>3. /\ run' = [A EXCEPT ![r] = AfterFailure(r)]
          /\ rows' = RecordedFailure(r)
          /\ Accounted(Cardinality(kept), EndsWith(r))
      BY <1>1, <1>6
    <2>4. /\ AfterFailure(r) \in RunType
          /\ AfterFailure(r).st = IF Retries(r) THEN "backoff" ELSE "over"
          /\ AfterFailure(r).attempt = run[r].attempt
      BY <2>1 DEF IInv, TypeOK, AfterFailure, RunType, RunState
    <2>5. RunsOf(k, kept) \subseteq Runs
      BY DEF RunsOf
    <2> HIDE DEF r, A
    <2>6. /\ run' \in [Runs -> RunType] /\ run'[r] = AfterFailure(r)
          /\ \A q \in Runs : q # r => run'[q] = A[q]
      BY <2>1, <2>2, <2>3, <2>4
    <2>7. /\ \A q \in RunsOf(k, kept) : run'[q] = QueuedRun /\ run[q].st = "none"
          /\ \A q \in Runs : q \notin RunsOf(k, kept) /\ q # r => run'[q] = run[q]
      BY <2>2, <2>5, <2>6
    <2>8. /\ r \in Runs /\ run[r].st = "emitting" /\ r \notin RunsOf(k, kept)
          /\ run'[r].st = IF Retries(r) THEN "backoff" ELSE "over"
          /\ run'[r].attempt = run[r].attempt
          /\ rows' = Updated(r, run[r].attempt,
                             IF Retries(r) THEN "failed" ELSE "dead_letter")
          /\ Accounted(Cardinality(kept), EndsWith(r))
      BY <2>1, <2>2, <2>3, <2>4, <2>6 DEF RecordedFailure
    <2>9. QED
      BY <2>6, <2>7, <2>8 DEF r
  <1>7. QED
    BY <1>5, <1>6


\* The ways of one run from state to state.
Goes(r, from, to) ==
    /\ run[r].st = from /\ run'[r].st = to
    /\ run'[r].attempt = run[r].attempt

Reaches(r, from, to) == Goes(r, from, to) /\ UNCHANGED <<event, rows>>

LEMMA RunningDoes ==
    ASSUME IInv, NEW r \in Runs, Running(r)
    PROVE  /\ run' \in [Runs -> RunType]
           /\ \A q \in Runs : q # r => run'[q] = run[q]
           /\ UNCHANGED <<phase, gates, recovery, starts>>
           /\ errors' \in 0..MaxErrors
           /\ Accounted(0, IF run'[r].st = "over" THEN 1 ELSE 0)
           /\ \/ Reaches(r, "queued", "waiting")
              \/ Reaches(r, "waiting", "over")
              \/ Reaches(r, "running", "over")
              \/ /\ run[r].st = "backoff" /\ run'[r].st = "waiting"
                 /\ run'[r].attempt = run[r].attempt + 1
                 /\ UNCHANGED <<event, rows>>
              \/ /\ Goes(r, "waiting", "running")
                 /\ rows' = Recorded(r, run[r].attempt) /\ UNCHANGED event
              \/ /\ Goes(r, "running", "over") \/ Goes(r, "running", "backoff")
                 /\ run'[r].st = "backoff" => Retries(r)
                 /\ \E status \in RunStatus \ {"running"} :
                       rows' = Updated(r, run[r].attempt, status)
                 /\ UNCHANGED event
              \/ /\ Goes(r, "running", "emitting") /\ UNCHANGED rows
                 /\ \E k \in Events :
                       /\ Started /\ NextEvent(k)
                       /\ event' = [event EXCEPT ![k] = NewDispatch(r, Down)]
  <1>1. TypeOK /\ run \in [Runs -> RunType] /\ run[r] \in RunType /\ active \in Nat
        /\ errors \in 0..MaxErrors /\ MaxErrors \in Nat
    BY Numbers DEF IInv, TypeOK, RunType
  <1>2. run[r].attempt \in 0..MaxRetries /\ run[r].attempt \in Nat /\ MaxRetries \in Nat
    BY <1>1, Numbers DEF RunType
  <1>3. ASSUME UNCHANGED <<active, idle>> PROVE Accounted(0, 0)
    BY <1>1, <1>3 DEF Accounted
  <1>4. ASSUME Fails PROVE errors' \in 0..MaxErrors
    BY <1>1, <1>4 DEF Fails
  <1>5. CASE Fire(r)
    <2>1. /\ run[r].st = "queued" /\ run' = [run EXCEPT ![r].st = "waiting"]
          /\ UNCHANGED <<event, rows, phase, gates, recovery, starts, errors, active, idle>>
      BY <1>5 DEF Fire
    <2>2. /\ run' \in [Runs -> RunType]
          /\ run'[r].st = "waiting" /\ run'[r].attempt = run[r].attempt
          /\ \A q \in Runs : q # r => run'[q] = run[q]
      <3>1. "waiting" \in RunState
        BY DEF RunState
      <3>2. QED
        BY <1>1, <2>1, <3>1, RunMoves
    <2>3. QED
      BY <1>1, <1>3, <2>1, <2>2 DEF Reaches, Goes
  <1>6. CASE StartAttempt(r)
    <2>1. /\ run[r].st = "waiting" /\ run' = [run EXCEPT ![r].st = "running"]
          /\ rows' = Recorded(r, run[r].attempt)
          /\ UNCHANGED <<event, phase, gates, recovery, starts, errors, active, idle>>
      BY <1>6 DEF StartAttempt
    <2>2. /\ run' \in [Runs -> RunType]
          /\ run'[r].st = "running" /\ run'[r].attempt = run[r].attempt
          /\ \A q \in Runs : q # r => run'[q] = run[q]
      <3>1. "running" \in RunState
        BY DEF RunState
      <3>2. QED
        BY <1>1, <2>1, <3>1, RunMoves
    <2>3. QED
      BY <1>1, <1>3, <2>1, <2>2 DEF Goes
  <1>7. CASE StartFails(r) \/ MarkFails(r)
    <2>1. /\ run[r].st \in {"waiting", "running"}
          /\ run' = [run EXCEPT ![r].st = "over"] /\ Accounted(0, 1) /\ Fails
          /\ UNCHANGED <<event, rows, phase, gates, recovery, starts>>
      BY <1>7 DEF StartFails, MarkFails
    <2>2. /\ run' \in [Runs -> RunType]
          /\ run'[r].st = "over" /\ run'[r].attempt = run[r].attempt
          /\ \A q \in Runs : q # r => run'[q] = run[q]
      <3>1. "over" \in RunState
        BY DEF RunState
      <3>2. QED
        BY <1>1, <2>1, <3>1, RunMoves
    <2>3. QED
      BY <1>1, <1>4, <2>1, <2>2 DEF Reaches, Goes
  <1>8. CASE Succeed(r) \/ BreakContract(r)
    <2>1. /\ run[r].st = "running"
          /\ run' = [run EXCEPT ![r].st = "over"] /\ Accounted(0, 1)
          /\ \E status \in {"success", "dead_letter"} :
                rows' = Updated(r, run[r].attempt, status)
          /\ UNCHANGED <<event, phase, gates, recovery, starts, errors>>
      BY <1>8 DEF Succeed, BreakContract
    <2>2. /\ run' \in [Runs -> RunType]
          /\ run'[r].st = "over" /\ run'[r].attempt = run[r].attempt
          /\ \A q \in Runs : q # r => run'[q] = run[q]
      <3>1. "over" \in RunState
        BY DEF RunState
      <3>2. QED
        BY <1>1, <2>1, <3>1, RunMoves
    <2>3. QED
      BY <1>1, <2>1, <2>2 DEF Goes, RunStatus
  <1>9. CASE /\ FailAttempt(r) /\ run[r].st = "running"
             /\ UNCHANGED <<event, phase, gates, recovery, starts, errors>>
    <2>1. /\ run' \in [Runs -> RunType]
          /\ run'[r].st = IF Retries(r) THEN "backoff" ELSE "over"
          /\ run'[r].attempt = run[r].attempt
          /\ \A q \in Runs : q # r => run'[q] = run[q]
          /\ \E status \in RunStatus \ {"running"} :
                rows' = Updated(r, run[r].attempt, status)
          /\ Accounted(0, EndsWith(r))
      BY <1>1, <1>9, FailDoes DEF Begun, RunStatus
    <2>2. CASE Retries(r)
      BY <1>1, <1>9, <2>1, <2>2 DEF EndsWith, Goes
    <2>3. CASE ~ Retries(r)
      BY <1>1, <1>9, <2>1, <2>3 DEF EndsWith, Goes
    <2>4. QED
      BY <2>2, <2>3
  <1>10. CASE Retry(r)
    <2> DEFINE new == [st |-> "waiting", attempt |-> run[r].attempt + 1]
    <2>1. /\ run[r].st = "backoff" /\ run' = [run EXCEPT ![r] = new]
          /\ UNCHANGED <<event, rows, phase, gates, recovery, starts, errors, active, idle>>
      BY <1>10 DEF Retry
    <2>2. run[r].attempt < MaxRetries
      BY <2>1 DEF IInv, Incarnations
    <2>3. new \in RunType
      BY <1>2, <2>2 DEF RunType, RunState
    <2>4. QED
      BY <1>1, <1>3, <2>1, <2>3, RunGoes
  <1>11. ASSUME NEW k \in Events, CtxEmit(r, k)
         PROVE  \/ /\ FailAttempt(r) /\ run[r].st = "running"
                   /\ UNCHANGED <<event, phase, gates, recovery, starts, errors>>
                \/ /\ Started /\ NextEvent(k)
                   /\ event' = [event EXCEPT ![k] = NewDispatch(r, Down)]
                   /\ run[r].st = "running" /\ run' = [run EXCEPT ![r].st = "emitting"]
                   /\ UNCHANGED <<rows, active, idle>>
                   /\ UNCHANGED <<phase, gates, recovery, starts, errors>>
    BY <1>11 DEF CtxEmit
  <1>12. CASE \E k \in Events : CtxEmit(r, k)
    <2>1. CASE \E k \in Events :
                   /\ Started /\ NextEvent(k)
                   /\ event' = [event EXCEPT ![k] = NewDispatch(r, Down)]
                   /\ run[r].st = "running" /\ run' = [run EXCEPT ![r].st = "emitting"]
                   /\ UNCHANGED <<rows, active, idle>>
                   /\ UNCHANGED <<phase, gates, recovery, starts, errors>>
      <3>1. /\ run' \in [Runs -> RunType]
            /\ run'[r].st = "emitting" /\ run'[r].attempt = run[r].attempt
            /\ \A q \in Runs : q # r => run'[q] = run[q]
        <4>1. "emitting" \in RunState
          BY DEF RunState
        <4>2. QED
          BY <1>1, <2>1, <4>1, RunMoves
      <3>2. QED
        BY <1>1, <1>3, <2>1, <3>1 DEF Goes
    <2>2. QED
      BY <1>9, <1>11, <1>12, <2>1
  <1>13. CASE Fail(r)
    BY <1>9, <1>13 DEF Fail
  <1>14. QED
    BY <1>5, <1>6, <1>7, <1>8, <1>10, <1>12, <1>13 DEF Running, Finishing

LEMMA RunningCount ==
    ASSUME IInv, NEW r \in Runs, Running(r)
    PROVE  ActiveCountsRuns' /\ active' \in Nat
  <1>1. /\ \A q \in Runs : q # r => (Alive(q)' <=> Alive(q))
        /\ Alive(r) /\ (Alive(r)' <=> run'[r].st # "over")
        /\ Accounted(0, IF run'[r].st = "over" THEN 1 ELSE 0)
    BY RunningDoes DEF Alive, Reaches, Goes
  <1>2. CASE run'[r].st = "over"
    BY <1>1, <1>2, CountEnd DEF IInv
  <1>3. CASE run'[r].st # "over"
    <2>1. Accounted(0, 0)
      BY <1>1, <1>3
    <2>2. UNCHANGED <<active, idle>>
      BY <2>1 DEF Accounted, IInv, TypeOK
    <2>3. QED
      BY <1>1, <1>3, <2>2, CountStays DEF IInv
  <1>4. QED
    BY <1>2, <1>3

\* A dispatch adds its runs and may end the run that emitted.
LEMMA AddedCount ==
    ASSUME IInv, NEW k \in Events, NEW routes \in SUBSET Strategies, NEW r,
           \A q \in RunsOf(k, routes) : run'[q] = QueuedRun /\ run[q].st = "none",
           \A q \in Runs : q \notin RunsOf(k, routes) /\ q # r =>
                 run'[q] = run[q],
           r \in Runs => /\ Alive(r)
                                   /\ r \notin RunsOf(k, routes),
           Accounted(Cardinality(routes),
                     IF r \in Runs /\ ~ Alive(r)' THEN 1 ELSE 0)
    PROVE  ActiveCountsRuns' /\ active' \in Nat
  <1> DEFINE added == RunsOf(k, routes)
             ended == IF r \in Runs /\ ~ Alive(r)' THEN {r} ELSE {}
  <1>1. Cardinality(added) = Cardinality(routes)
    BY RoutesCount
  <1>2. Cardinality(ended) = IF r \in Runs /\ ~ Alive(r)' THEN 1 ELSE 0
    BY FS_EmptySet, FS_Singleton
  <1>3. added \subseteq Runs /\ \A q \in added : Alive(q)' /\ ~ Alive(q)
    BY DEF RunsOf, Alive, QueuedRun
  <1>4. \A q \in Runs : q \notin added /\ q # r => (Alive(q)' <=> Alive(q))
    BY DEF Alive
  <1>5. ended \in SUBSET AliveRuns
    BY DEF AliveRuns
  <1>6. added \cap AliveRuns = {}
    BY <1>3 DEF AliveRuns
  <1>7. AliveRuns' = (AliveRuns \ ended) \cup added
    <2>1. ASSUME NEW q \in Runs
          PROVE  Alive(q)' <=> (Alive(q) /\ q \notin ended) \/ q \in added
      BY <1>3, <1>4
    <2> HIDE DEF added, ended
    <2>2. QED
      BY <1>3, <2>1 DEF AliveRuns
  <1>8. Accounted(Cardinality(added), Cardinality(ended))
    BY <1>1, <1>2
  <1>9. QED
    BY <1>3, <1>5, <1>6, <1>7, <1>8, CountStep DEF IInv

LEMMA EnqueueCount ==
    ASSUME IInv, NEW k \in Events, Enqueue(k)
    PROVE  ActiveCountsRuns' /\ active' \in Nat
  <1>1. /\ event[k].st = "gating" /\ run' = Added(k, event[k].routes)
        /\ Accounted(Cardinality(event[k].routes), 0)
    BY DEF Enqueue
  <1>2. event[k].routes \in SUBSET Strategies
    BY DEF IInv, TypeOK, Dispatch
  <1>3. PICK r : r = event[k].by
    OBVIOUS
  <1>4. r \in Runs => Alive(r) /\ Alive(r)' /\ r \notin RunsOf(k, event[k].routes)
    BY <1>1, <1>2, <1>3, AddedDoes DEF Alive
  <1>5. /\ \A q \in RunsOf(k, event[k].routes) :
                 run'[q] = QueuedRun /\ run[q].st = "none"
        /\ \A q \in Runs : q \notin RunsOf(k, event[k].routes) /\ q # r =>
                 run'[q] = run[q]
    BY <1>1, <1>2, <1>3, AddedDoes
  <1>6. Accounted(Cardinality(event[k].routes),
                  IF r \in Runs /\ ~ Alive(r)' THEN 1 ELSE 0)
    BY <1>1, <1>4
  <1>7. QED
    BY <1>2, <1>4, <1>5, <1>6, AddedCount

LEMMA RaiseCount ==
    ASSUME IInv, NEW k \in Events, DispatchRaises(k)
    PROVE  ActiveCountsRuns' /\ active' \in Nat
  <1>1. PICK r : r = event[k].by
    OBVIOUS
  <1>2. PICK kept \in SUBSET event[k].routes :
             /\ \A q \in RunsOf(k, kept) : run'[q] = QueuedRun /\ run[q].st = "none"
             /\ \A q \in Runs : q \notin RunsOf(k, kept) /\ q # r =>
                   run'[q] = run[q]
             /\ r \notin Runs => Accounted(Cardinality(kept), 0)
             /\ r \in Runs =>
                   /\ run[r].st = "emitting"
                   /\ r \notin RunsOf(k, kept)
                   /\ run'[r].st = IF Retries(r) THEN "backoff" ELSE "over"
                   /\ Accounted(Cardinality(kept), EndsWith(r))
    BY <1>1, RaiseDoes
  <1>3. kept \in SUBSET Strategies
    BY DEF IInv, TypeOK, Dispatch
  <1>4. r \in Runs => Alive(r)
    BY <1>2 DEF Alive
  <1>5. r \in Runs => (Alive(r)' <=> Retries(r))
    BY <1>2 DEF Alive
  <1>6. Accounted(Cardinality(kept), IF r \in Runs /\ ~ Alive(r)' THEN 1 ELSE 0)
    BY <1>2, <1>5 DEF EndsWith
  <1>7. QED
    BY <1>2, <1>3, <1>4, <1>6, AddedCount

\* A resumed run is a new one.
LEMMA ResumedRun ==
    ASSUME IInv, NEW r \in Runs, r \in stale \cup marked
    PROVE  /\ Resumed(r) \in Runs /\ run[Resumed(r)].st = "none"
           /\ Resumed(r)[1] = r[1] /\ Resumed(r)[2] = r[2]
           /\ Resumed(r)[3] = r[3] + 1
           /\ Resumed(r) # r
  <1>1. r[3] + 1 < starts /\ Newest(r) /\ starts \in Nat /\ starts <= MaxStarts
    BY Numbers DEF IInv, Scanned, TypeOK
  <1>2. r[3] + 1 \in 0..(MaxStarts - 1)
    BY <1>1, Numbers, RunParts
  <1>3. Resumed(r) \in Runs /\ Resumed(r)[1] = r[1] /\ Resumed(r)[2] = r[2]
        /\ Resumed(r)[3] = r[3] + 1
    BY <1>2, RunParts DEF Resumed, Runs
  <1>4. Resumed(r)[3] # r[3] /\ r[3] < Resumed(r)[3]
    BY <1>3, RunParts
  <1>5. QED
    BY <1>1, <1>3, <1>4 DEF Newest, Before, Begun

LEMMA ResumeDoes ==
    ASSUME IInv, NEW r \in Runs, Resume(r)
    PROVE  /\ run' \in [Runs -> RunType]
           /\ run'[Resumed(r)] = QueuedRun
           /\ \A q \in Runs : q # Resumed(r) => run'[q] = run[q]
           /\ r \in marked
  <1>1. QueuedRun \in RunType
    BY Numbers DEF QueuedRun, RunType, RunState
  <1>2. QED
    BY <1>1, RunGoes, ResumedRun DEF Resume, IInv

LEMMA ResumeCount ==
    ASSUME IInv, NEW r \in Runs, Resume(r)
    PROVE  ActiveCountsRuns' /\ active' \in Nat
  <1>1. /\ Resumed(r) \in Runs /\ ~ Alive(Resumed(r)) /\ Alive(Resumed(r))'
        /\ \A q \in Runs : q # Resumed(r) => (Alive(q)' <=> Alive(q))
    BY ResumeDoes, ResumedRun DEF Alive, QueuedRun
  <1>2. /\ {Resumed(r)} \in SUBSET Runs /\ {Resumed(r)} \cap AliveRuns = {}
        /\ AliveRuns' = (AliveRuns \ {}) \cup {Resumed(r)}
    BY <1>1 DEF AliveRuns
  <1>3. Accounted(Cardinality({Resumed(r)}), Cardinality({}))
    <2>1. Cardinality({Resumed(r)}) = 1 /\ Cardinality({}) = 0
      BY FS_EmptySet, FS_Singleton
    <2>2. QED
      BY <2>1 DEF Resume
  <1>4. QED
    BY <1>2, <1>3, CountStep DEF IInv

LEMMA HaltCount ==
    ASSUME IInv, Halt
    PROVE  ActiveCountsRuns' /\ active' \in Nat
  <1>1. \A r \in Runs : ~ Alive(r)'
    BY HaltDoes DEF IInv, Alive
  <1>2. AliveRuns' = {} /\ Cardinality({}) = 0
    BY <1>1, FS_EmptySet DEF AliveRuns
  <1>3. QED
    BY <1>2 DEF Halt, ActiveCountsRuns, AliveRuns

\* Steps that leave runs and their count alone.
Quiet ==
    \/ \E k \in Events : Emit(k) \/ \E s \in Strategies : Gate(k, s) \/ Route(k, s)
    \/ \E r \in Runs : MarkCrashed(r) \/ ResumeFails(r)
    \/ Start \/ StartReturns \/ Stop \/ Wake \/ GiveUp

LEMMA QuietDoes ==
    ASSUME Quiet
    PROVE  UNCHANGED <<run, active, idle>>
  BY DEF Quiet, Emit, Gate, Route, MarkCrashed, ResumeFails, Start, StartReturns,
         Stop, Wake, GiveUp

\* Every step is one of these.
LEMMA Steps ==
    ASSUME [Next]_vars
    PROVE  \/ UNCHANGED vars
           \/ Quiet
           \/ \E k \in Events : Enqueue(k) \/ DispatchRaises(k)
           \/ \E r \in Runs : Running(r) \/ Resume(r)
           \/ phase # "off" /\ Halt
  BY DEF Next, Quiet, Dispatching, Recovering, Lifecycle, Shutdown, Crash

LEMMA CountInv ==
    ASSUME IInv, [Next]_vars
    PROVE  ActiveCountsRuns' /\ active' \in Nat
  <1>1. ASSUME UNCHANGED <<run, active, idle>> PROVE ActiveCountsRuns' /\ active' \in Nat
    BY <1>1, CountStays DEF IInv, Alive
  <1>2. QED
    BY <1>1, Steps, QuietDoes, EnqueueCount, RaiseCount, RunningCount, ResumeCount,
       HaltCount
    DEF vars

\* Every variable keeps its type.
LEMMA GateTypes ==
    ASSUME TypeOK, NEW k \in Events, NEW s \in Strategies, Gate(k, s) \/ Route(k, s)
    PROVE  /\ counter' \in [Strategies -> Nat] /\ passed' \in SUBSET Strategies
           /\ counted' \in [Strategies -> Nat]
  <1>1. CASE Gate(k, s)
    <2>1. /\ \/ counter' = [counter EXCEPT ![s] = 0]
             \/ counter' = [counter EXCEPT ![s] = @ + 1]
          /\ passed' \in {passed, passed \cup {s}}
          /\ counted' = [counted EXCEPT ![s] = @ + 1]
      BY <1>1 DEF Gate, GatePasses, GateHolds
    <2>2. /\ counter \in [Strategies -> Nat] /\ counted \in [Strategies -> Nat]
          /\ passed \in SUBSET Strategies
      BY DEF TypeOK
    <2>3. counter[s] + 1 \in Nat /\ counted[s] + 1 \in Nat
      BY <2>2
    <2>4. QED
      BY <2>1, <2>2, <2>3
  <1>2. CASE Route(k, s)
    BY <1>2 DEF Route, TypeOK, gates
  <1>3. QED
    BY <1>1, <1>2

LEMMA RunningTypes ==
    ASSUME IInv, NEW r \in Runs, Running(r)
    PROVE  /\ event' \in [Events -> Dispatch]
           /\ rows' \in [Strategies -> Seq(RunRecord)]
  <1>1. TypeOK /\ event \in [Events -> Dispatch] /\ run[r].attempt \in 0..MaxRetries
        /\ rows \in [Strategies -> Seq(RunRecord)]
    BY DEF IInv, TypeOK
  <1>2. \/ UNCHANGED event
        \/ \E k \in Events : event' = [event EXCEPT ![k] = NewDispatch(r, Down)]
    BY RunningDoes DEF Reaches
  <1>3. \/ UNCHANGED rows
        \/ rows' = Recorded(r, run[r].attempt)
        \/ \E status \in RunStatus \ {"running"} :
                       rows' = Updated(r, run[r].attempt, status)
    BY RunningDoes DEF Reaches
  <1>4. event' \in [Events -> Dispatch]
    <2>1. CASE UNCHANGED event
      BY <1>1, <2>1
    <2>2. CASE ~ UNCHANGED event
      BY <1>1, <1>2, <2>2, EmitDoes, Numbers
    <2>3. QED
      BY <2>1, <2>2
  <1>5. rows' \in [Strategies -> Seq(RunRecord)]
    <2>1. CASE UNCHANGED rows
      BY <1>1, <2>1
    <2>2. CASE rows' = Recorded(r, run[r].attempt)
      BY <1>1, <2>2, RecordedRows
    <2>3. CASE \E status \in RunStatus \ {"running"} :
                       rows' = Updated(r, run[r].attempt, status)
      BY <1>1, <2>3, UpdatedRows
    <2>4. QED
      BY <1>3, <2>1, <2>2, <2>3
  <1>6. QED
    BY <1>4, <1>5

\* A dispatch whose gates are through, or that raised, is over.
LEMMA ClosedDoes ==
    ASSUME TypeOK, NEW k \in Events, Enqueue(k) \/ DispatchRaises(k)
    PROVE  /\ event' \in [Events -> Dispatch]
           /\ event[k].st = "gating" /\ event'[k].st \in {"done", "raised"}
           /\ event'[k].by = event[k].by /\ event'[k].todo = event[k].todo
           /\ event'[k].routes = event[k].routes
           /\ \A j \in Events : j # k => event'[j] = event[j]
           /\ UNCHANGED <<phase, gates, recovery, starts>>
           /\ errors' \in 0..MaxErrors
  <1>1. event[k] \in Dispatch /\ event \in [Events -> Dispatch]
        /\ errors \in 0..MaxErrors /\ MaxErrors \in Nat
    BY Numbers DEF TypeOK
  <1>2. PICK st \in {"done", "raised"} : event' = [event EXCEPT ![k].st = st]
    BY DEF Enqueue, DispatchRaises
  <1>3. /\ event' \in [Events -> Dispatch] /\ event'[k].st = st
        /\ event'[k].by = event[k].by /\ event'[k].todo = event[k].todo
        /\ event'[k].routes = event[k].routes
        /\ \A j \in Events : j # k => event'[j] = event[j]
    BY <1>1, <1>2 DEF Dispatch
  <1>4. /\ event[k].st = "gating" /\ errors' \in 0..MaxErrors
        /\ UNCHANGED <<phase, gates, recovery, starts>>
    BY <1>1 DEF Enqueue, DispatchRaises, Fails
  <1>5. QED
    BY <1>3, <1>4

LEMMA ClosedTypes ==
    ASSUME IInv, NEW k \in Events, Enqueue(k) \/ DispatchRaises(k)
    PROVE  /\ run' \in [Runs -> RunType]
           /\ rows' \in [Strategies -> Seq(RunRecord)]
  <1>1. TypeOK /\ event[k].st = "gating" /\ event[k].routes \in SUBSET Strategies
        /\ rows \in [Strategies -> Seq(RunRecord)]
    BY ClosedDoes DEF IInv, TypeOK, Dispatch
  <1>2. CASE Enqueue(k)
    BY <1>1, <1>2, AddedDoes DEF Enqueue
  <1>3. CASE DispatchRaises(k)
    <2>1. /\ run' \in [Runs -> RunType]
          /\ \/ UNCHANGED rows
             \/ \E r \in Runs : \E status \in RunStatus :
                   rows' = Updated(r, run[r].attempt, status)
      <3>1. PICK kept \in SUBSET event[k].routes :
             /\ run' \in [Runs -> RunType]
             /\ event[k].by \notin Runs => rows' = rows
             /\ event[k].by \in Runs =>
                   rows' = Updated(event[k].by, run[event[k].by].attempt,
                                IF Retries(event[k].by) THEN "failed" ELSE "dead_letter")
        BY <1>3, RaiseDoes
      <3>2. \A r : (IF Retries(r) THEN "failed" ELSE "dead_letter") \in RunStatus
        BY DEF RunStatus
      <3>3. QED
        BY <3>1, <3>2
    <2>2. \A r \in Runs : run[r].attempt \in 0..MaxRetries
      BY DEF IInv, TypeOK
    <2>3. QED
      BY <1>1, <2>1, <2>2, UpdatedRows
  <1>4. QED
    BY <1>2, <1>3

LEMMA QuietTypes ==
    ASSUME IInv, Quiet
    PROVE  /\ event' \in [Events -> Dispatch]
           /\ rows' \in [Strategies -> Seq(RunRecord)]
           /\ phase' \in Phase
           /\ counter' \in [Strategies -> Nat] /\ passed' \in SUBSET Strategies
           /\ counted' \in [Strategies -> Nat]
           /\ stale' \in SUBSET Runs /\ marked' \in SUBSET Runs
           /\ starts' \in 0..MaxStarts /\ errors' \in 0..MaxErrors
  <1> USE Numbers
  <1>1. TypeOK
    BY DEF IInv
  <1>2. ASSUME NEW k \in Events, Emit(k) PROVE event' \in [Events -> Dispatch]
    <2>1. PICK listeners \in {Root} \cup {{s} : s \in Strategies} :
              event' = [event EXCEPT ![k] = NewDispatch(<<>>, listeners)]
      BY <1>2 DEF Emit
    <2>2. listeners \in SUBSET Strategies
      OBVIOUS
    <2>3. QED
      BY <1>1, <2>1, <2>2, EmitDoes
  <1>3. CASE \E k \in Events : Emit(k)
    BY <1>1, <1>2, <1>3 DEF Emit, TypeOK, gates, recovery
  <1>4. ASSUME NEW k \in Events, NEW s \in Strategies, Gate(k, s) \/ Route(k, s)
        PROVE  /\ event' \in [Events -> Dispatch]
               /\ UNCHANGED <<rows, phase, stale, marked, starts, errors>>
               /\ counter' \in [Strategies -> Nat] /\ passed' \in SUBSET Strategies
               /\ counted' \in [Strategies -> Nat]
    BY <1>1, <1>4, GateDoes, GateTypes DEF recovery
  <1>5. CASE \E k \in Events : \E s \in Strategies : Gate(k, s) \/ Route(k, s)
    BY <1>1, <1>4, <1>5 DEF TypeOK
  <1>6. CASE \E r \in Runs : MarkCrashed(r)
    <2>1. PICK r \in Runs : MarkCrashed(r)
      BY <1>6
    <2>2. rows' = Updated(r, run[r].attempt, "crashed") /\ "crashed" \in RunStatus
          /\ run[r].attempt \in 0..MaxRetries
      BY <1>1, <2>1 DEF MarkCrashed, TypeOK, RunStatus
    <2>3. rows' \in [Strategies -> Seq(RunRecord)]
      BY <1>1, <2>2, UpdatedRows
    <2>4. QED
      BY <1>1, <2>1, <2>3 DEF MarkCrashed, TypeOK, gates
  <1>7. CASE \E r \in Runs : ResumeFails(r)
    BY <1>1, <1>7 DEF ResumeFails, Fails, TypeOK, gates
  <1>8. CASE Start
    BY <1>1, <1>8 DEF Start, TypeOK, gates, Phase
  <1>9. CASE StartReturns \/ Stop \/ Wake \/ GiveUp
    BY <1>1, <1>9 DEF StartReturns, Stop, Wake, GiveUp, TypeOK, gates, recovery, Phase
  <1>10. QED
    BY <1>3, <1>5, <1>6, <1>7, <1>8, <1>9 DEF Quiet

LEMMA AccountedIdle ==
    ASSUME NEW a, NEW e, Accounted(a, e), idle \in BOOLEAN
    PROVE  idle' \in BOOLEAN
  BY DEF Accounted

LEMMA IdleInv == ASSUME IInv, [Next]_vars PROVE idle' \in BOOLEAN
  <1>1. idle \in BOOLEAN
    BY DEF IInv, TypeOK
  <1>2. \/ UNCHANGED idle
        \/ \E a, e : Accounted(a, e)
        \/ idle' = TRUE
    <2>1. ASSUME NEW k \in Events, DispatchRaises(k) PROVE \E a, e : Accounted(a, e)
      BY <2>1 DEF DispatchRaises
    <2>2. QED
      BY <2>1, Steps, QuietDoes, RunningDoes DEF Enqueue, Resume, Halt, vars
  <1>3. QED
    BY <1>1, <1>2, AccountedIdle

LEMMA TypeInv == ASSUME IInv, [Next]_vars PROVE TypeOK'
  <1>1. active' \in Nat /\ idle' \in BOOLEAN
    BY CountInv, IdleInv
  <1>2. TypeOK
    BY DEF IInv
  <1>3. CASE UNCHANGED vars
    BY <1>1, <1>2, <1>3 DEF TypeOK, vars
  <1>4. CASE Quiet
    BY <1>1, <1>2, <1>4, QuietTypes, QuietDoes DEF TypeOK
  <1>5. ASSUME NEW k \in Events, Enqueue(k) \/ DispatchRaises(k) PROVE TypeOK'
    BY <1>1, <1>2, <1>5, ClosedDoes, ClosedTypes DEF TypeOK, RunType, gates, recovery
  <1>6. ASSUME NEW r \in Runs, Running(r) PROVE TypeOK'
    BY <1>1, <1>2, <1>6, RunningDoes, RunningTypes DEF TypeOK, RunType, gates, recovery
  <1>7. ASSUME NEW r \in Runs, Resume(r) PROVE TypeOK'
    BY <1>1, <1>2, <1>7, ResumeDoes DEF TypeOK, RunType, Resume, gates
  <1>8. CASE Halt
    <2>1. run' \in [Runs -> RunType] /\ event' \in [Events -> Dispatch]
      BY <1>2, <1>8, HaltDoes
    <2>2. QED
      BY <1>1, <1>2, <1>8, <2>1 DEF TypeOK, RunType, Halt, gates, Phase
  <1>9. QED
    BY <1>3, <1>4, <1>5, <1>6, <1>7, <1>8, Steps

-----------------------------------------------------------------------------
(* Dispatches *)

\* What a step does to the runs and dispatches, for all steps but those of one
\* run, of a closing dispatch and of a resumption.
LEMMA QuietEvents ==
    ASSUME IInv, Quiet
    PROVE  \/ UNCHANGED event /\ (phase # "off" => phase' # "off")
           \/ /\ UNCHANGED phase /\ Started
              /\ \E k \in Events, listeners \in SUBSET Strategies :
                    /\ NextEvent(k)
                    /\ event' = [event EXCEPT ![k] = NewDispatch(<<>>, listeners)]
           \/ /\ UNCHANGED phase
              /\ \E k \in Events, s \in Strategies : Gate(k, s) \/ Route(k, s)
  <1>1. ASSUME NEW k \in Events, Emit(k)
        PROVE  /\ UNCHANGED phase /\ Started
               /\ \E listeners \in SUBSET Strategies :
                    /\ NextEvent(k)
                    /\ event' = [event EXCEPT ![k] = NewDispatch(<<>>, listeners)]
    BY <1>1, Numbers DEF Emit
  <1>2. ASSUME NEW k \in Events, NEW s \in Strategies, Gate(k, s) \/ Route(k, s)
        PROVE  UNCHANGED phase
    BY <1>2 DEF Gate, Route
  <1>3. ASSUME \/ \E r \in Runs : MarkCrashed(r) \/ ResumeFails(r)
               \/ Start \/ StartReturns \/ Stop \/ Wake \/ GiveUp
        PROVE  UNCHANGED event /\ (phase # "off" => phase' # "off")
    BY <1>3 DEF MarkCrashed, ResumeFails, Start, StartReturns, Stop, Wake, GiveUp
  <1>4. QED
    BY <1>1, <1>2, <1>3 DEF Quiet

\* A dispatch begins for an event whose runs do not exist.
LEMMA DispatchBegins ==
    ASSUME IInv, NEW k \in Events, NextEvent(k), phase # "off", UNCHANGED phase,
           NEW by \in Runs \cup {<<>>}, NEW listeners \in SUBSET Strategies,
           event' = [event EXCEPT ![k] = NewDispatch(by, listeners)],
           run' \in [Runs -> RunType],
           \A q \in Runs : q # by => run'[q] = run[q],
           by \in Runs => Goes(by, "running", "emitting")
    PROVE  Dispatches'
  <1>1. /\ event'[k] = NewDispatch(by, listeners)
        /\ \A j \in Events : j # k => event'[j] = event[j]
    BY EmitDoes DEF IInv
  <1>2. event[k].st = "none" /\ event'[k].st = "gating" /\ event'[k].by = by
    BY <1>1 DEF NextEvent, NewDispatch
  <1>3. \A r \in Runs : r[1] = k => ~ Begun(r)
    BY <1>2 DEF IInv, Dispatches
  <1>4. \A r \in Runs : Begun(r)' <=> Begun(r)
    BY DEF Begun, Goes
  <1>5. ASSUME NEW j \in Events, event[j].st = "gating", event[j].by # <<>>
        PROVE  /\ event[j].by \in Runs /\ event[j].by # by
               /\ run[event[j].by].st = "emitting"
               /\ run'[event[j].by].st = "emitting"
    <2>1. event[j].by \in Runs /\ run[event[j].by].st = "emitting"
      BY <1>5 DEF IInv, Dispatches, TypeOK, Dispatch
    <2>2. event[j].by # by
      BY <1>5, <2>1 DEF Goes
    <2>3. QED
      BY <2>1, <2>2
  <1>6. by # <<>> => run'[by].st = "emitting"
    BY DEF Goes
  <1> SUFFICES ASSUME NEW j \in Events
               PROVE  /\ event'[j].st \in {"none", "gating"} =>
                           \A r \in Runs : r[1] = j => ~ Begun(r)'
                      /\ event'[j].st = "gating" =>
                           /\ phase' # "off"
                           /\ event'[j].by # <<>> => run'[event'[j].by].st = "emitting"
                           /\ \A i \in Events :
                                 event'[i].st = "gating" /\ event'[i].by = event'[j].by
                                 /\ event'[j].by # <<>> => i = j
    BY DEF Dispatches, Begun
  <1>7. event'[j].st \in {"none", "gating"} => \A r \in Runs : r[1] = j => ~ Begun(r)'
    BY <1>1, <1>2, <1>3, <1>4 DEF IInv, Dispatches
  <1>8. event'[j].st = "gating" /\ event'[j].by # <<>> => run'[event'[j].by].st = "emitting"
    BY <1>1, <1>2, <1>5, <1>6
  <1>9. ASSUME event'[j].st = "gating", event'[j].by # <<>>, NEW i \in Events,
               event'[i].st = "gating", event'[i].by = event'[j].by
        PROVE  i = j
    BY <1>1, <1>2, <1>5, <1>9 DEF IInv, Dispatches
  <1>10. QED
    BY <1>7, <1>8, <1>9

\* Events go on and runs stay, or only runs that have begun move.
LEMMA DispatchesStay ==
    ASSUME IInv, phase # "off" => phase' # "off",
           \A k \in Events : event'[k].st = event[k].st /\ event'[k].by = event[k].by,
           \A r \in Runs : Begun(r)' <=> Begun(r),
           \A r \in Runs : run[r].st = "emitting" => run'[r].st = "emitting"
    PROVE  Dispatches'
  <1>1. \A k \in Events : event[k].by \in Runs \cup {<<>>}
    BY DEF IInv, TypeOK, Dispatch
  <1>2. QED
    BY <1>1 DEF IInv, Dispatches

\* A dispatch that closes adds runs, and its emitting run goes on or fails.
LEMMA DispatchCloses ==
    ASSUME IInv, NEW k \in Events, Enqueue(k) \/ DispatchRaises(k),
           NEW routes \in SUBSET Strategies,
           \A q \in RunsOf(k, routes) : run'[q] = QueuedRun,
           \A q \in Runs : q \notin RunsOf(k, routes) /\ q # event[k].by =>
                 run'[q] = run[q],
           event[k].by \in Runs => run'[event[k].by].st # "none"
    PROVE  Dispatches'
  <1>1. /\ event[k].st = "gating" /\ event'[k].st \in {"done", "raised"}
        /\ \A j \in Events : j # k => event'[j] = event[j]
        /\ UNCHANGED phase
    BY ClosedDoes DEF IInv
  <1>2. event[k].by \in Runs \cup {<<>>} /\ <<>> \notin Runs
    BY DEF IInv, TypeOK, Dispatch, Runs
  <1>3. event[k].by \in Runs => run[event[k].by].st = "emitting"
    BY <1>1, <1>2 DEF IInv, Dispatches
  <1>4. \A r \in Runs : r[1] # k => (Begun(r)' <=> Begun(r))
    BY <1>3 DEF Begun, RunsOf
  <1>5. \A r \in Runs : run[r].st = "emitting" /\ r # event[k].by => run'[r] = run[r]
    BY <1>1 DEF IInv, Dispatches, RunsOf, Begun
  <1>6. ASSUME NEW j \in Events, j # k
        PROVE  /\ event'[j].st \in {"none", "gating"} =>
                           \A r \in Runs : r[1] = j => ~ Begun(r)'
               /\ event'[j].st = "gating" =>
                           /\ phase' # "off"
                           /\ event'[j].by # <<>> => run'[event'[j].by].st = "emitting"
                           /\ \A i \in Events :
                                 event'[i].st = "gating" /\ event'[i].by = event'[j].by
                                 /\ event'[j].by # <<>> => i = j
    <2>1. event[j].st = "gating" /\ event[j].by # <<>> =>
             /\ event[j].by \in Runs /\ event[j].by # event[k].by
             /\ run[event[j].by].st = "emitting"
      BY <1>1, <1>6 DEF IInv, Dispatches, TypeOK, Dispatch
    <2>2. event'[j].st \in {"none", "gating"} => \A r \in Runs : r[1] = j => ~ Begun(r)'
      BY <1>1, <1>4, <1>6 DEF IInv, Dispatches
    <2>3. event'[j].st = "gating" /\ event'[j].by # <<>> =>
             run'[event'[j].by].st = "emitting"
      BY <1>1, <1>5, <1>6, <2>1
    <2>4. event'[j].st = "gating" => phase' # "off"
      BY <1>1, <1>6 DEF IInv, Dispatches
    <2>5. ASSUME event'[j].st = "gating", event'[j].by # <<>>, NEW i \in Events,
                 event'[i].st = "gating", event'[i].by = event'[j].by
          PROVE  i = j
      BY <1>1, <1>6, <2>5 DEF IInv, Dispatches
    <2>6. QED
      BY <2>2, <2>3, <2>4, <2>5
  <1>7. QED
    BY <1>1, <1>6 DEF Dispatches, Begun

LEMMA DispatchesInv == ASSUME IInv, [Next]_vars PROVE Dispatches'
  <1>1. CASE UNCHANGED vars
    BY <1>1, DispatchesStay DEF vars, Begun
  <1>2. CASE Quiet
    <2>1. UNCHANGED run /\ run \in [Runs -> RunType]
      BY <1>2, QuietDoes DEF IInv, TypeOK, RunType
    <2>2. \A r \in Runs : Begun(r)' <=> Begun(r)
      BY <2>1 DEF Begun
    <2>3. CASE UNCHANGED event /\ (phase # "off" => phase' # "off")
      BY <2>1, <2>2, <2>3, DispatchesStay
    <2>4. ASSUME NEW k \in Events, NEW listeners \in SUBSET Strategies, NextEvent(k),
                 event' = [event EXCEPT ![k] = NewDispatch(<<>>, listeners)],
                 UNCHANGED phase, Started
          PROVE  Dispatches'
      <3>1. phase # "off" /\ <<>> \notin Runs
        BY <2>4 DEF Started, Runs
      <3>2. QED
        BY <2>1, <2>4, <3>1, DispatchBegins
    <2>5. ASSUME NEW k \in Events, NEW s \in Strategies, UNCHANGED phase,
                 Gate(k, s) \/ Route(k, s)
          PROVE  Dispatches'
      <3>1. \A j \in Events : event'[j].st = event[j].st /\ event'[j].by = event[j].by
        BY <2>5, GateDoes DEF IInv
      <3>2. QED
        BY <2>1, <2>2, <2>5, <3>1, DispatchesStay
    <2>6. QED
      BY <1>2, <2>3, <2>4, <2>5, QuietEvents
  <1>3. ASSUME NEW k \in Events, Enqueue(k) PROVE Dispatches'
    <2>1. event[k].st = "gating" /\ event[k].routes \in SUBSET Strategies
          /\ run' = Added(k, event[k].routes)
      BY <1>3 DEF IInv, TypeOK, Dispatch, Enqueue
    <2>2. QED
      BY <1>3, <2>1, AddedDoes, DispatchCloses
  <1>4. ASSUME NEW k \in Events, DispatchRaises(k) PROVE Dispatches'
    <2>1. PICK kept \in SUBSET event[k].routes :
             /\ \A q \in RunsOf(k, kept) : run'[q] = QueuedRun
             /\ \A q \in Runs : q \notin RunsOf(k, kept) /\ q # event[k].by =>
                   run'[q] = run[q]
             /\ event[k].by \in Runs => run'[event[k].by].st # "none"
      BY <1>4, RaiseDoes
    <2>2. kept \in SUBSET Strategies
      BY DEF IInv, TypeOK, Dispatch
    <2>3. QED
      BY <1>4, <2>1, <2>2, DispatchCloses
  <1>5. ASSUME NEW r \in Runs, Running(r) PROVE Dispatches'
    <2>1. /\ \A q \in Runs : q # r => run'[q] = run[q]
          /\ run[r].st # "none" /\ run'[r].st # "none" /\ run[r].st # "emitting"
          /\ UNCHANGED phase /\ run' \in [Runs -> RunType]
      BY <1>5, RunningDoes DEF Reaches, Goes
    <2>2. CASE UNCHANGED event
      BY <2>1, <2>2, DispatchesStay DEF Begun
    <2>3. ASSUME NEW k \in Events, Started, NextEvent(k), Goes(r, "running", "emitting"),
                 event' = [event EXCEPT ![k] = NewDispatch(r, Down)]
          PROVE  Dispatches'
      BY <2>1, <2>3, DispatchBegins, Numbers DEF Started
    <2>4. QED
      BY <1>5, <2>2, <2>3, RunningDoes DEF Reaches
  <1>6. ASSUME NEW r \in Runs, Resume(r) PROVE Dispatches'
    <2>1. r \in marked /\ Resumed(r) \in Runs /\ run[Resumed(r)].st = "none"
          /\ Resumed(r)[1] = r[1] /\ run'[Resumed(r)].st = "queued"
          /\ \A q \in Runs : q # Resumed(r) => run'[q] = run[q]
      BY <1>6, ResumeDoes, ResumedRun DEF QueuedRun
    <2>2. UNCHANGED <<event, phase>>
      BY <1>6 DEF Resume
    <2>3. Begun(r) /\ r[1] \in Events
      BY <2>1, RunParts DEF IInv, Scanned, Ended, Begun
    <2>4. event[r[1]].st \notin {"none", "gating"}
      BY <2>3 DEF IInv, Dispatches
    <2>5. \A q \in Runs : q[1] # r[1] => (Begun(q)' <=> Begun(q))
      BY <2>1 DEF Begun
    <2>6. \A q \in Runs : run[q].st = "emitting" => run'[q].st = "emitting"
      BY <2>1
    <2>7. \A k \in Events : event[k].by \in Runs \cup {<<>>}
      BY DEF IInv, TypeOK, Dispatch
    <2>8. QED
      BY <2>2, <2>4, <2>5, <2>6, <2>7 DEF IInv, Dispatches
  <1>7. CASE Halt
    <2>1. \A k \in Events : event'[k].st # "gating"
               /\ (event'[k].st = "none" => event[k].st = "none")
      BY <1>7, HaltDoes DEF IInv
    <2>2. \A r \in Runs : Begun(r)' => Begun(r)
      BY <1>7, HaltDoes DEF IInv, Begun, Alive
    <2>3. QED
      BY <2>1, <2>2 DEF IInv, Dispatches
  <1>8. QED
    BY <1>1, <1>2, <1>3, <1>4, <1>5, <1>6, <1>7, Steps

-----------------------------------------------------------------------------
(* Incarnations *)

\* How a run may change in a step: it begins after all before it ended, it
\* moves on, or its process goes away.
Begins(r) ==
    /\ run[r].st = "none" /\ run'[r] = QueuedRun
    /\ starts > 0 /\ phase # "off" /\ phase' # "off" /\ r[3] < starts
    /\ \A q \in Runs : Before(q, r) => Ended(q)
    /\ \A x \in RowsOf(r[2]) : x.run = r \/ Before(x.run, r) => x.status # "running"
    /\ \A q \in stale' \cup marked' : ~ Before(q, r)

Moves(r) ==
    /\ Alive(r) /\ phase # "off" /\ phase' # "off" /\ run'[r].st # "none"
    /\ run'[r].st = "backoff" => run'[r].attempt < MaxRetries
    /\ run[r].st # "backoff" => run'[r].attempt = run[r].attempt

Dies(r) == Alive(r) /\ run'[r].st = "lost" /\ run'[r].attempt = run[r].attempt

LEMMA FirstBegins ==
    ASSUME IInv, NEW r \in Runs, r[3] = 0, NEW k \in Events, r[1] = k,
           event[k].st = "gating", run'[r] = QueuedRun,
           UNCHANGED <<phase, recovery>>
    PROVE  Begins(r)
  <1>1. run[r].st = "none" /\ phase # "off" /\ starts > 0
    BY DEF IInv, Dispatches, Incarnations, Begun
  <1>2. \A q \in Runs : ~ Before(q, r)
    <2>1. ASSUME NEW q \in Runs, q[3] < r[3] PROVE FALSE
      <3>1. q[3] \in Nat
        BY RunParts
      <3>2. QED
        BY <2>1, <3>1
    <2>2. QED
      BY <2>1 DEF Before
  <1>3. \A x \in RowsOf(r[2]) : x.run # r /\ x.run \in Runs
    <2>1. r[2] \in Strategies
      BY RunParts
    <2>2. rows[r[2]] \in Seq(RunRecord)
      BY <2>1 DEF IInv, TypeOK
    <2>3. \A x \in RowsOf(r[2]) : x \in RunRecord
      BY <2>2 DEF RowsOf
    <2>4. QED
      BY <1>1, <2>1, <2>3 DEF IInv, Records, Begun, RunRecord
  <1>4. stale' \cup marked' \subseteq Runs
    BY DEF IInv, TypeOK, recovery
  <1>5. starts \in Nat /\ r[3] < starts
    BY <1>1 DEF IInv, TypeOK
  <1>6. QED
    BY <1>1, <1>2, <1>3, <1>4, <1>5 DEF Begins

LEMMA RecordType ==
    ASSUME TypeOK, NEW s \in Strategies
    PROVE  \A x \in RowsOf(s) : /\ x \in RunRecord /\ x.run \in Runs
                                /\ x.attempt \in 0..MaxRetries
  <1>1. rows[s] \in Seq(RunRecord)
    BY DEF TypeOK
  <1>2. \A i \in DOMAIN rows[s] : rows[s][i] \in RunRecord
    BY <1>1
  <1>3. \A x \in RowsOf(s) : x \in RunRecord
    BY <1>2 DEF RowsOf
  <1>4. QED
    BY <1>3 DEF RunRecord

LEMMA ResumedBegins ==
    ASSUME IInv, NEW r0 \in Runs, Resume(r0)
    PROVE  Begins(Resumed(r0))
  <1> DEFINE r == Resumed(r0)
  <1>1. /\ r \in Runs /\ run[r].st = "none" /\ r[1] = r0[1] /\ r[2] = r0[2]
        /\ r[3] = r0[3] + 1 /\ r0 \in marked /\ run'[r] = QueuedRun
        /\ \A q \in Runs : q # r => run'[q] = run[q]
    BY ResumeDoes, ResumedRun
  <1>2. /\ Ended(r0) /\ r0[3] + 1 < starts /\ Newest(r0) /\ phase = "recovering"
        /\ marked' = {} /\ stale' = stale /\ phase' = phase
        /\ r0[2] \in Strategies
    BY <1>1, RunParts DEF IInv, Scanned, Resume
  <1>3. Begun(r0) /\ \A q \in Runs : Before(q, r0) => Ended(q)
    BY <1>2 DEF IInv, Incarnations, Ended, Begun
  <1>4. \A q \in Runs : Before(q, r) => q = r0 \/ Before(q, r0)
    <2>1. ASSUME NEW q \in Runs, Before(q, r), q # r0 PROVE Before(q, r0)
      <3>1. q[1] = r0[1] /\ q[2] = r0[2] /\ q[3] < r0[3] + 1
        BY <1>1, <2>1 DEF Before
      <3>2. q[3] # r0[3] /\ q[3] \in Nat /\ r0[3] \in Nat
        BY <2>1, <3>1, RunParts
      <3>3. QED
        BY <3>1, <3>2 DEF Before
    <2>2. QED
      BY <2>1
  <1>5. ASSUME NEW x \in RowsOf(r[2]), x.run = r \/ Before(x.run, r)
        PROVE  x.status # "running"
    <2>1. x.run \in Runs /\ x \in RowsOf(r0[2])
      BY <1>1, <1>2, <1>5, RecordType DEF IInv
    <2>2. x.run # r
      BY <1>1, <1>2, <2>1 DEF IInv, Records, Begun
    <2>3. CASE x.run = r0
      BY <1>1, <1>2, <2>1, <2>3 DEF IInv, Scanned
    <2>4. CASE Before(x.run, r0)
      BY <1>2, <1>3, <2>1, <2>4 DEF IInv, Records, Newest
    <2>5. QED
      BY <1>4, <1>5, <2>1, <2>2, <2>3, <2>4
  <1>6. ASSUME NEW q \in stale' \cup marked', Before(q, r) PROVE FALSE
    <2>1. q \in stale /\ q \in Runs
      BY <1>2, <1>6 DEF IInv, TypeOK
    <2>2. q # r0
      BY <1>1, <2>1 DEF IInv, Scanned
    <2>3. Before(q, r0) /\ Newest(q)
      BY <1>4, <1>6, <2>1, <2>2 DEF IInv, Scanned
    <2>4. QED
      BY <1>3, <2>1, <2>3 DEF Newest
  <1>7. starts > 0 /\ r[3] < starts /\ phase # "off"
    <2>1. starts \in Nat /\ r0[3] \in Nat
      BY RunParts DEF IInv, TypeOK
    <2>2. QED
      BY <1>1, <1>2, <2>1
  <1>8. \A q \in Runs : Before(q, r) => Ended(q)
    BY <1>2, <1>3, <1>4
  <1>9. QED
    BY <1>1, <1>2, <1>5, <1>6, <1>7, <1>8 DEF Begins

LEMMA RunStep ==
    ASSUME IInv, [Next]_vars, NEW r \in Runs
    PROVE  run'[r] = run[r] \/ Begins(r) \/ Moves(r) \/ Dies(r)
  <1>1. CASE UNCHANGED vars \/ Quiet
    BY <1>1, QuietDoes DEF vars
  <1>2. ASSUME NEW k \in Events, Enqueue(k) \/ DispatchRaises(k)
        PROVE  run'[r] = run[r] \/ Begins(r) \/ Moves(r)
    <2>1. event[k].st = "gating" /\ event[k].routes \in SUBSET Strategies
          /\ UNCHANGED <<phase, recovery>>
      BY <1>2, ClosedDoes DEF IInv, TypeOK, Dispatch
    <2>2. PICK routes \in SUBSET Strategies :
             /\ \A q \in RunsOf(k, routes) : run'[q] = QueuedRun
             /\ \A q \in Runs : q \notin RunsOf(k, routes) /\ q # event[k].by =>
                   run'[q] = run[q]
             /\ event[k].by \in Runs =>
                   /\ run[event[k].by].st = "emitting"
                   /\ run'[event[k].by].attempt = run[event[k].by].attempt
                   /\ run'[event[k].by].st \in {"running", "backoff", "over"}
                   /\ run'[event[k].by].st = "backoff" => Retries(event[k].by)
      <3>1. CASE Enqueue(k)
        BY <2>1, <3>1, AddedDoes DEF Enqueue
      <3>2. CASE DispatchRaises(k)
        BY <2>1, <3>2, RaiseDoes
      <3>3. QED
        BY <1>2, <3>1, <3>2
    <2>3. CASE r \in RunsOf(k, routes)
      BY <2>1, <2>2, <2>3, FirstBegins DEF RunsOf
    <2>4. CASE r = event[k].by
      <3>1. /\ run[r].st = "emitting" /\ run'[r].attempt = run[r].attempt
            /\ run'[r].st \in {"running", "backoff", "over"}
            /\ run'[r].st = "backoff" => Retries(r)
        BY <2>2, <2>4
      <3>2. phase # "off"
        BY <2>1 DEF IInv, Dispatches
      <3>3. QED
        BY <2>1, <3>1, <3>2 DEF Moves, Alive, Retries
    <2>5. QED
      BY <2>2, <2>3, <2>4
  <1>3. ASSUME NEW q \in Runs, Running(q) PROVE run'[r] = run[r] \/ Moves(r)
    <2>1. CASE q # r
      BY <1>3, <2>1, RunningDoes
    <2>2. CASE q = r
      <3>1. /\ Alive(r) /\ UNCHANGED phase
            /\ run'[r].st # "none"
            /\ run'[r].st = "backoff" => Retries(r)
            /\ run[r].st # "backoff" => run'[r].attempt = run[r].attempt
            /\ run'[r].st = "backoff" => run[r].st # "backoff"
        BY <1>3, <2>2, RunningDoes DEF Reaches, Goes, Alive
      <3>2. phase # "off"
        BY <3>1 DEF IInv, Incarnations
      <3>3. QED
        BY <3>1, <3>2 DEF Moves, Retries
    <2>3. QED
      BY <2>1, <2>2
  <1>4. ASSUME NEW q \in Runs, Resume(q) PROVE run'[r] = run[r] \/ Begins(r)
    BY <1>4, ResumeDoes, ResumedBegins
  <1>5. CASE Halt
    BY <1>5, HaltDoes DEF IInv, Dies
  <1>6. QED
    BY <1>1, <1>2, <1>3, <1>4, <1>5, Steps

\* What has begun stays so, and what ended stays as it is.
LEMMA RunsGoOn ==
    ASSUME IInv, [Next]_vars, NEW r \in Runs
    PROVE  /\ Begun(r) => Begun(r)'
           /\ Ended(r) => run'[r] = run[r] /\ Ended(r)'
           /\ ~ Begun(r) /\ Begun(r)' => Begins(r)
  BY RunStep DEF Begins, Moves, Dies, Begun, Ended, Alive

\* The phases of the process.
LEMMA PhaseStep ==
    ASSUME IInv, [Next]_vars
    PROVE  /\ starts' \in Nat /\ starts \in Nat /\ starts <= starts'
           /\ phase' # "off" => starts' > 0
           /\ phase # "off" /\ phase' = "off" => Halt
  <1>1. starts \in 0..MaxStarts /\ starts \in Nat
    BY Numbers DEF IInv, TypeOK
  <1>2. phase # "off" => starts > 0
    BY DEF IInv, Incarnations
  <1>3. CASE Halt
    BY <1>1, <1>3 DEF Halt
  <1>4. CASE Start
    BY <1>1, <1>4 DEF Start
  <1>5. ASSUME ~ Halt, ~ Start
        PROVE  /\ starts' = starts
               /\ phase' # phase => phase # "off" /\ phase' # "off"
    BY <1>5, Steps, ClosedDoes, RunningDoes
    DEF IInv, vars, Quiet, Emit, Gate, Route, MarkCrashed, ResumeFails, StartReturns,
        Stop, Wake, GiveUp, Resume
  <1>6. QED
    BY <1>1, <1>2, <1>3, <1>4, <1>5

LEMMA IncarnationsInv == ASSUME IInv, [Next]_vars PROVE Incarnations'
  <1>1. /\ starts' \in Nat /\ starts \in Nat /\ starts <= starts'
        /\ phase' # "off" => starts' > 0
    BY PhaseStep
  <1>2. ASSUME NEW r \in Runs, Begun(r)'
        PROVE  r[3] < starts' /\ \A q \in Runs : Before(q, r) => Ended(q)'
    <2>1. r[3] \in Nat
      BY RunParts
    <2>2. r[3] < starts /\ \A q \in Runs : Before(q, r) => Ended(q)
      <3>1. CASE Begun(r)
        BY <3>1 DEF IInv, Incarnations
      <3>2. CASE ~ Begun(r)
        BY <1>2, <3>2, RunsGoOn DEF Begins
      <3>3. QED
        BY <3>1, <3>2
    <2>3. QED
      BY <1>1, <2>1, <2>2, RunsGoOn
  <1>3. ASSUME NEW r \in Runs, Alive(r)' PROVE phase' # "off"
    <2>1. CASE run'[r] = run[r]
      <3>1. Alive(r) /\ phase # "off"
        BY <1>3, <2>1 DEF IInv, Incarnations, Alive
      <3>2. ~ Halt
        BY <1>3, HaltDoes DEF IInv, Alive
      <3>3. QED
        BY <3>1, <3>2, PhaseStep
    <2>2. QED
      BY <1>3, <2>1, RunStep DEF Begins, Moves, Dies, Alive
  <1>4. ASSUME NEW r \in Runs, run'[r].st = "backoff"
        PROVE  run'[r].attempt < MaxRetries
    BY <1>4, RunStep DEF IInv, Incarnations, Begins, Moves, Dies, QueuedRun
  <1>5. QED
    BY <1>1, <1>2, <1>3, <1>4 DEF Incarnations, Before

-----------------------------------------------------------------------------
(* Records *)

\* What Records says of one row, and of two.
RowFits(s, x) ==
    /\ x.run[2] = s
    /\ Begun(x.run)
    /\ x.attempt <= run[x.run].attempt
    /\ x.attempt = run[x.run].attempt =>
          /\ run[x.run].st \notin {"queued", "waiting"}
          /\ HoldsSlot(x.run) => x.status = "running"
    /\ x.status = "running" =>
          /\ x.attempt = run[x.run].attempt
          /\ run[x.run].st # "backoff"
          /\ Newest(x.run)

LEMMA RowsFit ==
    ASSUME Records, NEW s \in Strategies, NEW x \in RowsOf(s)
    PROVE  RowFits(s, x)
  BY DEF Records, RowFits

\* One row goes on to fit when no other run of its event and strategy begins
\* and its own run stays, ends, or goes on with a later attempt.
LEMMA RowStays ==
    ASSUME IInv, [Next]_vars, NEW s \in Strategies, NEW x \in RowsOf(s),
           \/ run'[x.run] = run[x.run]
           \/ run'[x.run].st \in {"over", "lost"} /\ run'[x.run].attempt = run[x.run].attempt
           \/ /\ run[x.run].st \in {"running", "emitting"}
              /\ run'[x.run].st \in {"running", "emitting"}
              /\ run'[x.run].attempt = run[x.run].attempt
           \/ /\ x.status # "running" /\ run'[x.run].st = "backoff"
              /\ run'[x.run].attempt = run[x.run].attempt
           \/ /\ x.status # "running" /\ run'[x.run].st = "waiting"
              /\ run'[x.run].attempt = run[x.run].attempt + 1
           \/ /\ x.attempt # run[x.run].attempt /\ run'[x.run].st # "none"
              /\ run'[x.run].attempt = run[x.run].attempt
    PROVE  RowFits(s, x)'
  <1>1. x.run \in Runs /\ x.attempt \in Nat /\ run[x.run].attempt \in Nat
        /\ s = x.run[2]
    BY RecordType, RowsFit, Numbers DEF IInv, TypeOK, RowFits
  <1>2. RowFits(s, x)
    BY RowsFit DEF IInv
  <1>3. x.status = "running" => Newest(x.run)'
    <2>1. ASSUME x.status = "running", NEW q \in Runs, Before(x.run, q), Begun(q)'
          PROVE  FALSE
      <3>1. ~ Begun(q)
        BY <1>2, <2>1 DEF RowFits, Newest
      <3>2. Begins(q) /\ q[2] = s
        BY <1>1, <2>1, <3>1, RunsGoOn DEF Before
      <3>3. QED
        BY <2>1, <3>2 DEF Begins
    <2>2. QED
      BY <2>1 DEF Newest, Before
  <1>4. Begun(x.run)'
    BY <1>1, <1>2, RunsGoOn DEF RowFits
  <1>5. QED
    BY <1>1, <1>2, <1>3, <1>4 DEF RowFits, HoldsSlot

\* Rows that stay, and a run of theirs that does not change badly.
LEMMA RowsStay ==
    ASSUME IInv, [Next]_vars, UNCHANGED rows,
           \A s \in Strategies : \A x \in RowsOf(s) : RowFits(s, x)'
    PROVE  Records'
  <1>1. \A s \in Strategies : RowsOf(s)' = RowsOf(s)
    BY DEF RowsOf
  <1>2. \A s \in Strategies : \A x, y \in RowsOf(s) :
           x.run = y.run /\ x.attempt = y.attempt => x = y
    BY DEF IInv, Records
  <1>3. QED
    BY <1>1, <1>2 DEF Records, RowFits

\* The row of the attempt of r is updated, and the other rows stay.
LEMMA RowsUpdated ==
    ASSUME IInv, [Next]_vars, NEW r \in Runs, NEW status \in RunStatus \ {"running"},
           rows' = Updated(r, run[r].attempt, status),
           run'[r].attempt = run[r].attempt,
           run'[r].st \in {"backoff", "over", "lost"},
           \A s \in Strategies : \A x \in RowsOf(s) :
              s # r[2] \/ x.run # r \/ x.attempt # run[r].attempt => RowFits(s, x)'
    PROVE  Records'
  <1> DEFINE new == [run |-> r, attempt |-> run[r].attempt, status |-> status]
  <1>1. run[r].attempt \in 0..MaxRetries /\ r[2] \in Strategies /\ run[r].attempt \in Nat
    BY RunParts, Numbers DEF IInv, TypeOK
  <1>2. \A s \in Strategies : \A x \in RowsOf(s)' :
                \/ x \in RowsOf(s) /\ (s # r[2] \/ x.run # r \/ x.attempt # run[r].attempt)
                \/ s = r[2] /\ x = new /\ \E y \in RowsOf(s) : y.run = r
    BY <1>1, UpdatedRows DEF IInv
  <1>3. (\E y \in RowsOf(r[2]) : y.run = r) => RowFits(r[2], new)'
    <2>1. ASSUME \E y \in RowsOf(r[2]) : y.run = r PROVE Begun(r)'
      BY <1>1, <2>1, RowsFit, RunsGoOn DEF IInv, RowFits
    <2>2. QED
      BY <1>1, <2>1 DEF RowFits, HoldsSlot
  <1>4. ASSUME NEW s \in Strategies, NEW x \in RowsOf(s)' PROVE RowFits(s, x)'
    BY <1>2, <1>3, <1>4
  <1>5. ASSUME NEW s \in Strategies, NEW x \in RowsOf(s)', NEW y \in RowsOf(s)',
               x.run = y.run, x.attempt = y.attempt
        PROVE  x = y
    <2>1. new.run = r /\ new.attempt = run[r].attempt
      OBVIOUS
    <2>2. CASE x \in RowsOf(s) /\ y \in RowsOf(s)
      BY <1>5, <2>2 DEF IInv, Records
    <2> HIDE DEF new
    <2>3. QED
      BY <1>2, <1>5, <2>1, <2>2
  <1>6. QED
    BY <1>4, <1>5 DEF Records, RowFits

\* The row of a new attempt joins the others.
LEMMA RowsRecorded ==
    ASSUME IInv, [Next]_vars, NEW r \in Runs,
           rows' = Recorded(r, run[r].attempt), Goes(r, "waiting", "running"),
           \A q \in Runs : q # r => run'[q] = run[q]
    PROVE  Records'
  <1> DEFINE new == [run |-> r, attempt |-> run[r].attempt, status |-> "running"]
  <1>1. run[r].attempt \in 0..MaxRetries /\ r[2] \in Strategies /\ run[r].attempt \in Nat
    BY RunParts, Numbers DEF IInv, TypeOK
  <1>2. \A s \in Strategies : \A x \in RowsOf(s)' :
                x \in RowsOf(s) \/ (s = r[2] /\ x = new)
    BY <1>1, RecordedRows DEF IInv
  <1>3. \A s \in Strategies : \A x \in RowsOf(s) : x.run = r => x.attempt # run[r].attempt
    BY RowsFit DEF IInv, RowFits, Goes
  <1>4. ASSUME NEW s \in Strategies, NEW x \in RowsOf(s) PROVE RowFits(s, x)'
    <2>1. x.run \in Runs
      BY RecordType DEF IInv
    <2>2. CASE x.run = r
      BY <1>3, <2>2, RowStays DEF Goes
    <2>3. CASE x.run # r
      BY <2>1, <2>3, RowStays
    <2>4. QED
      BY <2>2, <2>3
  <1>5. ASSUME NEW x, x = new PROVE RowFits(r[2], x)'
    <2>1. Newest(r)'
      <3>1. ASSUME NEW q \in Runs, Before(r, q), Begun(q)' PROVE FALSE
        <4>1. q # r
          BY <3>1, RunParts DEF Before
        <4>2. Begun(q)
          BY <3>1, <4>1 DEF Begun
        <4>3. Ended(r)
          BY <3>1, <4>2 DEF IInv, Incarnations
        <4>4. QED
          BY <4>3 DEF Ended, Goes
      <3>2. QED
        BY <3>1 DEF Newest, Before
    <2>2. x.run = r /\ x.attempt = run[r].attempt /\ x.status = "running"
      BY <1>5
    <2>3. QED
      BY <1>1, <2>1, <2>2 DEF RowFits, Begun, Goes, HoldsSlot
  <1>6. ASSUME NEW s \in Strategies, NEW x \in RowsOf(s)', NEW y \in RowsOf(s)',
               x.run = y.run, x.attempt = y.attempt
        PROVE  x = y
    <2>1. new.run = r /\ new.attempt = run[r].attempt
      OBVIOUS
    <2>2. CASE x \in RowsOf(s) /\ y \in RowsOf(s)
      BY <1>6, <2>2 DEF IInv, Records
    <2> HIDE DEF new
    <2>3. QED
      BY <1>2, <1>3, <1>6, <2>1, <2>2
  <1>7. ASSUME NEW s \in Strategies, NEW x \in RowsOf(s)' PROVE RowFits(s, x)'
    <2>1. CASE x \in RowsOf(s)
      BY <1>4, <2>1
    <2>2. CASE s = r[2] /\ x = new
      BY <1>5, <2>2
    <2>3. QED
      BY <1>2, <1>7, <2>1, <2>2
  <1>8. QED
    BY <1>6, <1>7 DEF Records, RowFits

\* What scan_and_resume found is not alive.
LEMMA CrashedRun ==
    ASSUME IInv, NEW r \in Runs, MarkCrashed(r)
    PROVE  /\ Ended(r) /\ UNCHANGED run /\ r \in stale /\ marked = {}
           /\ run[r].attempt \in 0..MaxRetries
           /\ rows' = Updated(r, run[r].attempt, "crashed")
           /\ r \notin stale' /\ "crashed" \in RunStatus \ {"running"}
  BY DEF MarkCrashed, IInv, Scanned, TypeOK, RunStatus

\* A step of one run, without its new attempt.
LEMMA RunningRecords ==
    ASSUME IInv, [Next]_vars, NEW r \in Runs, Running(r)
    PROVE  Records'
  <1>1. /\ \A q \in Runs : q # r => run'[q] = run[q]
        /\ run[r].attempt \in Nat
    BY RunningDoes, Numbers DEF IInv, TypeOK
  <1>2. ASSUME NEW s \in Strategies, NEW x \in RowsOf(s), x.run # r
        PROVE  RowFits(s, x)'
    BY <1>1, <1>2, RecordType, RowStays DEF IInv
  <1>3. ASSUME \A s \in Strategies : \A x \in RowsOf(s) : x.run = r => RowFits(s, x)',
               UNCHANGED rows
        PROVE  Records'
    BY <1>2, <1>3, RowsStay
  <1>4. CASE Goes(r, "waiting", "running") /\ rows' = Recorded(r, run[r].attempt)
    BY <1>1, <1>4, RowsRecorded
  <1>5. CASE Reaches(r, "queued", "waiting")
    <2>1. ASSUME NEW s \in Strategies, NEW x \in RowsOf(s), x.run = r
          PROVE  RowFits(s, x)'
      <3>1. x.attempt # run[r].attempt
        BY <1>5, <2>1, RowsFit DEF IInv, RowFits, Reaches, Goes
      <3>2. QED
        BY <1>5, <2>1, <3>1, RowStays DEF Reaches, Goes
    <2>2. QED
      BY <1>3, <1>5, <2>1 DEF Reaches
  <1>6. CASE Reaches(r, "waiting", "over") \/ Reaches(r, "running", "over")
    <2>1. ASSUME NEW s \in Strategies, NEW x \in RowsOf(s), x.run = r
          PROVE  RowFits(s, x)'
      BY <1>6, <2>1, RowStays DEF Reaches, Goes
    <2>2. QED
      BY <1>3, <1>6, <2>1 DEF Reaches
  <1>7. CASE /\ run[r].st = "backoff" /\ run'[r].st = "waiting"
             /\ run'[r].attempt = run[r].attempt + 1
             /\ UNCHANGED rows
    <2>1. ASSUME NEW s \in Strategies, NEW x \in RowsOf(s), x.run = r
          PROVE  RowFits(s, x)'
      <3>1. x.status # "running"
        BY <1>7, <2>1, RowsFit DEF IInv, RowFits
      <3>2. QED
        BY <1>7, <2>1, <3>1, RowStays
    <2>2. QED
      BY <1>3, <1>7, <2>1
  <1>8. CASE Goes(r, "running", "emitting") /\ UNCHANGED rows
    <2>1. ASSUME NEW s \in Strategies, NEW x \in RowsOf(s), x.run = r
          PROVE  RowFits(s, x)'
      BY <1>8, <2>1, RowStays DEF Goes
    <2>2. QED
      BY <1>3, <1>8, <2>1
  <1>9. ASSUME NEW status \in RunStatus \ {"running"},
               rows' = Updated(r, run[r].attempt, status),
               Goes(r, "running", "over") \/ Goes(r, "running", "backoff")
        PROVE  Records'
    <2>1. ASSUME NEW s \in Strategies, NEW x \in RowsOf(s),
                 s # r[2] \/ x.run # r \/ x.attempt # run[r].attempt
          PROVE  RowFits(s, x)'
      <3>1. CASE x.run # r
        BY <1>2, <3>1
      <3>2. CASE x.run = r
        <4>1. s = r[2]
          BY <3>2, RowsFit DEF IInv, RowFits
        <4>2. QED
          BY <1>9, <2>1, <3>2, <4>1, RowStays DEF Goes
      <3>3. QED
        BY <3>1, <3>2
    <2>2. QED
      BY <1>9, <2>1, RowsUpdated DEF Goes
  <1>10. QED
    BY <1>4, <1>5, <1>6, <1>7, <1>8, <1>9, RunningDoes

LEMMA ClosedRecords ==
    ASSUME IInv, [Next]_vars, NEW k \in Events, Enqueue(k) \/ DispatchRaises(k)
    PROVE  Records'
  <1>1. event[k].st = "gating" /\ event[k].routes \in SUBSET Strategies
    BY ClosedDoes DEF IInv, TypeOK, Dispatch
  <1>2. \A s \in Strategies : \A x \in RowsOf(s) : x.run \in Runs /\ Begun(x.run)
    BY RecordType, RowsFit DEF IInv, RowFits
  <1>3. CASE Enqueue(k)
    <2>1. ASSUME NEW s \in Strategies, NEW x \in RowsOf(s)
          PROVE  RowFits(s, x)'
      <3>1. x.run \notin RunsOf(k, event[k].routes)
        BY <1>1, <1>2, AddedDoes DEF Begun
      <3>2. run' = Added(k, event[k].routes)
        BY <1>3 DEF Enqueue
      <3>3. CASE x.run = event[k].by
        BY <1>1, <1>2, <3>2, <3>3, AddedDoes, RowStays
      <3>4. CASE x.run # event[k].by
        BY <1>1, <1>2, <3>1, <3>2, <3>4, AddedDoes, RowStays
      <3>5. QED
        BY <3>3, <3>4
    <2>2. QED
      BY <1>3, <2>1, RowsStay DEF Enqueue
  <1>4. CASE DispatchRaises(k)
    <2>1. PICK kept \in SUBSET event[k].routes :
             /\ \A q \in RunsOf(k, kept) : run[q].st = "none"
             /\ \A q \in Runs : q \notin RunsOf(k, kept) /\ q # event[k].by =>
                   run'[q] = run[q]
             /\ event[k].by \notin Runs => rows' = rows
             /\ event[k].by \in Runs =>
                   LET r == event[k].by IN
                   /\ run[r].st = "emitting"
                   /\ run'[r].st = IF Retries(r) THEN "backoff" ELSE "over"
                   /\ run'[r].attempt = run[r].attempt
                   /\ rows' = Updated(r, run[r].attempt,
                                IF Retries(r) THEN "failed" ELSE "dead_letter")
      BY <1>4, RaiseDoes
    <2>2. ASSUME NEW s \in Strategies, NEW x \in RowsOf(s), x.run # event[k].by
          PROVE  RowFits(s, x)'
      BY <1>2, <2>1, <2>2, RowStays DEF Begun
    <2>3. CASE event[k].by \notin Runs
      BY <1>2, <2>1, <2>2, <2>3, RowsStay
    <2>4. CASE event[k].by \in Runs
      <3>1. PICK r \in Runs : r = event[k].by
        BY <2>4
      <3>2. PICK status \in {"failed", "dead_letter"} :
               rows' = Updated(r, run[r].attempt, status)
        BY <2>1, <3>1
      <3>3. /\ status \in RunStatus \ {"running"}
            /\ run'[r].attempt = run[r].attempt /\ run'[r].st \in {"backoff", "over"}
        BY <2>1, <3>1 DEF RunStatus
      <3>4. ASSUME NEW s \in Strategies, NEW x \in RowsOf(s),
                   s # r[2] \/ x.run # r \/ x.attempt # run[r].attempt
            PROVE  RowFits(s, x)'
        <4>1. CASE x.run # r
          BY <2>2, <3>1, <4>1
        <4>2. CASE x.run = r
          <5>1. s = r[2]
            BY <4>2, RowsFit DEF IInv, RowFits
          <5>2. QED
            BY <3>3, <3>4, <4>2, <5>1, RowStays
        <4>3. QED
          BY <4>1, <4>2
      <3>5. QED
        BY <3>2, <3>3, <3>4, RowsUpdated
    <2>5. QED
      BY <2>3, <2>4
  <1>5. QED
    BY <1>3, <1>4

LEMMA RecordsInv == ASSUME IInv, [Next]_vars PROVE Records'
  <1>1. \A s \in Strategies : \A x \in RowsOf(s) : x.run \in Runs /\ Begun(x.run)
    BY RecordType, RowsFit DEF IInv, RowFits
  <1>2. CASE UNCHANGED <<run, rows>>
    BY <1>2, RowStays, RowsStay
  <1>3. ASSUME NEW r \in Runs, MarkCrashed(r) PROVE Records'
    <2>1. /\ run[r].st \in {"over", "lost"} /\ UNCHANGED run
          /\ "crashed" \in RunStatus \ {"running"}
          /\ rows' = Updated(r, run[r].attempt, "crashed")
      BY <1>3, CrashedRun DEF Ended
    <2>2. QED
      BY <2>1, RowStays, RowsUpdated
  <1>4. CASE Quiet
    <2>1. UNCHANGED run
      BY <1>4, QuietDoes
    <2>2. UNCHANGED rows \/ \E r \in Runs : MarkCrashed(r)
      BY <1>4 DEF Quiet, Emit, Gate, Route, ResumeFails, Start, StartReturns, Stop,
                  Wake, GiveUp
    <2>3. QED
      BY <1>2, <1>3, <2>1, <2>2
  <1>5. ASSUME NEW r \in Runs, Resume(r) PROVE Records'
    <2>1. /\ run[Resumed(r)].st = "none" /\ UNCHANGED rows
          /\ \A q \in Runs : q # Resumed(r) => run'[q] = run[q]
      BY <1>5, ResumeDoes, ResumedRun DEF Resume
    <2>2. QED
      BY <1>1, <2>1, RowStays, RowsStay DEF Begun
  <1>6. CASE Halt
    <2>1. \A r \in Runs : run'[r] = run[r]
             \/ (run'[r].st = "lost" /\ run'[r].attempt = run[r].attempt)
      BY <1>6, HaltDoes DEF IInv
    <2>2. QED
      BY <1>1, <1>6, <2>1, RowStays, RowsStay DEF Halt
  <1>7. QED
    BY <1>2, <1>4, <1>5, <1>6, RunningRecords, ClosedRecords, Steps DEF vars

\* A row of this step is one of before, the update of a RUNNING row of a run
\* that is alive or found by the scan, or of an attempt that had none.
RowStep(s, x) ==
    \/ x \in RowsOf(s)
    \/ /\ Alive(x.run) \/ (x.run \in stale /\ x.run \notin stale')
       /\ \A y \in RowsOf(s) : y.run = x.run /\ y.attempt = x.attempt =>
             y.status = "running"

\* The row of an attempt that executes or was found by the scan is RUNNING.
LEMMA UpdateStep ==
    ASSUME IInv, NEW r \in Runs, NEW status \in RunStatus,
           rows' = Updated(r, run[r].attempt, status),
           HoldsSlot(r) \/ (r \in stale /\ r \notin stale'),
           NEW s \in Strategies, NEW x \in RowsOf(s)'
    PROVE  RowStep(s, x)
  <1>1. run[r].attempt \in 0..MaxRetries
    BY DEF IInv, TypeOK
  <1>2. \/ x \in RowsOf(s)
        \/ s = r[2] /\ x = [run |-> r, attempt |-> run[r].attempt, status |-> status]
    BY <1>1, UpdatedRows DEF IInv
  <1>3. ASSUME NEW y \in RowsOf(r[2]), y.run = r, y.attempt = run[r].attempt
        PROVE  y.status = "running"
    <2>1. r[2] \in Strategies
      BY RunParts
    <2>2. CASE HoldsSlot(r)
      BY <1>3, <2>1, <2>2, RowsFit DEF IInv, RowFits
    <2>3. CASE r \in stale
      BY <1>3, <2>3 DEF IInv, Scanned
    <2>4. QED
      BY <2>2, <2>3
  <1>4. HoldsSlot(r) => Alive(r)
    BY DEF HoldsSlot, Alive
  <1>5. QED
    BY <1>2, <1>3, <1>4 DEF RowStep

LEMMA RowSteps ==
    ASSUME IInv, [Next]_vars, NEW s \in Strategies, NEW x \in RowsOf(s)'
    PROVE  RowStep(s, x)
  <1>1. CASE UNCHANGED rows
    BY <1>1 DEF RowStep, RowsOf
  <1>2. ASSUME NEW r \in Runs, MarkCrashed(r) PROVE RowStep(s, x)
    BY <1>2, CrashedRun, UpdateStep
  <1>3. CASE Quiet
    BY <1>1, <1>2, <1>3 DEF Quiet, Emit, Gate, Route, ResumeFails, Start, StartReturns,
                            Stop, Wake, GiveUp
  <1>4. ASSUME NEW k \in Events, DispatchRaises(k) PROVE RowStep(s, x)
    <2>1. CASE event[k].by \notin Runs
      BY <1>1, <1>4, <2>1, RaiseDoes
    <2>2. CASE event[k].by \in Runs
      <3>1. PICK r \in Runs : r = event[k].by
        BY <2>2
      <3>2. HoldsSlot(r) /\ \E status \in RunStatus :
               rows' = Updated(r, run[r].attempt, status)
        <4>1. PICK kept \in SUBSET event[k].routes :
                /\ run[r].st = "emitting"
                /\ rows' = Updated(r, run[r].attempt,
                                IF Retries(r) THEN "failed" ELSE "dead_letter")
          BY <1>4, <3>1, RaiseDoes
        <4>2. (IF Retries(r) THEN "failed" ELSE "dead_letter") \in RunStatus
          BY DEF RunStatus
        <4>3. QED
          BY <4>1, <4>2 DEF HoldsSlot
      <3>3. QED
        BY <3>2, UpdateStep
    <2>3. QED
      BY <2>1, <2>2
  <1>5. ASSUME NEW r \in Runs, Running(r) PROVE RowStep(s, x)
    <2>1. CASE Goes(r, "waiting", "running") /\ rows' = Recorded(r, run[r].attempt)
      <3>1. run[r].attempt \in 0..MaxRetries /\ Alive(r)
        BY <2>1 DEF IInv, TypeOK, Goes, Alive
      <3>2. \/ x \in RowsOf(s)
            \/ s = r[2] /\ x = [run |-> r, attempt |-> run[r].attempt, status |-> "running"]
        BY <2>1, <3>1, RecordedRows DEF IInv
      <3>3. \A y \in RowsOf(s) : y.run = r => y.attempt # run[r].attempt
        BY <2>1, RowsFit DEF IInv, RowFits, Goes
      <3>4. QED
        BY <3>1, <3>2, <3>3 DEF RowStep
    <2>2. ASSUME NEW status \in RunStatus \ {"running"},
                 rows' = Updated(r, run[r].attempt, status),
                 Goes(r, "running", "over") \/ Goes(r, "running", "backoff")
          PROVE  RowStep(s, x)
      BY <2>2, UpdateStep DEF Goes, HoldsSlot
    <2>3. QED
      BY <1>1, <1>5, <2>1, <2>2, RunningDoes DEF Reaches
  <1>6. QED
    BY <1>1, <1>3, <1>4, <1>5, Steps DEF vars, Enqueue, Resume, Halt

-----------------------------------------------------------------------------
(* The scan of a start *)

\* Found runs stay what they are until they are resumed.
LEMMA FoundStays ==
    ASSUME IInv, [Next]_vars, NEW r \in stale \cup marked, r \in stale' \cup marked'
    PROVE  Ended(r)' /\ r[3] + 1 < starts' /\ Newest(r)'
  <1>1. r \in Runs /\ Ended(r) /\ r[3] + 1 < starts /\ Newest(r)
    BY DEF IInv, Scanned, TypeOK
  <1>2. r[3] + 1 < starts' /\ Ended(r)'
    <2>1. starts \in Nat /\ starts' \in Nat /\ starts <= starts' /\ r[3] \in Nat
      BY <1>1, PhaseStep, RunParts
    <2>2. QED
      BY <1>1, <2>1, RunsGoOn
  <1>3. ASSUME NEW q \in Runs, Before(r, q), Begun(q)' PROVE FALSE
    <2>1. ~ Begun(q)
      BY <1>1, <1>3 DEF Newest
    <2>2. Begins(q)
      BY <1>3, <2>1, RunsGoOn
    <2>3. QED
      BY <1>3, <2>2 DEF Begins
  <1>4. QED
    BY <1>2, <1>3 DEF Newest, Before

LEMMA StartScans ==
    ASSUME IInv, Start
    PROVE  Scanned'
  <1>1. /\ phase = "off" /\ phase' = "recovering" /\ starts' = starts + 1
        /\ stale' \in SUBSET {r \in Runs : Unfinished(r)} /\ UNCHANGED <<run, rows, marked>>
        /\ marked = {} /\ starts \in Nat
    BY DEF Start, IInv, Scanned, TypeOK
  <1>2. ASSUME NEW r \in stale'
        PROVE  /\ r \in Runs /\ r[2] \in Strategies
               /\ \E x \in RowsOf(r[2]) : /\ x.run = r /\ x.attempt = run[r].attempt
                                          /\ x.status = "running"
    <2>1. r \in Runs /\ Unfinished(r)
      BY <1>1, <1>2
    <2>2. PICK i \in DOMAIN rows[r[2]] : rows[r[2]][i] =
             [run |-> r, attempt |-> run[r].attempt, status |-> "running"]
      BY <2>1 DEF Unfinished, HasRow
    <2>3. rows[r[2]][i] \in RowsOf(r[2])
      BY DEF RowsOf
    <2>4. QED
      BY <2>1, <2>2, <2>3, RunParts
  <1>3. ASSUME NEW r \in stale'
        PROVE  /\ Ended(r)' /\ r[3] + 1 < starts' /\ Newest(r)'
               /\ \A x \in RowsOf(r[2])' :
                     x.run = r /\ x.attempt = run'[r].attempt => x.status = "running"
    <2>1. PICK y \in RowsOf(r[2]) : /\ y.run = r /\ y.attempt = run[r].attempt
                                    /\ y.status = "running"
      BY <1>2
    <2>2. Newest(r) /\ Begun(r) /\ r[2] \in Strategies /\ r \in Runs
      BY <1>2, <2>1, RowsFit DEF IInv, RowFits
    <2>3. ~ Alive(r) /\ r[3] < starts /\ r[3] \in Nat
      BY <1>1, <2>2, RunParts DEF IInv, Incarnations
    <2>4. run[r].st \in RunState
      BY <2>2 DEF IInv, TypeOK
    <2>5. Ended(r)
      BY <2>2, <2>3, <2>4 DEF Ended, Begun, Alive, RunState
    <2>6. \A x \in RowsOf(r[2])' :
             x.run = r /\ x.attempt = run'[r].attempt => x.status = "running"
      BY <1>1, <2>1, <2>2 DEF IInv, Records, RowsOf
    <2>7. r[3] + 1 < starts'
      BY <1>1, <2>3
    <2>8. QED
      BY <1>1, <2>2, <2>5, <2>6, <2>7 DEF Ended, Newest, Before, Begun
  <1>4. QED
    BY <1>1, <1>3 DEF Scanned

LEMMA ScannedInv == ASSUME IInv, [Next]_vars PROVE Scanned'
  <1>1. CASE Start
    BY <1>1, StartScans
  <1>2. CASE Halt
    BY <1>2 DEF Halt, Scanned
  <1>3. ASSUME NEW r \in Runs, MarkCrashed(r) PROVE Scanned'
    <2>1. /\ stale' = stale \ {r} /\ marked' = {r} /\ marked = {} /\ r \in stale
          /\ phase' = phase /\ phase = "recovering" /\ UNCHANGED run
          /\ rows' = Updated(r, run[r].attempt, "crashed")
      BY <1>3 DEF MarkCrashed
    <2>2. \A q \in stale' \cup marked' : Ended(q)' /\ q[3] + 1 < starts' /\ Newest(q)'
      BY <2>1, FoundStays
    <2>3. ASSUME NEW q \in stale', NEW x \in RowsOf(q[2])',
                 x.run = q, x.attempt = run'[q].attempt
          PROVE  x.status = "running"
      <3>1. q \in Runs /\ q \in stale /\ q # r /\ q[2] \in Strategies
        BY <2>1, RunParts DEF IInv, TypeOK
      <3>2. x \in RowsOf(q[2])
        <4>1. ~ Alive(q)
          BY <3>1 DEF IInv, Scanned, Ended, Alive
        <4>2. QED
          BY <2>3, <3>1, <4>1, RowSteps DEF RowStep
      <3>3. QED
        BY <2>1, <2>3, <3>1, <3>2 DEF IInv, Scanned
    <2>4. ASSUME NEW x \in RowsOf(r[2])', x.run = r PROVE x.status # "running"
      <3>1. run[r].attempt \in 0..MaxRetries /\ "crashed" \in RunStatus /\ r[2] \in Strategies
        BY RunParts DEF IInv, TypeOK, RunStatus
      <3>2. \/ x \in RowsOf(r[2]) /\ x.attempt # run[r].attempt
            \/ x = [run |-> r, attempt |-> run[r].attempt, status |-> "crashed"]
        BY <2>1, <2>4, <3>1, UpdatedRows DEF IInv
      <3>3. QED
        BY <2>4, <3>1, <3>2, RowsFit DEF IInv, RowFits
    <2>5. QED
      BY <2>1, <2>2, <2>3, <2>4 DEF Scanned
  <1>4. ASSUME stale' = stale, marked' \in {marked, {}}, ~ Start,
               phase' # "recovering" => phase # "recovering" \/ (stale = {} /\ marked = {})
        PROVE  Scanned'
    <2>1. \A q \in stale' \cup marked' : Ended(q)' /\ q[3] + 1 < starts' /\ Newest(q)'
      BY <1>4, FoundStays
    <2>2. phase' # "recovering" => stale' = {} /\ marked' = {}
      BY <1>4 DEF IInv, Scanned
    <2>3. ASSUME NEW q \in stale \cup marked, NEW x \in RowsOf(q[2])', x.run = q
          PROVE  x \in RowsOf(q[2]) /\ run'[q] = run[q]
      <3>1. q \in Runs /\ q[2] \in Strategies /\ ~ Alive(q) /\ Ended(q)
        BY RunParts DEF IInv, TypeOK, Scanned, Ended, Alive
      <3>2. QED
        BY <1>4, <2>3, <3>1, RowSteps, RunsGoOn DEF RowStep
    <2>4. QED
      BY <1>4, <2>1, <2>2, <2>3 DEF IInv, Scanned
  <1>5. ASSUME ~ Start, ~ Halt, \A r \in Runs : ~ MarkCrashed(r)
        PROVE  /\ stale' = stale /\ marked' \in {marked, {}}
               /\ phase' # "recovering" => phase # "recovering" \/ (stale = {} /\ marked = {})
    <2>1. CASE Quiet
      BY <1>5, <2>1 DEF Quiet, Emit, Gate, Route, ResumeFails, StartReturns, Stop, Wake,
                        GiveUp, recovery
    <2>2. ASSUME NEW k \in Events, Enqueue(k) \/ DispatchRaises(k)
          PROVE  stale' = stale /\ marked' = marked /\ phase' = phase
      BY <2>2, ClosedDoes DEF IInv, recovery
    <2>3. ASSUME NEW r \in Runs, Running(r)
          PROVE  stale' = stale /\ marked' = marked /\ phase' = phase
      BY <2>3, RunningDoes DEF recovery
    <2>4. QED
      BY <1>5, <2>1, <2>2, <2>3, Steps DEF vars, Resume
  <1>6. QED
    BY <1>1, <1>2, <1>3, <1>4, <1>5

-----------------------------------------------------------------------------
(* Gates *)

\* How dispatches change: they stay (but may close), one begins, or one goes
\* through a gate.
DispatchesKeep ==
    /\ UNCHANGED <<counter, counted>>
    /\ \A k \in Events : /\ event'[k].st = "none" => event[k].st = "none"
                         /\ event'[k].todo = event[k].todo
                         /\ event'[k].routes = event[k].routes

DispatchNew ==
    /\ UNCHANGED <<counter, counted>>
    /\ \E k \in Events, by \in Runs \cup {<<>>}, listeners \in SUBSET Strategies :
          /\ NextEvent(k)
          /\ event' = [event EXCEPT ![k] = NewDispatch(by, listeners)]

LEMMA EventStep ==
    ASSUME IInv, [Next]_vars
    PROVE  \/ DispatchesKeep \/ DispatchNew
           \/ \E k \in Events, s \in Strategies : Gate(k, s) \/ Route(k, s)
  <1>1. ASSUME UNCHANGED <<event, counter, counted>> PROVE DispatchesKeep
    BY <1>1 DEF DispatchesKeep
  <1>2. ASSUME NEW k \in Events, Emit(k) PROVE DispatchNew
    BY <1>2, Numbers DEF Emit, gates, DispatchNew
  <1>3. CASE Quiet
    BY <1>1, <1>2, <1>3
    DEF Quiet, MarkCrashed, ResumeFails, Start, StartReturns, Stop, Wake, GiveUp, gates
  <1>4. ASSUME NEW k \in Events, Enqueue(k) \/ DispatchRaises(k) PROVE DispatchesKeep
    BY <1>4, ClosedDoes DEF IInv, DispatchesKeep, gates
  <1>5. ASSUME NEW r \in Runs, Running(r) PROVE DispatchesKeep \/ DispatchNew
    <2>1. UNCHANGED <<counter, counted>>
      BY <1>5, RunningDoes DEF gates
    <2>2. \/ UNCHANGED event
          \/ \E k \in Events : /\ NextEvent(k)
                               /\ event' = [event EXCEPT ![k] = NewDispatch(r, Down)]
      BY <1>5, RunningDoes DEF Reaches
    <2>3. QED
      BY <1>1, <2>1, <2>2, Numbers DEF DispatchNew
  <1>6. CASE Halt
    BY <1>6, HaltDoes DEF IInv, Halt, gates, DispatchesKeep
  <1>7. QED
    BY <1>1, <1>3, <1>4, <1>5, <1>6, Steps DEF vars, Resume, gates

\* The parts of Gates that are about one dispatch.
LEMMA RoutesInv ==
    ASSUME IInv, [Next]_vars
    PROVE  \A k \in Events :
                /\ event[k].routes \subseteq event'[k].routes
                /\ event'[k].todo \cap event'[k].routes = {}
                /\ event'[k].st = "none" => event'[k].routes = {}
                /\ event'[k].st = "none" => event'[k].todo = {}
  <1>1. \A k \in Events :
           /\ event[k].todo \cap event[k].routes = {}
           /\ event[k].st = "none" => event[k].routes = {}
           /\ event[k].st = "none" => event[k].todo = {}
    BY DEF IInv, Gates
  <1>2. CASE DispatchesKeep
    BY <1>1, <1>2 DEF DispatchesKeep
  <1>3. CASE DispatchNew
    <2>1. PICK k \in Events, by \in Runs \cup {<<>>}, listeners \in SUBSET Strategies :
              /\ NextEvent(k)
              /\ event' = [event EXCEPT ![k] = NewDispatch(by, listeners)]
      BY <1>3 DEF DispatchNew
    <2>2. event'[k] = NewDispatch(by, listeners)
          /\ \A j \in Events : j # k => event'[j] = event[j]
      BY <2>1, EmitDoes DEF IInv
    <2>3. event[k].routes = {}
      BY <1>1, <2>1 DEF NextEvent
    <2>4. QED
      BY <1>1, <2>2, <2>3 DEF NewDispatch
  <1>4. ASSUME NEW k \in Events, NEW s \in Strategies, Gate(k, s) \/ Route(k, s),
               NEW j \in Events
        PROVE  /\ event[j].routes \subseteq event'[j].routes
               /\ event'[j].todo \cap event'[j].routes = {}
               /\ event'[j].st = "none" => event'[j].routes = {}
               /\ event'[j].st = "none" => event'[j].todo = {}
    <2>1. CASE j # k
      BY <1>1, <1>4, <2>1, GateDoes DEF IInv
    <2>2. CASE j = k
      BY <1>1, <1>4, <2>2, GateDoes DEF IInv
    <2>3. QED
      BY <2>1, <2>2
  <1>5. QED
    BY <1>2, <1>3, <1>4, EventStep

\* A run begins for a route of its event.
LEMMA BegunRoutes ==
    ASSUME IInv, [Next]_vars, NEW r \in Runs, Begun(r)', r[3] = 0
    PROVE  r[2] \in event'[r[1]].routes
  <1>1. r[1] \in Events
    BY RunParts
  <1>2. CASE Begun(r)
    BY <1>1, <1>2, RoutesInv DEF IInv, Gates
  <1>3. CASE ~ Begun(r)
    <2>1. ASSUME NEW k \in Events, NEW routes \in SUBSET event[k].routes,
                 Enqueue(k) \/ DispatchRaises(k),
                 \A q \in Runs : q \notin RunsOf(k, routes) /\ q # event[k].by =>
                   run'[q] = run[q],
                 event[k].by \in Runs => run[event[k].by].st = "emitting"
          PROVE  r[2] \in event'[r[1]].routes
      <3>1. r \in RunsOf(k, routes)
        BY <1>3, <2>1 DEF Begun
      <3>2. QED
        BY <2>1, <3>1, ClosedDoes DEF RunsOf, IInv
    <2>2. ASSUME NEW k \in Events, Enqueue(k) PROVE r[2] \in event'[r[1]].routes
      <3>1. /\ event[k].st = "gating" /\ run' = Added(k, event[k].routes)
            /\ event[k].routes \in SUBSET Strategies
        BY <2>2 DEF Enqueue, IInv, TypeOK, Dispatch
      <3>2. QED
        BY <2>1, <2>2, <3>1, AddedDoes
    <2>3. ASSUME NEW k \in Events, DispatchRaises(k) PROVE r[2] \in event'[r[1]].routes
      BY <2>1, <2>3, RaiseDoes
    <2>4. ASSUME NEW q \in Runs, Resume(q) PROVE FALSE
      <3>1. r = Resumed(q) /\ r[3] = q[3] + 1 /\ q[3] \in Nat
        BY <1>3, <2>4, ResumeDoes, ResumedRun, RunParts DEF Begun
      <3>2. QED
        BY <3>1
    <2>5. ASSUME NEW q \in Runs, Running(q) PROVE FALSE
      BY <1>3, <2>5, RunningDoes DEF Begun, Reaches, Goes
    <2>6. CASE Halt
      BY <1>3, <2>6, HaltDoes DEF IInv, Begun, Alive
    <2>7. QED
      BY <1>3, <2>2, <2>3, <2>4, <2>5, <2>6, Steps, QuietDoes DEF vars, Begun
  <1>4. QED
    BY <1>2, <1>3

\* The price of one more pass.
LEMMA OneMore ==
    ASSUME NEW n \in Nat, NEW t \in Nat, NEW c \in Nat, NEW d \in Nat,
           n * t + c <= d, c + 1 >= t
    PROVE  (n + 1) * t + 0 <= d + 1
  <1>1. (n + 1) * t = n * t + t
    OBVIOUS
  <1>2. n * t \in Nat
    OBVIOUS
  <1>3. QED
    BY <1>1, <1>2

LEMMA PassesFinite ==
    ASSUME NEW s
    PROVE  IsFiniteSet(Passes(s)) /\ Cardinality(Passes(s)) \in Nat
  BY FiniteRuns, FS_Subset, FS_CardinalityType DEF Passes

\* Each gate is paid for.
LEMMA PaidInv ==
    ASSUME IInv, [Next]_vars, NEW s \in Gated
    PROVE  Cardinality(Passes(s))' * Threshold + counter'[s] <= counted'[s]
  <1>1. /\ s \in Strategies /\ Cardinality(Passes(s)) \in Nat /\ Threshold \in Nat
        /\ counter[s] \in Nat /\ counted[s] \in Nat
        /\ Cardinality(Passes(s)) * Threshold + counter[s] <= counted[s]
        /\ counter \in [Strategies -> Nat] /\ counted \in [Strategies -> Nat]
    BY EngineAssumption, Numbers, PassesFinite DEF IInv, TypeOK, Gates
  <1>2. Cardinality(Passes(s)) * Threshold \in Nat
    BY <1>1
  <1>3. ASSUME \A k \in Events : event'[k].routes = event[k].routes,
               UNCHANGED <<counter, counted>>
        PROVE  Cardinality(Passes(s))' * Threshold + counter'[s] <= counted'[s]
    <2>1. Passes(s)' = Passes(s)
      BY <1>3 DEF Passes
    <2>2. QED
      BY <1>1, <1>3, <2>1
  <1>4. CASE DispatchesKeep
    BY <1>3, <1>4 DEF DispatchesKeep
  <1>5. CASE DispatchNew
    <2>1. PICK k \in Events, by \in Runs \cup {<<>>}, listeners \in SUBSET Strategies :
              /\ NextEvent(k)
              /\ event' = [event EXCEPT ![k] = NewDispatch(by, listeners)]
      BY <1>5 DEF DispatchNew
    <2>2. event'[k].routes = {} /\ event[k].routes = {}
          /\ \A j \in Events : j # k => event'[j] = event[j]
      BY <2>1, EmitDoes DEF IInv, Gates, NextEvent, NewDispatch
    <2>3. QED
      BY <1>3, <1>5, <2>2 DEF DispatchNew
  <1>6. ASSUME NEW k \in Events, NEW u \in Strategies, Gate(k, u) \/ Route(k, u)
        PROVE  Cardinality(Passes(s))' * Threshold + counter'[s] <= counted'[s]
    <2>1. /\ \A j \in Events : j # k => event'[j] = event[j]
          /\ event'[k].routes \in {event[k].routes, event[k].routes \cup {u}}
          /\ u \in event[k].todo
      BY <1>6, GateDoes DEF IInv
    <2>2. CASE u # s
      <3>1. Passes(s)' = Passes(s)
        BY <2>1, <2>2 DEF Passes
      <3>2. counter'[s] = counter[s] /\ counted'[s] = counted[s]
        BY <1>1, <1>6, <2>2 DEF Gate, GatePasses, GateHolds, Route, gates
      <3>3. QED
        BY <1>1, <3>1, <3>2
    <2>3. CASE u = s /\ Gate(k, s)
      <3>1. Gate(k, s) /\ counted'[s] = counted[s] + 1
        BY <1>1, <2>3 DEF Gate
      <3>2. k \notin Passes(s)
        BY <2>1, <2>3 DEF IInv, Gates, Passes
      <3>3. CASE GatePasses(k, s)
        <4>1. counter'[s] = 0 /\ counter[s] + 1 >= Threshold
          BY <1>1, <3>3 DEF GatePasses
        <4>2. event'[k].routes = event[k].routes \cup {s}
          BY <3>3 DEF GatePasses, IInv, TypeOK, Dispatch
        <4>3. Passes(s)' = Passes(s) \cup {k}
          BY <2>1, <4>2 DEF Passes
        <4>4. Cardinality(Passes(s))' = Cardinality(Passes(s)) + 1
          BY <3>2, <4>3, PassesFinite, FS_AddElement
        <4>5. QED
          BY <1>1, <3>1, <4>1, <4>4, OneMore
      <3>4. CASE GateHolds(k, s)
        <4>1. counter'[s] = counter[s] + 1
          BY <1>1, <3>4 DEF GateHolds
        <4>2. event'[k].routes = event[k].routes
          BY <3>4 DEF GateHolds, IInv, TypeOK, Dispatch
        <4>3. Passes(s)' = Passes(s)
          BY <2>1, <4>2 DEF Passes
        <4>4. QED
          BY <1>1, <1>2, <3>1, <4>1, <4>3
      <3>5. QED
        BY <3>1, <3>3, <3>4 DEF Gate
    <2>4. CASE u = s /\ Route(k, s)
      <3>1. event'[k].routes = event[k].routes
        BY <2>4, <1>1 DEF Route, IInv, TypeOK, Dispatch
      <3>2. UNCHANGED <<counter, counted>>
        BY <2>4 DEF Route, gates
      <3>3. QED
        BY <1>3, <2>1, <3>1, <3>2
    <2>5. QED
      BY <1>6, <2>2, <2>3, <2>4
  <1>7. QED
    BY <1>4, <1>5, <1>6, EventStep

LEMMA GatesInv == ASSUME IInv, [Next]_vars PROVE Gates'
  BY RoutesInv, BegunRoutes, PaidInv DEF Gates, Begun

-----------------------------------------------------------------------------
(* The theorems *)

LEMMA InitInv == ASSUME Init PROVE IInv
  <1>1. \A s \in Strategies : RowsOf(s) = {}
    BY DEF Init, RowsOf
  <1>2. TypeOK
    BY Numbers DEF Init, TypeOK, Phase, NoDispatch, Dispatch, NoRun, RunState
  <1>3. \A r \in Runs : run[r].st = "none"
    BY DEF Init, NoRun
  <1>4. ActiveCountsRuns
    <2>1. {r \in Runs : Alive(r)} = {} /\ Cardinality({}) = 0
      BY <1>3, FS_EmptySet DEF Alive
    <2>2. QED
      BY <2>1 DEF Init, ActiveCountsRuns
  <1>5. Dispatches /\ Incarnations /\ Records /\ Scanned
    BY <1>1, <1>3 DEF Init, NoDispatch, Dispatches, Incarnations, Records, Scanned,
                      Begun, Alive
  <1>6. Gates
    <2>1. \A k \in Events : event[k] = NoDispatch
      BY DEF Init
    <2>2. \A s : Passes(s) = {}
      BY <2>1 DEF Passes, NoDispatch
    <2>3. Cardinality({}) = 0 /\ 0 * Threshold = 0
      BY FS_EmptySet, Numbers
    <2>4. \A s \in Gated : counter[s] = 0 /\ counted[s] = 0
      BY EngineAssumption DEF Init
    <2>5. \A s \in Gated : Cardinality(Passes(s)) * Threshold + counter[s] <= counted[s]
      BY <2>2, <2>3, <2>4
    <2>6. QED
      BY <1>3, <2>1, <2>5 DEF Gates, NoDispatch, Begun
  <1>7. QED
    BY <1>2, <1>4, <1>5, <1>6 DEF IInv

LEMMA StepInv == ASSUME IInv, [Next]_vars PROVE IInv'
  BY TypeInv, CountInv, DispatchesInv, IncarnationsInv, RecordsInv, ScannedInv, GatesInv
  DEF IInv

\* The invariant holds for any strategies, events, starts and errors.
LEMMA Invariant == Spec => []IInv
  <1>1. Init => IInv
    BY InitInv
  <1>2. IInv /\ [Next]_vars => IInv'
    BY StepInv
  <1>3. QED
    BY <1>1, <1>2, PTL DEF Spec

\* Every variable of the engine keeps its type; attempts never pass the
\* retries of the snapshot.
THEOREM TypeCorrect == Spec => []TypeOK
  <1>1. IInv => TypeOK
    BY DEF IInv
  <1>2. QED
    BY <1>1, Invariant, PTL

\* On every path a run may end, _active_runs is the number of runs between
\* their enqueueing and the end of dispatch_run.
THEOREM CountCorrect == Spec => []ActiveCountsRuns
  <1>1. IInv => ActiveCountsRuns
    BY DEF IInv
  <1>2. QED
    BY <1>1, Invariant, PTL

\* Each run dispatched for a gated strategy used up Threshold counted events.
THEOREM GatedRunsCorrect == Spec => []GatedRunsArePaid
  <1>1. IInv => GatedRunsArePaid
    <2> SUFFICES ASSUME IInv, NEW s \in Gated
                   PROVE  Cardinality({k \in Events : run[<<k, s, 0>>].st # "none"})
                             * Threshold + counter[s] <= counted[s]
      BY DEF GatedRunsArePaid
    <2> DEFINE dispatched == {k \in Events : run[<<k, s, 0>>].st # "none"}
    <2>2. dispatched \subseteq Passes(s)
      <3>1. ASSUME NEW k \in dispatched PROVE k \in Passes(s)
        <4>1. <<k, s, 0>> \in Runs
          BY Numbers, EngineAssumption DEF Runs
        <4>2. Begun(<<k, s, 0>>) /\ k \in Events
          BY DEF Begun
        <4>3. \A r \in Runs : Begun(r) /\ r[3] = 0 => r[2] \in event[r[1]].routes
          BY DEF IInv, Gates
        <4>4. s \in event[k].routes
          BY <4>1, <4>2, <4>3
        <4>5. QED
          BY <4>2, <4>4 DEF Passes
      <3>2. QED
        BY <3>1
    <2>3. /\ Cardinality(dispatched) \in Nat /\ Cardinality(Passes(s)) \in Nat
          /\ Cardinality(dispatched) <= Cardinality(Passes(s))
      BY <2>2, PassesFinite, FS_Subset, FS_CardinalityType
    <2>4. /\ counter[s] \in Nat /\ counted[s] \in Nat /\ Threshold \in Nat
          /\ Cardinality(Passes(s)) * Threshold + counter[s] <= counted[s]
      <3>1. s \in Strategies
        BY EngineAssumption
      <3>2. counter \in [Strategies -> Nat] /\ counted \in [Strategies -> Nat]
        BY DEF IInv, TypeOK
      <3>3. Cardinality(Passes(s)) * Threshold + counter[s] <= counted[s]
        BY DEF IInv, Gates
      <3>4. QED
        BY <3>1, <3>2, <3>3, Numbers
    <2> HIDE DEF dispatched
    <2>5. Cardinality(dispatched) * Threshold <= Cardinality(Passes(s)) * Threshold
      <3>1. \A a, b, t \in Nat : a <= b => a * t <= b * t
        OBVIOUS
      <3>2. QED
        BY <2>3, <2>4, <3>1
    <2>6. /\ Cardinality(dispatched) * Threshold \in Nat
          /\ Cardinality(Passes(s)) * Threshold \in Nat
      BY <2>3, <2>4
    <2>7. Cardinality(dispatched) * Threshold + counter[s] <= counted[s]
      BY <2>4, <2>5, <2>6
    <2>8. QED
      BY <2>7 DEF dispatched
  <1>2. QED
    BY <1>1, Invariant, PTL

\* A run that ended never runs again under its own name, and of an event and a
\* strategy at most one run is alive.
THEOREM OnceCorrect == Spec => NoRunTwice
  <1> DEFINE Once == \A r \in Runs :
          /\ run[r].st \in {"over", "lost"} => run'[r] = run[r]
          /\ \A q \in Runs : Alive(r)' /\ Alive(q)' /\ r[1] = q[1] /\ r[2] = q[2]
                            => r = q
  <1>1. ASSUME IInv, IInv', [Next]_vars PROVE Once
    <2>1. \A r \in Runs : run[r].st \in {"over", "lost"} => run'[r] = run[r]
      BY <1>1, RunsGoOn DEF Ended
    <2>2. ASSUME NEW r \in Runs, NEW q \in Runs, Alive(r)', Alive(q)',
                 r[1] = q[1], r[2] = q[2]
          PROVE  r = q
      <3>1. Begun(r)' /\ Begun(q)' /\ ~ Ended(r)' /\ ~ Ended(q)'
        BY <2>2 DEF Alive, Begun, Ended
      <3>2. ~ Before(r, q) /\ ~ Before(q, r)
        BY <1>1, <3>1 DEF IInv, Incarnations, Before
      <3>3. r[3] \in Nat /\ q[3] \in Nat /\ ~ (r[3] < q[3]) /\ ~ (q[3] < r[3])
        BY <2>2, <3>2, RunParts DEF Before
      <3>4. r[3] = q[3]
        BY <3>3
      <3>5. QED
        BY <2>2, <3>4, RunParts
    <2>3. QED
      BY <2>1, <2>2
  <1>2. QED
    BY <1>1, Invariant, PTL DEF Spec, NoRunTwice

\* A row leaves RUNNING once: nothing overwrites what was recorded of an attempt.
THEOREM StatusCorrect == Spec => StatusIsWrittenOnce
  <1> DEFINE Kept == \A s \in Strategies :
          \A i \in DOMAIN rows[s] : \A j \in DOMAIN rows'[s] :
          /\ rows[s][i].run = rows'[s][j].run
          /\ rows[s][i].attempt = rows'[s][j].attempt
          /\ rows[s][i].status # "running"
          => rows'[s][j].status = rows[s][i].status
  <1>1. ASSUME IInv, [Next]_vars PROVE Kept
    <2>1. SUFFICES ASSUME NEW s \in Strategies, NEW i \in DOMAIN rows[s],
                          NEW j \in DOMAIN rows'[s],
                          rows[s][i].run = rows'[s][j].run,
                          rows[s][i].attempt = rows'[s][j].attempt,
                          rows[s][i].status # "running"
                   PROVE  rows'[s][j].status = rows[s][i].status
      OBVIOUS
    <2>2. rows[s][i] \in RowsOf(s) /\ rows'[s][j] \in RowsOf(s)'
      BY DEF RowsOf
    <2>3. RowStep(s, rows'[s][j])
      BY <1>1, <2>2, RowSteps
    <2>4. rows'[s][j] \in RowsOf(s)
      BY <2>1, <2>2, <2>3 DEF RowStep
    <2>5. QED
      BY <1>1, <2>1, <2>2, <2>4 DEF IInv, Records
  <1>2. QED
    BY <1>1, Invariant, PTL DEF Spec, StatusIsWrittenOnce
=============================================================================
