--------------------------- MODULE CascadeProofs ---------------------------
(***************************************************************************)
(* What the runs of Cascade show on small instances, proved for every      *)
(* number of paths, processes, versions, retries and faults.               *)
(***************************************************************************)
EXTENDS Cascade, TLAPS

-----------------------------------------------------------------------------
(* Type correctness                                                        *)

\* Every repository call maps rows to rows.
LEMMA RowCalls ==
    ASSUME NEW r \in Row, NEW change \in ChangeType, NEW mtime \in Nat,
           NEW flag \in BOOLEAN, NEW count \in Nat
    PROVE  /\ Upserted(r, change, mtime) \in Row
           /\ Claimed(r) \in Row
           /\ MarkedDone(r) \in Row
           /\ MarkedFailed(r, flag, count) \in Row
           /\ Recovered(r) \in Row
           /\ Refixed(r) \in Row
  BY DEF Row, Status, Upserted, Claimed, MarkedDone, MarkedFailed, Recovered,
         Refixed

\* The scanner's decisions are upsert requests.
LEMMA ReconcileType ==
    ASSUME NEW seen \in [Paths -> Nat], NEW tab \in [Paths -> Row]
    PROVE  Reconcile(seen, tab) \in SUBSET Enqueue
  BY DEF Reconcile, Enqueue, ChangeType, Row

\* An upsert keeps the queue well typed.
LEMMA UpsertType ==
    ASSUME TypeOK, NEW p \in Paths, NEW change \in ChangeType, NEW mtime \in Nat,
           DoUpsert(p, change, mtime)
    PROVE  /\ table' \in [Paths -> Row]
           /\ older' \in SUBSET (Paths \X Paths)
           /\ holder' \in [Paths -> Batches \cup {None}]
  <1>1. Upserted(table[p], change, mtime) \in Row
    BY RowCalls DEF TypeOK
  <1>2. QED
    BY <1>1 DEF TypeOK, DoUpsert, Requeued

\* Replacing one job by another keeps the table of jobs well typed.
LEMMA JobType ==
    ASSUME TypeOK, NEW b \in Batches, NEW p \in Paths, NEW j \in Job, JobGoes(b, p, j)
    PROVE  job' \in [Batches -> [Paths -> Job]]
  BY DEF TypeOK, JobGoes

LEMMA EndedType ==
    ASSUME NEW st \in {"none"} \cup Verdicts, NEW count \in Nat
    PROVE  Ended(st, count) \in Job /\ Ended(st, count).st = st
  BY DEF Ended, Job

\* A job moved to another state of its code is a job.
LEMMA JobGoesType ==
    ASSUME NEW j \in Job, NEW st \in Running
    PROVE  [j EXCEPT !.st = st] \in Job
  BY DEF Job

LEMMA JobReadsType ==
    ASSUME NEW j \in Job, NEW v \in Nat, NEW st \in Running
    PROVE  [j EXCEPT !.st = st, !.ver = v] \in Job
  BY DEF Job

\* A handler starts with what it deletes and the attempts it has counted.
LEMMA StartsType ==
    ASSUME NEW del \in BOOLEAN, NEW tries \in Nat, NEW count \in Nat
    PROVE  /\ Starts(del, tries, count) \in Job
           /\ Starts(del, tries, count).st = FirstStep(del)
           /\ Starts(del, tries, count).deletes = del
           /\ Starts(del, tries, count).ver = 0
  BY DEF Starts, FirstStep, Job, Running

LEMMA JobFailsType ==
    ASSUME NEW j \in Job
    PROVE  TriedAgain(j) \in Job /\ Failed(j) \in Job
  <1>1. TriedAgain(j) \in Job
    <2>1. j.deletes \in BOOLEAN /\ j.tries + 1 \in Nat /\ j.count + 1 \in Nat
      BY DEF Job
    <2>2. QED
      BY <2>1, StartsType DEF TriedAgain
  <1>2. Failed(j) \in Job
    BY EndedType DEF Failed, Job, Verdicts
  <1>3. QED
    BY <1>1, <1>2

\* Consuming the head of a sequence.
LEMMA TailType ==
    ASSUME NEW S, NEW s \in Seq(S), s # <<>>
    PROVE  Tail(s) \in Seq(S) /\ Head(s) \in S
  OBVIOUS

LEMMA NullTypes ==
    /\ IdleScan \in Scan
    /\ IdleClaim \in Claim
    /\ NoJob \in Job
    /\ NoRow \in Row
  BY EndedType DEF IdleScan, Scan, IdleClaim, Claim, NoJob, NoRow, Row,
         Status, ChangeType, Enqueue

LEMMA NoJobsType == NoJobs \in [Paths -> Job] /\ \A p \in Paths : NoJobs[p] = NoJob
  BY NullTypes DEF NoJobs

\* The server, and what it left at work, are batches; so is every process.
LEMMA BatchesOwned ==
    /\ Server \in Procs /\ Server \in Batches /\ Left \in Batches
    /\ Left \notin Procs /\ Left # Server /\ Procs \subseteq Batches
    /\ Owner(Left) = Server
    /\ \A d \in Procs : Owner(d) = d
    /\ \A b \in Batches : Owner(b) \in Procs
  BY ProcsAssumption DEF Procs, Batches, Owner

\* The death of a process leaves every variable well typed.
LEMMA HaltType ==
    ASSUME TypeOK, NEW d \in Procs, Halt(d)
    PROVE  /\ scan' \in [Procs -> Scan]
           /\ claim' \in [Procs -> Claim]
           /\ job' \in [Batches -> [Paths -> Job]]
           /\ active' \in SUBSET Procs
           /\ notices' \in Seq(Paths \X ChangeType)
           /\ gone' \in SUBSET Paths
           /\ tasks' \in SUBSET Enqueue
  <1>1. scan' \in [Procs -> Scan]
    BY NullTypes DEF TypeOK, Halt
  <1>2. claim' \in [Procs -> Claim]
    BY NullTypes DEF TypeOK, Halt
  <1>3. job' \in [Batches -> [Paths -> Job]]
    BY NoJobsType DEF TypeOK, Halt
  <1>4. active' \in SUBSET Procs
    BY DEF TypeOK, Halt
  <1>5. notices' \in Seq(Paths \X ChangeType)
    <2>1. <<>> \in Seq(Paths \X ChangeType)
      OBVIOUS
    <2>2. notices' = <<>> \/ notices' = notices
      BY DEF Halt, watcher
    <2>3. QED
      BY <2>1, <2>2 DEF TypeOK
  <1>6. gone' \in SUBSET Paths /\ tasks' \in SUBSET Enqueue
    BY DEF TypeOK, Halt, watcher
  <1>7. QED
    BY <1>1, <1>2, <1>3, <1>4, <1>5, <1>6

LEMMA EmittingType ==
    ASSUME NEW plan \in SUBSET Enqueue
    PROVE  Emitting(plan) \in Scan
  BY NullTypes DEF Emitting, IdleScan, Scan

\* A batch that is left early: each of its handlers stays one.
LEMMA LeaveType ==
    ASSUME TypeOK, NEW rest \in [Paths -> Job], Leave(rest)
    PROVE  /\ job' \in [Batches -> [Paths -> Job]]
           /\ holder' \in [Paths -> Batches \cup {None}]
  <1>1. job' \in [Batches -> [Paths -> Job]]
    <2> DEFINE left == [p \in Paths |-> IF AtWork(Left, p) THEN job[Left][p] ELSE rest[p]]
    <2>1. left \in [Paths -> Job]
      BY BatchesOwned DEF TypeOK
    <2>2. job' = [job EXCEPT ![Server] = NoJobs, ![Left] = left]
      BY DEF Leave
    <2> HIDE DEF left
    <2>3. QED
      BY <2>1, <2>2, NoJobsType DEF TypeOK
  <1>2. holder' \in [Paths -> Batches \cup {None}]
    BY BatchesOwned DEF TypeOK, Leave
  <1>3. QED
    BY <1>1, <1>2

LEMMA TypeInit == Init => TypeOK
  BY NullTypes, NoJobsType DEF Init, TypeOK

LEMMA TypeStep == TypeOK /\ [Next]_vars => TypeOK'
  <1> SUFFICES ASSUME TypeOK, [Next]_vars PROVE TypeOK'
    OBVIOUS
  <1> USE DEF files, queue, watcher, worker
  <1>1. ASSUME NEW p \in Paths, WriteFile(p) PROVE TypeOK'
    BY <1>1 DEF TypeOK, WriteFile, Notify, ChangeType
  <1>2. ASSUME NEW p \in Paths, RemoveFile(p) PROVE TypeOK'
    BY <1>2 DEF TypeOK, RemoveFile, Notify, ChangeType
  <1>3. CASE LoseEvent
    <2>1. notices' \in Seq(Paths \X ChangeType)
      <3>1. CASE notices # <<>> /\ notices' = Tail(notices)
        BY <3>1, TailType DEF TypeOK
      <3>2. CASE notices' = notices
        BY <3>2 DEF TypeOK
      <3>3. QED
        BY <1>3, <3>1, <3>2 DEF LoseEvent
    <2>2. tasks' \in SUBSET Enqueue /\ faults' \in Nat
      BY <1>3 DEF TypeOK, LoseEvent
    <2>3. QED
      BY <1>3, <2>1, <2>2 DEF TypeOK, LoseEvent
  <1>4. ASSUME NEW d \in Procs, Start(d) PROVE TypeOK'
    <2>1. \A p \in Paths : Recovered(table[p]) \in Row
      BY RowCalls DEF TypeOK, ChangeType
    <2>2. table' \in [Paths -> Row]
      BY <1>4, <2>1 DEF TypeOK, Start
    <2>3. holder' \in [Paths -> Batches \cup {None}] /\ active' \in SUBSET Procs
      BY <1>4 DEF TypeOK, Start
    <2>4. UNCHANGED <<files, index, older, crossed, watcher, scan, worker, faults>>
      BY <1>4 DEF Start
    <2>5. QED
      BY <2>2, <2>3, <2>4 DEF TypeOK
  <1>5. ASSUME NEW d \in Procs, Crash(d) \/ Exit(d) PROVE TypeOK'
    <2>1. Halt(d) /\ faults' \in Nat
      BY <1>5 DEF TypeOK, Crash, Exit
    <2>2. QED
      BY <2>1, HaltType DEF TypeOK, Halt
  <1>6. CASE HandleNotice
    <2>1. Head(notices) \in Paths \X ChangeType /\ Tail(notices) \in Seq(Paths \X ChangeType)
      BY <1>6 DEF TypeOK, HandleNotice
    <2>2. disk[Head(notices)[1]] \in Nat
      BY <2>1 DEF TypeOK
    <2>3. /\ gone' \in SUBSET Paths /\ notices' \in Seq(Paths \X ChangeType)
          /\ UNCHANGED <<files, index, queue, scan, worker, active, faults>>
      BY <1>6, <2>1 DEF TypeOK, HandleNotice
    <2>4. tasks' \in SUBSET Enqueue
      BY <1>6, <2>1, <2>2 DEF TypeOK, HandleNotice, Enqueue
    <2>5. QED
      BY <2>3, <2>4 DEF TypeOK
  <1>7. ASSUME NEW p \in gone, StatGone(p) PROVE TypeOK'
    <2>1. p \in Paths /\ disk[p] \in Nat
      BY DEF TypeOK
    <2>2. [path |-> p, change |-> "deleted", mtime |-> disk[p]] \in Enqueue
      BY <2>1 DEF Enqueue, ChangeType
    <2>3. /\ gone' \in SUBSET Paths /\ tasks' \in SUBSET Enqueue
          /\ UNCHANGED <<files, index, queue, notices, scan, worker, active, faults>>
      BY <1>7, <2>2 DEF TypeOK, StatGone
    <2>4. QED
      BY <2>3 DEF TypeOK
  <1>8. ASSUME NEW t \in tasks, RunTask(t) PROVE TypeOK'
    <2>1. t.path \in Paths /\ t.change \in ChangeType /\ t.mtime \in Nat
      BY DEF TypeOK, Enqueue
    <2>2. QED
      BY <1>8, <2>1, UpsertType DEF TypeOK, RunTask
  <1>9. ASSUME NEW d \in Procs, Walk(d) PROVE TypeOK'
    BY <1>9 DEF TypeOK, Walk, Scan
  <1>10. ASSUME NEW d \in Procs, Snapshot(d) PROVE TypeOK'
    <2>1. Reconcile(scan[d].seen, table) \in SUBSET Enqueue
      BY ReconcileType DEF TypeOK, Scan
    <2>2. QED
      BY <1>10, <2>1, EmittingType DEF TypeOK, Snapshot
  <1>11. ASSUME NEW d \in Procs, NEW e \in scan[d].plan, Emit(d, e) PROVE TypeOK'
    <2>1. e.path \in Paths /\ e.change \in ChangeType /\ e.mtime \in Nat
      BY DEF TypeOK, Scan, Enqueue
    <2>2. /\ table' \in [Paths -> Row]
          /\ older' \in SUBSET (Paths \X Paths)
          /\ holder' \in [Paths -> Batches \cup {None}]
      BY <1>11, <2>1, UpsertType DEF Emit
    <2>3. scan' \in [Procs -> Scan]
      <3>1. scan[d].plan \ {e} \in SUBSET Enqueue
        BY DEF TypeOK, Scan
      <3>2. Emitting(scan[d].plan \ {e}) \in Scan
        BY <3>1, EmittingType
      <3>3. QED
        BY <1>11, <3>2 DEF TypeOK, Emit
    <2>4. QED
      BY <1>11, <2>2, <2>3 DEF TypeOK, Emit
  <1>12. ASSUME NEW d \in Procs, FixApply(d) PROVE TypeOK'
    <2>1. \A p \in Paths : Refixed(table[p]) \in Row
      BY RowCalls DEF TypeOK, ChangeType
    <2>2. QED
      BY <1>12, <2>1 DEF TypeOK, FixApply
  <1>13. ASSUME NEW d \in Procs, NEW p \in Paths, ForceEnqueue(d, p) PROVE TypeOK'
    BY <1>13, UpsertType DEF TypeOK, ForceEnqueue, ChangeType
  <1>14. ASSUME NEW d \in Procs, Pick(d) PROVE TypeOK'
    BY <1>14 DEF TypeOK, Pick, FirstPending, PendingIn, Claim
  <1>15. ASSUME NEW d \in Procs, UpdatePicks(d) PROVE TypeOK'
    <2>1. \A p \in Paths : Claimed(table[p]) \in Row
      BY RowCalls DEF TypeOK, ChangeType
    <2>2. table' \in [Paths -> Row]
      BY <1>15, <2>1 DEF TypeOK, UpdatePicks
    <2>3. holder' \in [Paths -> Batches \cup {None}] /\ crossed' \in SUBSET Paths
      BY <1>15, BatchesOwned DEF TypeOK, UpdatePicks, Claim, PendingIn
    <2>4. claim' \in [Procs -> Claim]
      BY <1>15, NullTypes DEF TypeOK, UpdatePicks, Claim
    <2>5. QED
      BY <1>15, <2>2, <2>3, <2>4 DEF TypeOK, UpdatePicks
  <1>16. ASSUME NEW d \in Procs, LoadBatch(d) PROVE TypeOK'
    <2>1. ASSUME NEW p \in Paths PROVE NewJob(table[p]) \in Job
      <3>1. table[p].retries \in Nat /\ (table[p].change = "deleted") \in BOOLEAN
        BY DEF TypeOK, Row
      <3>2. /\ Ended("dead", table[p].retries) \in Job
            /\ Starts(table[p].change = "deleted", 0, table[p].retries) \in Job
        BY <3>1, EndedType, StartsType DEF Verdicts
      <3>3. QED
        BY <3>2 DEF NewJob
    <2>2. job' \in [Batches -> [Paths -> Job]]
      BY <1>16, <2>1, NullTypes, BatchesOwned DEF TypeOK, LoadBatch
    <2>3. claim' \in [Procs -> Claim]
      BY <1>16, NullTypes DEF TypeOK, LoadBatch
    <2>4. QED
      BY <1>16, <2>2, <2>3 DEF TypeOK, LoadBatch
  <1>17. ASSUME NEW b \in Batches, NEW p \in Paths, ReadFile(b, p) PROVE TypeOK'
    <2> DEFINE st == IF disk[p] = 0 THEN "missing" ELSE "read"
    <2>1. job[b][p] \in Job /\ disk[p] \in Nat
      BY DEF TypeOK
    <2>2. st \in Running
      BY DEF Running
    <2>3. JobGoes(b, p, [job[b][p] EXCEPT !.st = st, !.ver = disk[p]])
      BY <1>17 DEF ReadFile
    <2> HIDE DEF st
    <2>4. [job[b][p] EXCEPT !.st = st, !.ver = disk[p]] \in Job
      BY <2>1, <2>2, JobReadsType
    <2>5. job' \in [Batches -> [Paths -> Job]]
      BY <2>3, <2>4, JobType
    <2>6. QED
      BY <1>17, <2>5 DEF TypeOK, ReadFile
  <1>18. ASSUME NEW b \in Batches, NEW p \in Paths, Writing(b, p) PROVE TypeOK'
    <2>1. job[b][p] \in Job /\ job[b][p].ver \in Nat
      BY DEF TypeOK, Job
    <2>2. \E j \in Job : JobGoes(b, p, j)
      <3>1. CASE UpsertRows(b, p)
        <4>1. [job[b][p] EXCEPT !.st = "upserted"] \in Job
          BY <2>1, JobGoesType DEF Running
        <4>2. QED
          BY <3>1, <4>1 DEF UpsertRows
      <3>2. CASE DeleteStaleRows(b, p) \/ DeleteRows(b, p)
        <4>1. Ended("ok", 0) \in Job
          BY EndedType DEF Verdicts
        <4>2. QED
          BY <3>2, <4>1 DEF DeleteStaleRows, DeleteRows
      <3>3. QED
        BY <1>18, <3>1, <3>2 DEF Writing
    <2>3. job' \in [Batches -> [Paths -> Job]]
      BY <2>2, JobType
    <2>4. \E n \in Nat \cup {Mixed} : index' = [index EXCEPT ![p] = n]
      <3>1. CASE UpsertRows(b, p)
        BY <3>1 DEF UpsertRows
      <3>2. CASE DeleteStaleRows(b, p)
        BY <2>1, <3>2 DEF DeleteStaleRows
      <3>3. CASE DeleteRows(b, p)
        BY <3>3 DEF DeleteRows
      <3>4. QED
        BY <1>18, <3>1, <3>2, <3>3 DEF Writing
    <2>5. UNCHANGED <<files, queue, watcher, scan, claim, active, faults>>
      BY <1>18 DEF Writing, UpsertRows, DeleteStaleRows, DeleteRows
    <2>6. index' \in [Paths -> Nat \cup {Mixed}]
      BY <2>4 DEF TypeOK
    <2>7. QED
      BY <2>3, <2>5, <2>6 DEF TypeOK
  <1>19. ASSUME NEW b \in Batches, NEW p \in Paths, TransientFailure(b, p) PROVE TypeOK'
    <2>1. job[b][p] \in Job
      BY DEF TypeOK
    <2>2. TriedAgain(job[b][p]) \in Job /\ Failed(job[b][p]) \in Job
      BY <2>1, JobFailsType
    <2>3. \E j \in Job : JobGoes(b, p, j)
      BY <1>19, <2>2 DEF TransientFailure
    <2>4. job' \in [Batches -> [Paths -> Job]]
      BY <2>3, JobType
    <2>5. faults' \in Nat
      BY <1>19 DEF TypeOK, TransientFailure
    <2>6. QED
      BY <1>19, <2>4, <2>5 DEF TypeOK, TransientFailure
  <1>20. ASSUME NEW b \in Batches, NEW p \in Paths, PermanentFailure(b, p) PROVE TypeOK'
    <2>1. job[b][p].count \in Nat
      BY DEF TypeOK, Job
    <2>2. Ended("dead", job[b][p].count) \in Job
      BY <2>1, EndedType DEF Verdicts
    <2>3. job' \in [Batches -> [Paths -> Job]]
      BY <1>20, <2>2, JobType DEF PermanentFailure
    <2>4. faults' \in Nat
      BY <1>20 DEF TypeOK, PermanentFailure
    <2>5. QED
      BY <1>20, <2>3, <2>4 DEF TypeOK, PermanentFailure
  <1>21. ASSUME NEW b \in Batches, NEW p \in Paths, Mark(b, p) PROVE TypeOK'
    <2>1. job[b][p].count \in Nat
      BY DEF TypeOK, Job
    <2>2. /\ MarkedDone(table[p]) \in Row
          /\ \A f \in BOOLEAN : MarkedFailed(table[p], f, job[b][p].count) \in Row
      BY <2>1, RowCalls DEF TypeOK, ChangeType
    <2>3. job' \in [Batches -> [Paths -> Job]]
      BY <1>21, NullTypes, JobType DEF Mark
    <2>4. table' \in [Paths -> Row] /\ holder' \in [Paths -> Batches \cup {None}]
      BY <1>21, <2>2 DEF TypeOK, Mark
    <2>5. QED
      BY <1>21, <2>3, <2>4 DEF TypeOK, Mark
  <1>22. CASE ClaimFails
    <2>1. claim' \in [Procs -> Claim] /\ holder' \in [Paths -> Batches \cup {None}]
      BY <1>22, NullTypes DEF TypeOK, ClaimFails
    <2>2. faults' \in Nat
      BY <1>22 DEF TypeOK, ClaimFails
    <2>3. QED
      BY <1>22, <2>1, <2>2 DEF TypeOK, ClaimFails
  <1>23. ASSUME NEW b \in Batches, NEW p \in Paths, MarkFails(b, p) PROVE TypeOK'
    <2>1. job' \in [Batches -> [Paths -> Job]] /\ holder' \in [Paths -> Batches \cup {None}]
      <3>1. [job[b] EXCEPT ![p] = NoJob] \in [Paths -> Job]
        BY NullTypes DEF TypeOK
      <3>2. CASE b = Left
        <4>1. JobGoes(b, p, NoJob) /\ holder' = [holder EXCEPT ![p] = IF @ = Left THEN None ELSE @]
          BY <1>23, <3>2, BatchesOwned DEF MarkFails
        <4>2. job' \in [Batches -> [Paths -> Job]]
          BY <4>1, NullTypes, JobType
        <4>3. QED
          BY <4>1, <4>2 DEF TypeOK
      <3>3. CASE Leave([job[b] EXCEPT ![p] = NoJob])
        BY <3>1, <3>3, LeaveType
      <3>4. QED
        BY <1>23, <3>2, <3>3 DEF MarkFails
    <2>2. faults' \in Nat
      BY <1>23 DEF TypeOK, MarkFails
    <2>3. QED
      BY <1>23, <2>1, <2>2 DEF TypeOK, MarkFails
  <1>24. CASE OtherMarkFails
    <2>1. job[Server] \in [Paths -> Job]
      BY BatchesOwned DEF TypeOK
    <2>2. job' \in [Batches -> [Paths -> Job]] /\ holder' \in [Paths -> Batches \cup {None}]
      BY <1>24, <2>1, LeaveType DEF OtherMarkFails
    <2>3. faults' \in Nat
      BY <1>24 DEF TypeOK, OtherMarkFails
    <2>4. QED
      BY <1>24, <2>2, <2>3 DEF TypeOK, OtherMarkFails
  <1>25. CASE UNCHANGED vars
    BY <1>25 DEF TypeOK, vars
  <1>26. QED
    BY <1>1, <1>2, <1>3, <1>4, <1>5, <1>6, <1>7, <1>8, <1>9, <1>10, <1>11,
       <1>12, <1>13, <1>14, <1>15, <1>16, <1>17, <1>18, <1>19, <1>20, <1>21,
       <1>22, <1>23, <1>24, <1>25
    DEF Next, Environment, Watcher, Scanner, Command, Claiming, Working, Exception

\* In every reachable state each variable has its type.
THEOREM TypeCorrect == Spec => []TypeOK
  BY TypeInit, TypeStep, PTL DEF Spec

-----------------------------------------------------------------------------
(* The inductive invariant, for processes that take turns.                 *)

\* mtimes never come from the future: whatever a row, an event, a sweep or a
\* job remembers was the file's version at some time.
Bounds ==
    /\ \A p \in Paths : /\ disk[p] \in {0, written[p]}
                        /\ table[p].mtime <= written[p]
    /\ \A t \in tasks : t.mtime <= written[t.path]
    /\ \A d \in Procs : /\ \A p \in Paths : scan[d].seen[p] <= written[p]
                        /\ \A e \in scan[d].plan : e.mtime <= written[e.path]
    /\ \A b \in Batches, p \in Paths : job[b][p].ver <= written[p]

NothingAtWork(b) == \A p \in Paths : ~ AtWork(b, p)

\* Processes take turns, and a process claims rows only between two of the
\* batches it awaits.
OneBatch ==
    /\ \A d, e \in active : d = e
    /\ \A b \in Batches : Owner(b) \notin active => NothingAtWork(b)
    /\ \A d \in Procs : d \notin active => claim[d].pc = "idle"
    /\ \A d \in Procs : claim[d].pc # "idle" => NothingAtWork(d)

\* Process d has p in hand: a handler of its batch is at work on p, or will be.
Loading(d, p) == claim[d].pc = "updated" /\ p \in claim[d].picks

\* What a claim has picked stays pending until its UPDATE, and a path that d
\* has in hand beside a handler it left at work on it has been noted.
Claims ==
    /\ \A d \in Procs : claim[d].pc = "picked" =>
          \A p \in claim[d].picks : table[p].status = "pending"
    /\ \A p \in Paths \ crossed :
          AtWork(Left, p) => ~ AtWork(Server, p) /\ ~ Loading(Server, p)

\* What a job in flight owes to its row: while it runs the row is unsettled,
\* and while the row is still the claimed one, the job works on a version at
\* least as new as the row asks for.
JobAgrees(b, p) ==
    LET j == job[b][p]
        r == table[p]
    IN /\ r.status \in {"pending", "processing"}
       /\ j.st = "upserted" => index[p] = Mixed
       /\ r.status = "processing" =>
            /\ j.st \in Running => (j.deletes <=> r.change = "deleted")
            /\ j.st \in {"read", "upserted"} => r.mtime <= j.ver
            /\ j.st = "missing" /\ r.change # "deleted" /\ disk[p] # 0
                 => r.mtime # disk[p]
            /\ j.st = "ok" /\ r.change # "deleted" /\ disk[p] # 0
                 /\ r.mtime = disk[p] => index[p] = disk[p]

JobsAgree ==
    \A b \in Batches, p \in Paths \ crossed : AtWork(b, p) => JobAgrees(b, p)

IInv == TypeOK /\ Bounds /\ OneBatch /\ Claims /\ JobsAgree /\ SettledRowsMirrorDisk

LEMMA InvInit == Init => IInv
  <1> SUFFICES ASSUME Init PROVE IInv
    OBVIOUS
  <1>1. TypeOK
    BY TypeInit
  <1>2. Bounds
    BY NoJobsType DEF Init, Bounds, NoRow, IdleScan, NoJob, Ended
  <1>3. \A b \in Batches, p \in Paths : ~ AtWork(b, p)
    BY NoJobsType DEF Init, AtWork, NoJob, Ended
  <1>6. OneBatch /\ Claims /\ JobsAgree
    BY <1>3, BatchesOwned DEF Init, OneBatch, NothingAtWork, Claims, Loading, JobsAgree, IdleClaim
  <1>4. SettledRowsMirrorDisk
    BY DEF Init, SettledRowsMirrorDisk, Vouched
  <1>5. QED
    BY <1>1, <1>2, <1>6, <1>4 DEF IInv

\* A file is never newer than its last write.
LEMMA DiskBound ==
    ASSUME TypeOK, Bounds, NEW p \in Paths
    PROVE  disk[p] \in Nat /\ written[p] \in Nat /\ disk[p] <= written[p]
  <1>1. disk[p] \in Nat /\ written[p] \in Nat
    BY DEF TypeOK
  <1>2. disk[p] = 0 \/ disk[p] = written[p]
    BY DEF Bounds
  <1>3. QED
    BY <1>1, <1>2

\* A sweep plans the mtimes of its walk or of the rows.
LEMMA ReconcileBound ==
    ASSUME NEW seen \in [Paths -> Nat], NEW tab \in [Paths -> Row],
           NEW top \in [Paths -> Nat],
           \A p \in Paths : seen[p] <= top[p] /\ tab[p].mtime <= top[p],
           NEW e \in Reconcile(seen, tab)
    PROVE  e.mtime <= top[e.path]
  BY DEF Reconcile

\* An upsert stores the mtime it is given.
LEMMA UpsertBound ==
    ASSUME TypeOK, Bounds, NEW p \in Paths, NEW change \in ChangeType,
           NEW mtime \in Nat, mtime <= written[p], DoUpsert(p, change, mtime)
    PROVE  \A q \in Paths : table'[q].mtime <= written[q]
  BY DEF TypeOK, Bounds, DoUpsert, Upserted

\* Every other repository call leaves the mtime alone.
LEMMA CallsKeepMtime ==
    ASSUME NEW r \in Row, NEW flag \in BOOLEAN, NEW count \in Nat
    PROVE  /\ Claimed(r).mtime = r.mtime
           /\ MarkedDone(r).mtime = r.mtime
           /\ MarkedFailed(r, flag, count).mtime = r.mtime
           /\ Recovered(r).mtime = r.mtime
           /\ Refixed(r).mtime = r.mtime
  BY DEF Row, Claimed, MarkedDone, MarkedFailed, Recovered, Refixed

\* When a mark fails, handlers end or stay what they are, in their batch or
\* among those left; only the server's do, and what the awaited batch leaves
\* behind was not among those left before.
LEMMA LeaveJobs ==
    ASSUME TypeOK, NEW rest \in [Paths -> Job], Leave(rest)
    PROVE  /\ \A b \in Procs \ {Server} : job'[b] = job[b]
           /\ \A q \in Paths : job'[Server][q] = NoJob
           /\ \A q \in Paths :
                 job'[Left][q] = IF AtWork(Left, q) THEN job[Left][q] ELSE rest[q]
           /\ \A q \in Paths : rest[q].st = "none" \/ ~ AtWork(Left, q)
  BY BatchesOwned, NoJobsType DEF TypeOK, Leave, Batches

LEMMA MarkFailsCases ==
    ASSUME TypeOK, OtherMarkFails \/ \E b \in Batches, p \in Paths : MarkFails(b, p)
    PROVE  \/ \E p \in Paths : /\ JobGoes(Left, p, NoJob) /\ AtWork(Left, p)
                               /\ holder' = [holder EXCEPT ![p] = IF @ = Left THEN None ELSE @]
           \/ \E rest \in [Paths -> Job] :
                 /\ Leave(rest)
                 /\ \E p \in Paths : AtWork(Server, p)
                 /\ \A q \in Paths : rest[q] = job[Server][q] \/ rest[q] = NoJob
  <1>1. CASE OtherMarkFails
    <2>1. job[Server] \in [Paths -> Job]
      BY BatchesOwned DEF TypeOK
    <2>2. QED
      BY <1>1, <2>1 DEF OtherMarkFails
  <1>2. ASSUME NEW b \in Batches, NEW p \in Paths, MarkFails(b, p), b = Left
        PROVE  /\ JobGoes(Left, p, NoJob) /\ AtWork(Left, p)
               /\ holder' = [holder EXCEPT ![p] = IF @ = Left THEN None ELSE @]
    BY <1>2, BatchesOwned DEF MarkFails, AtWork, Verdicts
  <1>3. ASSUME NEW b \in Batches, NEW p \in Paths, MarkFails(b, p), b # Left
        PROVE  \E rest \in [Paths -> Job] :
                 /\ Leave(rest)
                 /\ AtWork(Server, p)
                 /\ \A q \in Paths : rest[q] = job[Server][q] \/ rest[q] = NoJob
    <2> DEFINE rest == [job[Server] EXCEPT ![p] = NoJob]
    <2>1. rest \in [Paths -> Job] /\ \A q \in Paths : rest[q] = job[Server][q] \/ rest[q] = NoJob
      BY BatchesOwned, NullTypes DEF TypeOK
    <2>2. Leave(rest) /\ AtWork(Server, p)
      BY <1>3 DEF MarkFails, AtWork, Verdicts
    <2> HIDE DEF rest
    <2>3. QED
      BY <2>1, <2>2
  <1>4. QED
    BY <1>1, <1>2, <1>3

LEMMA JobsMove ==
    ASSUME TypeOK, OtherMarkFails \/ \E b \in Batches, p \in Paths : MarkFails(b, p)
    PROVE  \A c \in Batches, q \in Paths : \/ job'[c][q] = NoJob
                                           \/ \E b \in Batches : job'[c][q] = job[b][q]
  <1>1. ASSUME NEW p \in Paths, JobGoes(Left, p, NoJob)
        PROVE  \A c \in Batches, q \in Paths : job'[c][q] = NoJob \/ job'[c][q] = job[c][q]
    BY <1>1, BatchesOwned DEF TypeOK, JobGoes
  <1>2. ASSUME NEW rest \in [Paths -> Job], Leave(rest),
               \A q \in Paths : rest[q] = job[Server][q] \/ rest[q] = NoJob,
               NEW c \in Batches, NEW q \in Paths
        PROVE  job'[c][q] = NoJob \/ \E b \in Batches : job'[c][q] = job[b][q]
    <2>1. CASE c = Server
      BY <1>2, <2>1, LeaveJobs
    <2>2. CASE c = Left
      <3>1. job'[Left][q] = IF AtWork(Left, q) THEN job[Left][q] ELSE rest[q]
        BY <1>2, LeaveJobs
      <3>2. QED
        BY <1>2, <2>2, <3>1, BatchesOwned
    <2>3. CASE c \in Procs \ {Server}
      <3>1. job'[c] = job[c]
        BY <1>2, <2>3, LeaveJobs
      <3>2. QED
        BY <3>1
    <2>4. QED
      BY <2>1, <2>2, <2>3 DEF Batches
  <1>3. QED
    BY <1>1, <1>2, MarkFailsCases

LEMMA BoundsStep == TypeOK /\ Bounds /\ [Next]_vars => Bounds'
  <1> SUFFICES ASSUME TypeOK, Bounds, [Next]_vars PROVE Bounds'
    OBVIOUS
  <1>0. \A p \in Paths : 0 <= written[p]
    BY DEF TypeOK
  <1> USE DEF files, queue, watcher, worker
  <1>1. ASSUME NEW p \in Paths, WriteFile(p) PROVE Bounds'
    <2>1. \A q \in Paths : written'[q] >= written[q]
      BY <1>1 DEF TypeOK, WriteFile
    <2>2. \A q \in Paths : /\ disk'[q] \in {0, written'[q]}
                           /\ table'[q].mtime <= written'[q]
      BY <1>1, <2>1 DEF TypeOK, Bounds, WriteFile, Row
    <2>3. \A t \in tasks' : t.mtime <= written'[t.path]
      BY <1>1, <2>1 DEF TypeOK, Bounds, WriteFile, Enqueue
    <2>4. \A q \in Paths : written[q] \in Nat /\ written'[q] \in Nat
      BY <1>1 DEF TypeOK, WriteFile
    <2>5. ASSUME NEW d \in Procs
          PROVE  /\ \A q \in Paths : scan'[d].seen[q] <= written'[q]
                 /\ \A e \in scan'[d].plan : e.mtime <= written'[e.path]
      <3>1. scan[d] \in Scan /\ scan' = scan
        BY <1>1 DEF TypeOK, WriteFile
      <3>2. \A q \in Paths : scan[d].seen[q] \in Nat
        BY <3>1 DEF Scan
      <3>3. \A e \in scan[d].plan : e.path \in Paths /\ e.mtime \in Nat
        BY <3>1 DEF Scan, Enqueue
      <3>4. \A q \in Paths : scan[d].seen[q] <= written'[q]
        BY <2>1, <2>4, <3>2 DEF Bounds
      <3>5. \A e \in scan[d].plan : e.mtime <= written'[e.path]
        BY <2>1, <2>4, <3>3 DEF Bounds
      <3>6. QED
        BY <3>1, <3>4, <3>5
    <2>6. ASSUME NEW b \in Batches, NEW q \in Paths
          PROVE  job'[b][q].ver <= written'[q]
      <3>1. job[b][q].ver \in Nat /\ job' = job
        BY <1>1 DEF TypeOK, Job, WriteFile
      <3>2. QED
        BY <2>1, <2>4, <3>1 DEF Bounds
    <2>7. QED
      BY <2>2, <2>3, <2>5, <2>6 DEF Bounds
  <1>2. ASSUME NEW p \in Paths, RemoveFile(p) PROVE Bounds'
    BY <1>2 DEF TypeOK, Bounds, RemoveFile
  <1>3. CASE LoseEvent
    BY <1>3 DEF Bounds, LoseEvent
  <1>4. ASSUME NEW d \in Procs, Start(d) PROVE Bounds'
    <2>1. \A p \in Paths : table'[p].mtime = table[p].mtime
      <3>1. \/ \A p \in Paths : table'[p] = Recovered(table[p])
            \/ table' = table
        BY <1>4 DEF Start
      <3>2. \A p \in Paths : Recovered(table[p]).mtime = table[p].mtime
        BY DEF TypeOK, Row, Recovered
      <3>3. QED
        BY <3>1, <3>2
    <2>2. UNCHANGED <<disk, written, index, tasks, scan, job>>
      BY <1>4 DEF Start
    <2>3. QED
      BY <2>1, <2>2 DEF Bounds
  <1>5. ASSUME NEW d \in Procs, Crash(d) \/ Exit(d) PROVE Bounds'
    <2>1. Halt(d)
      BY <1>5 DEF Crash, Exit
    <2>2. \A p \in Paths : written[p] \in Nat
      BY DEF TypeOK
    <2>3. \A c \in Procs : scan'[c] = scan[c] \/ scan'[c] = IdleScan
      BY <2>1 DEF TypeOK, Halt
    <2>4. \A b \in Batches, p \in Paths : job'[b][p] = job[b][p] \/ job'[b][p] = NoJob
      BY <2>1, NoJobsType DEF TypeOK, Halt
    <2>5. tasks' \subseteq tasks
      BY <2>1 DEF Halt
    <2>6. \A c \in Procs : /\ \A p \in Paths : scan'[c].seen[p] <= written[p]
                           /\ \A e \in scan'[c].plan : e.mtime <= written[e.path]
      BY <2>2, <2>3 DEF Bounds, IdleScan
    <2>7. \A b \in Batches, p \in Paths : job'[b][p].ver <= written[p]
      BY <2>2, <2>4 DEF Bounds, NoJob, Ended
    <2>8. QED
      BY <2>1, <2>5, <2>6, <2>7 DEF Bounds, Halt
  <1>6. CASE HandleNotice
    <2>1. Head(notices) \in Paths \X ChangeType
      BY <1>6, TailType DEF TypeOK, HandleNotice
    <2>2. disk[Head(notices)[1]] <= written[Head(notices)[1]]
      BY <2>1, DiskBound
    <2>3. QED
      BY <1>6, <2>2 DEF Bounds, HandleNotice
  <1>7. ASSUME NEW p \in gone, StatGone(p) PROVE Bounds'
    <2>1. disk[p] <= written[p]
      BY DiskBound DEF TypeOK
    <2>2. QED
      BY <1>7, <2>1 DEF TypeOK, Bounds, StatGone
  <1>8. ASSUME NEW t \in tasks, RunTask(t) PROVE Bounds'
    <2>1. t \in Enqueue /\ t.mtime <= written[t.path]
      BY DEF TypeOK, Bounds
    <2>2. \A q \in Paths : table'[q].mtime <= written[q]
      BY <1>8, <2>1, UpsertBound DEF RunTask, Enqueue
    <2>3. QED
      BY <1>8, <2>2 DEF Bounds, RunTask
  <1>9. ASSUME NEW d \in Procs, Walk(d) PROVE Bounds'
    <2>1. \A p \in Paths : disk[p] <= written[p]
      BY DiskBound
    <2>2. QED
      BY <1>9, <2>1 DEF TypeOK, Bounds, Walk
  <1>10. ASSUME NEW d \in Procs, Snapshot(d) PROVE Bounds'
    <2> DEFINE plan == Reconcile(scan[d].seen, table)
    <2>1. scan[d].seen \in [Paths -> Nat]
      BY DEF TypeOK, Scan
    <2>2. \A e \in plan : e.mtime <= written[e.path]
      BY <2>1, ReconcileBound DEF TypeOK, Bounds
    <2> HIDE DEF plan
    <2>3. \A p \in Paths : Emitting(plan).seen[p] <= written[p]
      BY DEF TypeOK, Emitting, IdleScan
    <2>4. \A e \in Emitting(plan).plan : e.mtime <= written[e.path]
      BY <2>2 DEF Emitting, IdleScan
    <2>5. scan' = [scan EXCEPT ![d] = Emitting(plan)]
      BY <1>10 DEF Snapshot, plan
    <2>6. QED
      BY <1>10, <2>3, <2>4, <2>5 DEF TypeOK, Bounds, Snapshot
  <1>11. ASSUME NEW d \in Procs, NEW e \in scan[d].plan, Emit(d, e) PROVE Bounds'
    <2>1. e \in Enqueue /\ e.mtime <= written[e.path]
      BY DEF TypeOK, Bounds, Scan
    <2>2. \A q \in Paths : table'[q].mtime <= written[q]
      BY <1>11, <2>1, UpsertBound DEF Emit, Enqueue
    <2> DEFINE plan == scan[d].plan \ {e}
    <2>3. \A p \in Paths : Emitting(plan).seen[p] <= written[p]
      BY DEF TypeOK, Emitting, IdleScan
    <2>4. \A f \in Emitting(plan).plan : f.mtime <= written[f.path]
      BY DEF Bounds, Emitting, IdleScan
    <2>5. scan' = [scan EXCEPT ![d] = Emitting(plan)]
      BY <1>11 DEF Emit
    <2> HIDE DEF plan
    <2>6. QED
      BY <1>11, <2>2, <2>3, <2>4, <2>5 DEF TypeOK, Bounds, Emit
  <1>12. ASSUME NEW d \in Procs, FixApply(d) PROVE Bounds'
    BY <1>12, CallsKeepMtime DEF TypeOK, Bounds, FixApply
  <1>13. ASSUME NEW d \in Procs, NEW p \in Paths, ForceEnqueue(d, p) PROVE Bounds'
    <2>1. 0 <= written[p] /\ DoUpsert(p, "modified", 0) /\ "modified" \in ChangeType
      BY <1>13 DEF TypeOK, ForceEnqueue, ChangeType
    <2>3. \A q \in Paths : table'[q].mtime <= written[q]
      BY <2>1, UpsertBound
    <2>2. QED
      BY <1>13, <2>3 DEF Bounds, ForceEnqueue
  <1>14. ASSUME NEW d \in Procs, Pick(d) PROVE Bounds'
    BY <1>14 DEF Bounds, Pick
  <1>15. ASSUME NEW d \in Procs, UpdatePicks(d) PROVE Bounds'
    BY <1>15, CallsKeepMtime DEF TypeOK, Bounds, UpdatePicks
  <1>16. ASSUME NEW d \in Procs, LoadBatch(d) PROVE Bounds'
    <2>1. \A b \in Batches, p \in Paths : job'[b][p] = job[b][p] \/ job'[b][p].ver = 0
      BY <1>16 DEF TypeOK, LoadBatch, NewJob, Starts, NoJob, Ended
    <2>2. \A b \in Batches, p \in Paths : job'[b][p].ver <= written[p]
      BY <1>0, <2>1 DEF Bounds
    <2>3. QED
      BY <1>16, <2>2 DEF Bounds, LoadBatch
  <1>17. ASSUME NEW b \in Batches, NEW p \in Paths, NEW j \in Job,
                JobGoes(b, p, j), j.ver \in {0, disk[p], job[b][p].ver},
                UNCHANGED <<disk, written, table, tasks, scan>>
         PROVE  Bounds'
    <2>1. j.ver <= written[p]
      <3>1. disk[p] <= written[p] /\ 0 <= written[p]
        BY DiskBound
      <3>2. job[b][p].ver <= written[p]
        BY DEF Bounds
      <3>3. j.ver = 0 \/ j.ver = disk[p] \/ j.ver = job[b][p].ver
        BY <1>17
      <3>4. QED
        BY <3>1, <3>2, <3>3
    <2>2. \A c \in Batches, q \in Paths : job'[c][q] = job[c][q] \/ (q = p /\ job'[c][q] = j)
      BY <1>17 DEF TypeOK, JobGoes
    <2>3. QED
      BY <1>17, <2>1, <2>2 DEF Bounds
  <1>18. ASSUME NEW b \in Batches, NEW p \in Paths, ReadFile(b, p) PROVE Bounds'
    <2>1. job[b][p] \in Job /\ disk[p] \in Nat
      BY DEF TypeOK
    <2> DEFINE j == [job[b][p] EXCEPT !.st = IF disk[p] = 0 THEN "missing" ELSE "read",
                                      !.ver = disk[p]]
    <2>2. j \in Job /\ j.ver = disk[p]
      BY <2>1 DEF Job, Running
    <2>3. JobGoes(b, p, j) /\ UNCHANGED <<disk, written, table, tasks, scan>>
      BY <1>18 DEF ReadFile
    <2> HIDE DEF j
    <2>4. QED
      BY <1>17, <2>2, <2>3
  <1>19. ASSUME NEW b \in Batches, NEW p \in Paths,
                \/ Writing(b, p) \/ TransientFailure(b, p) \/ PermanentFailure(b, p)
         PROVE  Bounds'
    <2>1. job[b][p] \in Job
      BY DEF TypeOK
    <2>2. /\ [job[b][p] EXCEPT !.st = "upserted"] \in Job
          /\ [job[b][p] EXCEPT !.st = "upserted"].ver = job[b][p].ver
      BY <2>1 DEF Job, Running
    <2>3. /\ Ended("ok", 0) \in Job /\ Ended("ok", 0).ver = 0
          /\ Ended("dead", job[b][p].count) \in Job /\ Ended("dead", job[b][p].count).ver = 0
      BY <2>1, EndedType DEF Ended, Job, Verdicts
    <2>4. /\ TriedAgain(job[b][p]) \in Job /\ TriedAgain(job[b][p]).ver = 0
          /\ Failed(job[b][p]) \in Job /\ Failed(job[b][p]).ver = 0
      BY <2>1, JobFailsType DEF TriedAgain, Starts, Failed, Ended
    <2>5. \E j \in Job : JobGoes(b, p, j) /\ j.ver \in {0, job[b][p].ver}
      <3>1. CASE UpsertRows(b, p)
        BY <2>2, <3>1 DEF UpsertRows
      <3>2. CASE DeleteStaleRows(b, p) \/ DeleteRows(b, p)
        BY <2>3, <3>2 DEF DeleteStaleRows, DeleteRows
      <3>3. CASE TransientFailure(b, p)
        BY <2>4, <3>3 DEF TransientFailure
      <3>4. CASE PermanentFailure(b, p)
        BY <2>3, <3>4 DEF PermanentFailure
      <3>5. QED
        BY <1>19, <3>1, <3>2, <3>3, <3>4 DEF Writing
    <2>6. UNCHANGED <<disk, written, table, tasks, scan>>
      BY <1>19 DEF Writing, UpsertRows, DeleteStaleRows, DeleteRows, TransientFailure,
                   PermanentFailure
    <2>7. QED
      BY <1>17, <2>5, <2>6
  <1>20. ASSUME NEW b \in Batches, NEW p \in Paths, Mark(b, p) PROVE Bounds'
    <2>1. job[b][p].count \in Nat
      BY DEF TypeOK, Job
    <2>2. \A q \in Paths : table'[q].mtime = table[q].mtime
      <3>1. /\ MarkedDone(table[p]).mtime = table[p].mtime
            /\ \A f \in BOOLEAN :
                 MarkedFailed(table[p], f, job[b][p].count).mtime = table[p].mtime
        BY <2>1, CallsKeepMtime DEF TypeOK
      <3>2. QED
        BY <1>20, <3>1 DEF TypeOK, Mark
    <2>3. \A c \in Batches, q \in Paths : job'[c][q] = job[c][q] \/ job'[c][q] = NoJob
      BY <1>20 DEF TypeOK, Mark, JobGoes
    <2>4. \A c \in Batches, q \in Paths : job'[c][q].ver <= written[q]
      BY <1>0, <2>3 DEF Bounds, NoJob, Ended
    <2>5. QED
      BY <1>20, <2>2, <2>4 DEF Bounds, Mark
  <1>21. CASE ClaimFails
    BY <1>21 DEF Bounds, ClaimFails
  <1>22. CASE OtherMarkFails \/ \E b \in Batches, p \in Paths : MarkFails(b, p)
    <2>1. \A c \in Batches, q \in Paths : \/ job'[c][q] = NoJob
                                          \/ \E b \in Batches : job'[c][q] = job[b][q]
      BY <1>22, JobsMove
    <2>2. \A c \in Batches, q \in Paths : job'[c][q].ver <= written[q]
      BY <1>0, <2>1 DEF Bounds, NoJob, Ended
    <2>3. UNCHANGED <<disk, written, table, tasks, scan>>
      BY <1>22 DEF OtherMarkFails, MarkFails
    <2>4. QED
      BY <2>2, <2>3 DEF Bounds
  <1>23. CASE UNCHANGED vars
    BY <1>23 DEF Bounds, vars
  <1>24. QED
    BY <1>1, <1>2, <1>3, <1>4, <1>5, <1>6, <1>7, <1>8, <1>9, <1>10, <1>11,
       <1>12, <1>13, <1>14, <1>15, <1>16, <1>18, <1>19, <1>20, <1>21, <1>22,
       <1>23
    DEF Next, Environment, Watcher, Scanner, Command, Claiming, Working, Exception

-----------------------------------------------------------------------------
(* Processes take turns.                                                   *)

\* A step of a handler changes its own job and no claim.
LEMMA JobSteps ==
    ASSUME NEW b \in Batches, NEW p \in Paths,
           Working(b, p) \/ TransientFailure(b, p) \/ PermanentFailure(b, p)
    PROVE  /\ \E j : JobGoes(b, p, j)
           /\ AtWork(b, p)
           /\ UNCHANGED <<claim, active, crossed, disk>>
  <1> USE DEF files, queue, Running, Verdicts, AtWork
  <1>1. CASE ReadFile(b, p)
    BY <1>1 DEF ReadFile
  <1>2. CASE Writing(b, p)
    BY <1>2 DEF Writing, UpsertRows, DeleteStaleRows, DeleteRows
  <1>3. CASE Mark(b, p)
    BY <1>3 DEF Mark
  <1>4. CASE TransientFailure(b, p)
    BY <1>4 DEF TransientFailure
  <1>5. CASE PermanentFailure(b, p)
    BY <1>5 DEF PermanentFailure
  <1>6. QED
    BY <1>1, <1>2, <1>3, <1>4, <1>5 DEF Working

LEMMA OneBatchStep ==
    TypeOK /\ OneBatch /\ ~ Overlap /\ [Next]_vars => OneBatch'
  <1> SUFFICES ASSUME TypeOK, OneBatch, ~ Overlap, [Next]_vars PROVE OneBatch'
    OBVIOUS
  <1> USE DEF files, queue, watcher, worker
  <1>1. CASE UNCHANGED <<active, claim, job>>
    BY <1>1 DEF OneBatch, NothingAtWork, AtWork
  <1>2. ASSUME NEW d \in Procs, Start(d) PROVE OneBatch'
    BY <1>2 DEF OneBatch, NothingAtWork, AtWork, Start
  <1>3. ASSUME NEW d \in Procs, Crash(d) \/ Exit(d) PROVE OneBatch'
    <2>1. Halt(d)
      BY <1>3 DEF Crash, Exit
    <2>2. \A c \in Procs : claim'[c].pc = "idle" \/ (claim'[c] = claim[c] /\ c # d)
      BY <2>1 DEF TypeOK, Halt, IdleClaim
    <2>3. \A b \in Batches : /\ NothingAtWork(b) => NothingAtWork(b)'
                             /\ Owner(b) = d => NothingAtWork(b)'
      BY <2>1, NoJobsType DEF TypeOK, Halt, NothingAtWork, AtWork, NoJob, Ended
    <2>4. active' = active \ {d}
      BY <2>1 DEF Halt
    <2>5. QED
      BY <2>2, <2>3, <2>4, BatchesOwned DEF OneBatch
  <1>4. ASSUME NEW d \in Procs, Pick(d) PROVE OneBatch'
    <2>1. d \in active /\ NothingAtWork(d) /\ UNCHANGED <<active, job>>
      BY <1>4 DEF Pick, Busy, NothingAtWork, AtWork
    <2>2. \A c \in Procs \ {d} : claim'[c] = claim[c]
      BY <1>4 DEF TypeOK, Pick
    <2>3. QED
      BY <2>1, <2>2 DEF OneBatch, NothingAtWork, AtWork
  <1>5. ASSUME NEW d \in Procs, UpdatePicks(d) PROVE OneBatch'
    <2>1. claim[d].pc # "idle" /\ d \in active /\ NothingAtWork(d)
      BY <1>5 DEF OneBatch, UpdatePicks
    <2>2. \A c \in Procs \ {d} : claim'[c] = claim[c]
      BY <1>5 DEF TypeOK, UpdatePicks
    <2>3. job' = job /\ active' = active
      BY <1>5 DEF UpdatePicks
    <2>4. QED
      BY <2>1, <2>2, <2>3 DEF OneBatch, NothingAtWork, AtWork
  <1>6. ASSUME NEW d \in Procs, LoadBatch(d) PROVE OneBatch'
    <2>1. d \in active
      BY <1>6 DEF OneBatch, LoadBatch
    <2>2. claim'[d].pc = "idle"
      BY <1>6 DEF TypeOK, LoadBatch, IdleClaim
    <2>3. \A c \in Procs \ {d} : claim'[c] = claim[c]
      BY <1>6 DEF TypeOK, LoadBatch
    <2>4. \A b \in Batches \ {d} : job'[b] = job[b]
      BY <1>6 DEF TypeOK, LoadBatch
    <2>5. active' = active
      BY <1>6 DEF LoadBatch
    <2>6. QED
      BY <2>1, <2>2, <2>3, <2>4, <2>5, BatchesOwned DEF OneBatch, NothingAtWork, AtWork
  <1>7. ASSUME NEW b \in Batches, NEW p \in Paths, AtWork(b, p),
               \A c \in Batches \ {b} : job'[c] = job[c],
               UNCHANGED <<claim, active>>
        PROVE  OneBatch'
    <2>1. Owner(b) \in active /\ (b \in Procs => claim[b].pc = "idle")
      BY <1>7 DEF OneBatch, NothingAtWork
    <2>2. \A c \in Batches \ {b} : NothingAtWork(c) => NothingAtWork(c)'
      BY <1>7 DEF NothingAtWork, AtWork
    <2>3. QED
      BY <1>7, <2>1, <2>2, BatchesOwned DEF OneBatch
  <1>8. ASSUME NEW b \in Batches, NEW p \in Paths,
               Working(b, p) \/ TransientFailure(b, p) \/ PermanentFailure(b, p)
        PROVE  OneBatch'
    <2>1. PICK j : JobGoes(b, p, j)
      BY <1>8, JobSteps
    <2>2. AtWork(b, p) /\ UNCHANGED <<claim, active>>
      BY <1>8, JobSteps
    <2>3. \A c \in Batches \ {b} : job'[c] = job[c]
      BY <2>1 DEF TypeOK, JobGoes
    <2>4. QED
      BY <1>7, <2>2, <2>3
  <1>9. CASE \/ \E p \in Paths : WriteFile(p) \/ RemoveFile(p)
             \/ LoseEvent \/ Watcher
             \/ \E d \in Procs : Scanner(d) \/ Command(d)
    <2>1. UNCHANGED <<active, claim, job>>
      BY <1>9 DEF WriteFile, RemoveFile, LoseEvent, Watcher, HandleNotice,
                  StatGone, RunTask, Scanner, Walk, Snapshot, Emit, Command,
                  ForceEnqueue, FixApply
    <2>2. QED
      BY <1>1, <2>1
  <1>10. CASE UNCHANGED vars
    BY <1>1, <1>10 DEF vars
  <1>11. CASE ClaimFails
    <2>1. \A c \in Procs : claim'[c] = claim[c] \/ claim'[c].pc = "idle"
      BY <1>11 DEF TypeOK, ClaimFails, IdleClaim
    <2>2. UNCHANGED <<active, job>>
      BY <1>11 DEF ClaimFails
    <2>3. QED
      BY <2>1, <2>2 DEF OneBatch, NothingAtWork, AtWork
  <1>12. CASE OtherMarkFails \/ \E b \in Batches, p \in Paths : MarkFails(b, p)
    <2>1. UNCHANGED <<active, claim>>
      BY <1>12 DEF OtherMarkFails, MarkFails
    <2>2. ASSUME NEW p \in Paths, JobGoes(Left, p, NoJob), AtWork(Left, p) PROVE OneBatch'
      <3>1. \A c \in Batches \ {Left} : job'[c] = job[c]
        BY <2>2 DEF TypeOK, JobGoes
      <3>2. QED
        BY <1>7, <2>1, <2>2, <3>1, BatchesOwned
    <2>3. ASSUME NEW rest \in [Paths -> Job], Leave(rest), NEW p \in Paths, AtWork(Server, p)
          PROVE  OneBatch'
      <3>1. \A b \in Procs \ {Server} : job'[b] = job[b]
        BY <2>3, LeaveJobs
      <3>2. NothingAtWork(Server)'
        BY <2>3, LeaveJobs DEF NothingAtWork, AtWork, NoJob, Ended
      <3>3. Server \in active
        BY <2>3, BatchesOwned DEF OneBatch, NothingAtWork
      <3>4. \A b \in Batches : Owner(b) \notin active => NothingAtWork(b)'
        BY <3>1, <3>3, BatchesOwned DEF OneBatch, NothingAtWork, AtWork, Batches
      <3>5. \A d \in Procs : claim[d].pc # "idle" => NothingAtWork(d)'
        BY <3>1, <3>2 DEF OneBatch, NothingAtWork, AtWork
      <3>6. QED
        BY <2>1, <3>4, <3>5 DEF OneBatch
    <2>4. QED
      BY <1>12, <2>2, <2>3, MarkFailsCases
  <1>13. QED
    BY <1>2, <1>3, <1>4, <1>5, <1>6, <1>8, <1>9, <1>10, <1>11, <1>12
    DEF Next, Environment, Claiming, Working, Exception

-----------------------------------------------------------------------------
(* What a claim has picked, and what was left at work beside it.           *)

\* While process d has a handler at work or a claim, no other process has one.
LEMMA OthersRest ==
    ASSUME OneBatch, NEW d \in Procs, NEW c \in Batches, Owner(c) # d,
           \/ claim[d].pc # "idle"
           \/ \E b \in Batches : Owner(b) = d /\ ~ NothingAtWork(b)
    PROVE  NothingAtWork(c)
  BY BatchesOwned DEF OneBatch

\* A path that was not claimed beside a handler has one handler at most.
LEMMA AloneOn ==
    ASSUME OneBatch, Claims, NEW b \in Batches, NEW c \in Batches, b # c,
           NEW p \in Paths \ crossed, AtWork(b, p)
    PROVE  ~ AtWork(c, p)
  <1>1. CASE Owner(c) = Owner(b)
    <2>1. {b, c} = {Server, Left}
      BY <1>1, BatchesOwned DEF Owner
    <2>2. QED
      BY <2>1 DEF Claims
  <1>2. CASE Owner(c) # Owner(b)
    <2>1. Owner(b) \in Procs /\ ~ NothingAtWork(b)
      BY BatchesOwned DEF NothingAtWork
    <2>2. NothingAtWork(c)
      BY <1>2, <2>1, OthersRest
    <2>3. QED
      BY <2>2 DEF NothingAtWork
  <1>3. QED
    BY <1>1, <1>2

\* Steps that claim nothing and start no handler.
LEMMA ClaimsKept ==
    ASSUME Claims, crossed' = crossed,
           \A q \in Paths : \/ table'[q] = table[q]
                            \/ table'[q].status = "pending"
                            \/ table[q].status = "processing",
           \A c \in Procs : claim'[c].pc = "idle" \/ claim'[c] = claim[c],
           \A b \in Batches, q \in Paths : AtWork(b, q)' => AtWork(b, q),
           \A c \in Procs : claim[c].picks \subseteq Paths
    PROVE  Claims'
  <1>1. ASSUME NEW d \in Procs, claim'[d].pc = "picked", NEW p \in claim'[d].picks
        PROVE  table'[p].status = "pending"
    <2>1. claim'[d] = claim[d]
      BY <1>1
    <2>2. p \in Paths /\ table[p].status = "pending"
      BY <1>1, <2>1 DEF Claims
    <2>3. QED
      BY <2>2
  <1>2. ASSUME NEW p \in Paths \ crossed, AtWork(Left, p)'
        PROVE  ~ AtWork(Server, p)' /\ ~ Loading(Server, p)'
    <2>1. AtWork(Left, p)
      BY <1>2, BatchesOwned
    <2>2. ~ AtWork(Server, p) /\ ~ Loading(Server, p)
      BY <2>1 DEF Claims
    <2>3. ~ AtWork(Server, p)'
      BY <2>2, BatchesOwned
    <2>4. ~ Loading(Server, p)'
      BY <2>2, BatchesOwned DEF Loading
    <2>5. QED
      BY <2>3, <2>4
  <1>3. QED
    BY <1>1, <1>2 DEF Claims

\* A re-enqueue puts one row back to pending.
LEMMA UpsertPends ==
    ASSUME TypeOK, NEW p \in Paths, NEW change \in ChangeType, NEW m \in Nat,
           DoUpsert(p, change, m)
    PROVE  \A q \in Paths : \/ table'[q].status = "pending"
                            \/ table'[q] = table[q] /\ holder'[q] = holder[q]
  BY DEF TypeOK, DoUpsert, Upserted

\* What every step but a claim's and a handler's does to rows: it puts them
\* back to pending or leaves them, to their holder too.
LEMMA RowsPend ==
    ASSUME TypeOK,
           \/ \E p \in Paths : WriteFile(p) \/ RemoveFile(p)
           \/ LoseEvent
           \/ \E d \in Procs : \/ Start(d) \/ Crash(d) \/ Exit(d)
                               \/ Scanner(d) \/ Command(d) \/ Pick(d) \/ LoadBatch(d)
           \/ Watcher
    PROVE  \A q \in Paths : \/ table'[q].status = "pending"
                            \/ /\ table'[q] = table[q]
                               /\ table[q].status = "processing" => holder'[q] = holder[q]
  <1> DEFINE Pends == \A q \in Paths :
                         \/ table'[q].status = "pending"
                         \/ /\ table'[q] = table[q]
                            /\ table[q].status = "processing" => holder'[q] = holder[q]
  <1> SUFFICES Pends
    OBVIOUS
  <1> USE DEF queue
  <1>1. ASSUME \/ \E p \in Paths : WriteFile(p) \/ RemoveFile(p)
               \/ LoseEvent
               \/ \E d \in Procs : \/ Crash(d) \/ Exit(d) \/ Walk(d) \/ Snapshot(d)
                                   \/ Pick(d) \/ LoadBatch(d)
               \/ HandleNotice \/ \E p \in gone : StatGone(p)
        PROVE  Pends
    BY <1>1 DEF WriteFile, RemoveFile, LoseEvent, Crash, Exit, Halt, Walk, Snapshot,
                Pick, LoadBatch, HandleNotice, StatGone
  <1>2. ASSUME NEW d \in Procs, Start(d) PROVE Pends
    <2>1. \/ \A q \in Paths : /\ table'[q] = Recovered(table[q])
                              /\ table'[q].status = "processing" => holder'[q] = holder[q]
          \/ UNCHANGED <<table, holder>>
      BY <1>2 DEF Start
    <2>2. \A q \in Paths : \/ Recovered(table[q]) = table[q]
                           \/ Recovered(table[q]).status = "pending"
      BY DEF TypeOK, Row, Recovered
    <2>3. QED
      BY <2>1, <2>2
  <1>3. ASSUME NEW t \in tasks, RunTask(t) PROVE Pends
    <2>1. t.path \in Paths /\ t.change \in ChangeType /\ t.mtime \in Nat
      BY DEF TypeOK, Enqueue
    <2>2. QED
      BY <1>3, <2>1, UpsertPends DEF RunTask
  <1>4. ASSUME NEW d \in Procs, NEW e \in scan[d].plan, Emit(d, e) PROVE Pends
    <2>1. e.path \in Paths /\ e.change \in ChangeType /\ e.mtime \in Nat
      BY DEF TypeOK, Scan, Enqueue
    <2>2. QED
      BY <1>4, <2>1, UpsertPends DEF Emit
  <1>5. ASSUME NEW d \in Procs, NEW p \in Paths, ForceEnqueue(d, p) PROVE Pends
    BY <1>5, UpsertPends DEF ForceEnqueue, ChangeType
  <1>6. ASSUME NEW d \in Procs, FixApply(d) PROVE Pends
    BY <1>6 DEF TypeOK, Row, FixApply, Refixed
  <1>7. QED
    BY <1>1, <1>2, <1>3, <1>4, <1>5, <1>6 DEF Scanner, Command, Watcher

\* Those steps leave handlers and claims alone, or end them.
LEMMA HandlersLeft ==
    ASSUME TypeOK,
           \/ \E p \in Paths : WriteFile(p) \/ RemoveFile(p)
           \/ LoseEvent
           \/ \E d \in Procs : \/ Start(d) \/ Crash(d) \/ Exit(d)
                               \/ Scanner(d) \/ Command(d)
           \/ Watcher
    PROVE  /\ index' = index /\ crossed' = crossed
           /\ \A c \in Procs : claim'[c].pc = "idle" \/ claim'[c] = claim[c]
           /\ \A b \in Batches, q \in Paths :
                 job'[b][q].st = "none" \/ job'[b][q] = job[b][q]
  <1> USE DEF queue, worker
  <1>1. ASSUME NEW d \in Procs, Crash(d) \/ Exit(d)
        PROVE  /\ index' = index /\ crossed' = crossed
               /\ \A c \in Procs : claim'[c].pc = "idle" \/ claim'[c] = claim[c]
               /\ \A b \in Batches, q \in Paths :
                     job'[b][q].st = "none" \/ job'[b][q] = job[b][q]
    <2>1. Halt(d)
      BY <1>1 DEF Crash, Exit
    <2>2. \A c \in Procs : claim'[c].pc = "idle" \/ claim'[c] = claim[c]
      BY <2>1 DEF TypeOK, Halt, IdleClaim
    <2>3. \A b \in Batches, q \in Paths : job'[b][q].st = "none" \/ job'[b][q] = job[b][q]
      BY <2>1, NoJobsType DEF TypeOK, Halt, NoJob, Ended
    <2>4. QED
      BY <2>1, <2>2, <2>3 DEF Halt
  <1>2. ASSUME ~ \E d \in Procs : Crash(d) \/ Exit(d)
        PROVE  UNCHANGED <<index, crossed, claim, job>>
    BY <1>2 DEF WriteFile, RemoveFile, LoseEvent, Start, Scanner, Walk, Snapshot, Emit,
                Command, ForceEnqueue, FixApply, Watcher, HandleNotice, StatGone, RunTask
  <1>3. QED
    BY <1>1, <1>2

\* What a verdict does to a row: only a row that is processed changes, and only
\* the verdict "ok" makes it done, for the mtime and the type it has.
LEMMA MarkRows ==
    ASSUME TypeOK, NEW b \in Batches, NEW p \in Paths, Mark(b, p)
    PROVE  /\ \A q \in Paths : q # p => table'[q] = table[q] /\ holder'[q] = holder[q]
           /\ table[p].status # "processing" => table'[p] = table[p]
           /\ table[p].status = "processing" =>
                 \/ table'[p].status = "failed"
                 \/ /\ job[b][p].st = "ok" /\ table'[p].status = "done"
                    /\ table'[p].change = table[p].change
                    /\ table'[p].mtime = table[p].mtime
           /\ \A c \in Batches, q \in Paths : c # b \/ q # p => job'[c][q] = job[c][q]
           /\ ~ AtWork(b, p)'
           /\ UNCHANGED <<disk, index, crossed>>
  <1>1. /\ \A q \in Paths : q # p => table'[q] = table[q] /\ holder'[q] = holder[q]
        /\ table'[p] = IF job[b][p].st = "ok" THEN MarkedDone(table[p])
                       ELSE MarkedFailed(table[p], job[b][p].st = "retry", job[b][p].count)
    BY DEF TypeOK, Mark
  <1>2. \A c \in Batches, q \in Paths : c # b \/ q # p => job'[c][q] = job[c][q]
    BY DEF TypeOK, Mark, JobGoes
  <1>3. ~ AtWork(b, p)'
    BY DEF TypeOK, Mark, JobGoes, AtWork, NoJob, Ended
  <1>4. UNCHANGED <<disk, index, crossed>>
    BY DEF Mark, files
  <1>5. /\ table[p].status # "processing" => table'[p] = table[p]
        /\ table[p].status = "processing" =>
              \/ table'[p].status = "failed"
              \/ /\ job[b][p].st = "ok" /\ table'[p].status = "done"
                 /\ table'[p].change = table[p].change
                 /\ table'[p].mtime = table[p].mtime
    BY <1>1 DEF TypeOK, Row, MarkedDone, MarkedFailed
  <1>6. QED
    BY <1>1, <1>2, <1>3, <1>4, <1>5

LEMMA ClaimsStep ==
    TypeOK /\ OneBatch /\ Claims /\ [Next]_vars => Claims'
  <1> SUFFICES ASSUME TypeOK, OneBatch, Claims, [Next]_vars PROVE Claims'
    OBVIOUS
  <1> USE DEF files, queue, watcher, worker
  <1>1. \A c \in Procs : claim[c].picks \subseteq Paths /\ claim[c] \in Claim
    BY DEF TypeOK, Claim
  <1>2. ASSUME \/ \E p \in Paths : WriteFile(p) \/ RemoveFile(p)
               \/ LoseEvent
               \/ \E d \in Procs : \/ Start(d) \/ Crash(d) \/ Exit(d)
                                   \/ Scanner(d) \/ Command(d)
               \/ Watcher
        PROVE  Claims'
    <2>1. \A q \in Paths : table'[q] = table[q] \/ table'[q].status = "pending"
      BY <1>2, RowsPend
    <2>2. /\ crossed' = crossed
          /\ \A c \in Procs : claim'[c].pc = "idle" \/ claim'[c] = claim[c]
          /\ \A b \in Batches, q \in Paths : job'[b][q].st = "none" \/ job'[b][q] = job[b][q]
      BY <1>2, HandlersLeft
    <2>3. \A b \in Batches, q \in Paths : AtWork(b, q)' => AtWork(b, q)
      BY <2>2 DEF AtWork
    <2>4. QED
      BY <1>1, <2>1, <2>2, <2>3, ClaimsKept
  <1>3. ASSUME NEW d \in Procs, Pick(d) PROVE Claims'
    <2>1. PICK S \in FirstPending(older, table, BatchSize) :
            claim' = [claim EXCEPT ![d] = [pc |-> "picked", picks |-> S]]
      BY <1>3 DEF Pick
    <2>2. \A p \in S : table[p].status = "pending"
      BY DEF FirstPending, PendingIn
    <2>3. UNCHANGED <<table, crossed, job>> /\ \A c \in Procs \ {d} : claim'[c] = claim[c]
      BY <1>3 DEF Pick, TypeOK
    <2>4. claim'[d].pc = "picked" /\ claim'[d].picks = S
      BY <2>1 DEF TypeOK
    <2>5. \A p \in Paths : Loading(Server, p)' => Loading(Server, p)
      BY <2>3, <2>4, BatchesOwned DEF Loading
    <2>6. \A b \in Batches, p \in Paths : AtWork(b, p)' <=> AtWork(b, p)
      BY <2>3 DEF AtWork
    <2>7. QED
      BY <2>2, <2>3, <2>4, <2>5, <2>6, BatchesOwned DEF Claims
  <1>4. ASSUME NEW d \in Procs, UpdatePicks(d) PROVE Claims'
    <2> DEFINE won == claim[d].picks \cap PendingIn(table)
    <2>1. /\ claim[d].pc = "picked" /\ job' = job
          /\ crossed' = (crossed \ won) \cup
                {p \in won : \E b \in Batches : Owner(b) = d /\ AtWork(b, p)}
          /\ claim' = [claim EXCEPT ![d] =
                IF won = {} THEN IdleClaim ELSE [@ EXCEPT !.pc = "updated"]]
      BY <1>4 DEF UpdatePicks
    <2>2. won = claim[d].picks
      BY <1>1, <2>1 DEF Claims, PendingIn
    <2>3. \A c \in Procs : c # d => claim[c].pc = "idle"
      BY <2>1 DEF OneBatch
    <2>4. /\ \A c \in Procs : c # d => claim'[c] = claim[c]
          /\ claim'[d].pc = "idle" \/ (claim'[d].pc = "updated" /\ claim'[d].picks = won)
      BY <1>1, <2>1, <2>2 DEF TypeOK, IdleClaim, Claim
    <2> HIDE DEF won
    <2>5. ASSUME NEW c \in Procs PROVE claim'[c].pc # "picked"
      BY <2>3, <2>4
    <2>6. ASSUME NEW p \in Paths \ crossed', AtWork(Left, p)'
          PROVE  ~ AtWork(Server, p)' /\ ~ Loading(Server, p)'
      <3>1. AtWork(Left, p)
        BY <2>1, <2>6 DEF AtWork
      <3>2. d = Server
        <4>1. ~ NothingAtWork(Left)
          BY <3>1 DEF NothingAtWork
        <4>2. d # Server => NothingAtWork(Left)
          BY <2>1, OthersRest, BatchesOwned
        <4>3. QED
          BY <4>1, <4>2
      <3>3. p \notin won
        BY <2>1, <2>6, <3>1, <3>2, BatchesOwned
      <3>4. ~ Loading(Server, p)'
        BY <2>4, <3>2, <3>3 DEF Loading
      <3>5. NothingAtWork(Server)
        BY <2>1, <3>2 DEF OneBatch
      <3>6. QED
        BY <2>1, <3>4, <3>5 DEF NothingAtWork, AtWork
    <2>7. QED
      BY <2>5, <2>6 DEF Claims
  <1>5. ASSUME NEW d \in Procs, LoadBatch(d) PROVE Claims'
    <2>1. /\ claim[d].pc = "updated" /\ UNCHANGED <<table, crossed>>
          /\ claim' = [claim EXCEPT ![d] = IdleClaim]
      BY <1>5 DEF LoadBatch
    <2>2. /\ claim'[d].pc = "idle"
          /\ \A c \in Procs : c # d => claim'[c] = claim[c]
      BY <2>1 DEF TypeOK, IdleClaim
    <2>3. /\ \A b \in Batches : b # d => job'[b] = job[b]
          /\ \A p \in Paths : AtWork(d, p)' => p \in claim[d].picks
      BY <1>5, BatchesOwned DEF TypeOK, LoadBatch, AtWork, NoJob, Ended
    <2>4. ASSUME NEW p \in Paths \ crossed, AtWork(Left, p)'
          PROVE  ~ AtWork(Server, p)' /\ ~ Loading(Server, p)'
      <3>1. AtWork(Left, p)
        BY <2>3, <2>4, BatchesOwned DEF AtWork
      <3>2. d = Server
        <4>1. ~ NothingAtWork(Left)
          BY <3>1 DEF NothingAtWork
        <4>2. d # Server => NothingAtWork(Left)
          BY <2>1, OthersRest, BatchesOwned
        <4>3. QED
          BY <4>1, <4>2
      <3>3. ~ Loading(Server, p)
        BY <3>1 DEF Claims
      <3>4. p \notin claim[d].picks
        BY <2>1, <3>2, <3>3 DEF Loading
      <3>5. QED
        BY <2>2, <2>3, <3>2, <3>4 DEF Loading
    <2>5. \A c \in Procs : claim'[c].pc = "picked" => claim'[c] = claim[c]
      BY <2>2
    <2>6. QED
      BY <2>1, <2>4, <2>5 DEF Claims
  <1>6. ASSUME NEW b \in Batches, NEW p \in Paths,
               Working(b, p) \/ TransientFailure(b, p) \/ PermanentFailure(b, p)
        PROVE  Claims'
    <2>1. PICK j : JobGoes(b, p, j)
      BY <1>6, JobSteps
    <2>2. AtWork(b, p) /\ UNCHANGED <<claim, crossed>>
      BY <1>6, JobSteps
    <2>3. \A c \in Batches, q \in Paths : AtWork(c, q)' => AtWork(c, q)
      BY <2>1, <2>2 DEF TypeOK, JobGoes, AtWork
    <2>4. \A q \in Paths : \/ table'[q] = table[q]
                           \/ table[q].status = "processing"
      <3>1. CASE Mark(b, p)
        BY <3>1, MarkRows
      <3>2. CASE ~ Mark(b, p)
        BY <1>6, <3>2 DEF Working, ReadFile, Writing, UpsertRows, DeleteStaleRows,
                          DeleteRows, TransientFailure, PermanentFailure
      <3>3. QED
        BY <3>1, <3>2
    <2>5. QED
      BY <1>1, <2>2, <2>3, <2>4, ClaimsKept
  <1>7. CASE ClaimFails
    <2>1. \A c \in Procs : claim'[c] = claim[c] \/ claim'[c].pc = "idle"
      BY <1>7 DEF TypeOK, ClaimFails, IdleClaim
    <2>2. UNCHANGED <<table, crossed, job>>
      BY <1>7 DEF ClaimFails
    <2>3. \A b \in Batches, q \in Paths : AtWork(b, q)' => AtWork(b, q)
      BY <2>2 DEF AtWork
    <2>4. QED
      BY <1>1, <2>1, <2>2, <2>3, ClaimsKept
  <1>8. CASE OtherMarkFails \/ \E b \in Batches, p \in Paths : MarkFails(b, p)
    <2>1. UNCHANGED <<table, crossed, claim>>
      BY <1>8 DEF OtherMarkFails, MarkFails
    <2>2. ASSUME NEW p \in Paths, JobGoes(Left, p, NoJob) PROVE Claims'
      <3>1. \A b \in Batches, q \in Paths : AtWork(b, q)' => AtWork(b, q)
        BY <2>2 DEF TypeOK, JobGoes, AtWork, NoJob, Ended
      <3>2. QED
        BY <1>1, <2>1, <3>1, ClaimsKept
    <2>3. ASSUME NEW rest \in [Paths -> Job], Leave(rest), NEW p \in Paths, AtWork(Server, p)
          PROVE  Claims'
      <3>1. \A q \in Paths : ~ AtWork(Server, q)'
        BY <2>3, LeaveJobs DEF AtWork, NoJob, Ended
      <3>2. claim[Server].pc = "idle"
        BY <2>3, BatchesOwned DEF OneBatch, NothingAtWork
      <3>3. \A q \in Paths : ~ Loading(Server, q)'
        BY <2>1, <3>2 DEF Loading
      <3>4. QED
        BY <2>1, <3>1, <3>3 DEF Claims
    <2>4. QED
      BY <1>8, <2>2, <2>3, MarkFailsCases
  <1>9. CASE UNCHANGED vars
    BY <1>9 DEF Claims, AtWork, Loading, vars
  <1>10. QED
    BY <1>2, <1>3, <1>4, <1>5, <1>6, <1>7, <1>8, <1>9
    DEF Next, Environment, Claiming, Exception

-----------------------------------------------------------------------------
(* Jobs agree with their rows, and settled rows with their files.          *)

\* Steps that leave the files and the index alone, re-enqueue rows or leave
\* them, and stop handlers, move them to another batch, fail them or send them
\* back to their start.
LEMMA QuietStep ==
    ASSUME JobsAgree, SettledRowsMirrorDisk,
           disk' = disk, index' = index, crossed' = crossed,
           \A q \in Paths : table'[q] = table[q] \/ table'[q].status = "pending",
           \A c \in Batches, q \in Paths :
              \/ job'[c][q].st = "none"
              \/ \E b \in Batches : job'[c][q] = job[b][q]
              \/ /\ AtWork(c, q)
                 /\ job'[c][q].st \in {"retry", "dead"}
              \/ /\ job[c][q].st \in Running
                 /\ job'[c][q].deletes = job[c][q].deletes
                 /\ job'[c][q].st = FirstStep(job[c][q].deletes)
    PROVE  JobsAgree' /\ SettledRowsMirrorDisk'
  <1>1. ASSUME NEW c \in Batches, NEW q \in Paths \ crossed', AtWork(c, q)'
        PROVE  JobAgrees(c, q)'
    <2>1. ASSUME NEW b \in Batches, job'[c][q] = job[b][q]
          PROVE  JobAgrees(c, q)'
      <3>1. AtWork(b, q)
        BY <1>1, <2>1 DEF AtWork
      <3>2. JobAgrees(b, q)
        BY <1>1, <3>1 DEF JobsAgree
      <3>3. QED
        BY <1>1, <2>1, <3>2 DEF JobAgrees
    <2>2. ASSUME AtWork(c, q), job'[c][q].st \in {"retry", "dead"}
          PROVE  JobAgrees(c, q)'
      <3>1. JobAgrees(c, q)
        BY <1>1, <2>2 DEF JobsAgree
      <3>2. QED
        BY <1>1, <2>2, <3>1 DEF JobAgrees, Running
    <2>3. ASSUME job[c][q].st \in Running, job'[c][q].deletes = job[c][q].deletes,
                 job'[c][q].st = FirstStep(job[c][q].deletes)
          PROVE  JobAgrees(c, q)'
      <3>1. JobAgrees(c, q)
        BY <1>1, <2>3 DEF JobsAgree, AtWork, Running
      <3>2. job'[c][q].st = IF job[c][q].deletes THEN "missing" ELSE "attempt"
        BY <2>3 DEF FirstStep
      <3>3. QED
        BY <1>1, <2>3, <3>1, <3>2 DEF JobAgrees
    <2>4. QED
      BY <1>1, <2>1, <2>2, <2>3 DEF AtWork
  <1>2. SettledRowsMirrorDisk'
    BY DEF SettledRowsMirrorDisk, Vouched
  <1>3. QED
    BY <1>1, <1>2 DEF JobsAgree

\* A step of one handler that has its path for itself, or whose path was
\* claimed beside another: only what it does to its own path matters.
LEMMA OwnPath ==
    ASSUME JobsAgree, SettledRowsMirrorDisk, OneBatch, Claims,
           NEW b \in Batches, NEW p \in Paths, AtWork(b, p),
           disk' = disk, crossed' = crossed,
           \A q \in Paths : q # p => table'[q] = table[q] /\ index'[q] = index[q],
           \A c \in Batches, q \in Paths : c # b \/ q # p => job'[c][q] = job[c][q],
           p \notin crossed => /\ AtWork(b, p)' => JobAgrees(b, p)'
                               /\ Vouched(p)' => index'[p] = disk'[p]
    PROVE  JobsAgree' /\ SettledRowsMirrorDisk'
  <1>1. ASSUME NEW c \in Batches, NEW q \in Paths \ crossed', AtWork(c, q)'
        PROVE  JobAgrees(c, q)'
    <2>1. CASE q # p
      <3>1. job'[c][q] = job[c][q] /\ table'[q] = table[q] /\ index'[q] = index[q]
        BY <2>1
      <3>2. JobAgrees(c, q)
        BY <1>1, <3>1 DEF JobsAgree, AtWork
      <3>3. QED
        BY <3>1, <3>2 DEF JobAgrees
    <2>2. CASE q = p /\ c = b
      BY <1>1, <2>2
    <2>3. CASE q = p /\ c # b
      <3>1. ~ AtWork(c, p)
        BY <1>1, <2>3, AloneOn
      <3>2. QED
        BY <1>1, <2>3, <3>1 DEF AtWork
    <2>4. QED
      BY <2>1, <2>2, <2>3
  <1>2. ASSUME NEW q \in Paths \ crossed', Vouched(q)'
        PROVE  index'[q] = disk'[q]
    <2>1. CASE q = p
      BY <1>2, <2>1
    <2>2. CASE q # p
      BY <1>2, <2>2 DEF SettledRowsMirrorDisk, Vouched
    <2>3. QED
      BY <2>1, <2>2
  <1>3. QED
    BY <1>1, <1>2 DEF JobsAgree, SettledRowsMirrorDisk

LEMMA JobsStep ==
    TypeOK /\ Bounds /\ OneBatch /\ Claims /\ JobsAgree /\ SettledRowsMirrorDisk
      /\ [Next]_vars
    => JobsAgree' /\ SettledRowsMirrorDisk'
  <1> DEFINE Goal == JobsAgree' /\ SettledRowsMirrorDisk'
  <1> SUFFICES ASSUME TypeOK, Bounds, OneBatch, Claims, JobsAgree,
                      SettledRowsMirrorDisk, [Next]_vars
               PROVE  Goal
    OBVIOUS
  <1> USE DEF files, queue, watcher, worker
  <1>1. ASSUME NEW p \in Paths, WriteFile(p) PROVE Goal
    <2>1. /\ disk' = [disk EXCEPT ![p] = written[p] + 1]
          /\ UNCHANGED <<index, table, job, crossed>>
      BY <1>1 DEF WriteFile
    <2>2. /\ disk'[p] = written[p] + 1
          /\ \A q \in Paths : q # p => disk'[q] = disk[q]
      BY <2>1 DEF TypeOK
    <2>3. table[p].mtime # disk'[p]
      BY <2>2 DEF TypeOK, Bounds, Row
    <2>4. ASSUME NEW c \in Batches, NEW q \in Paths \ crossed, AtWork(c, q)
          PROVE  JobAgrees(c, q)'
      <3>1. JobAgrees(c, q)
        BY <2>4 DEF JobsAgree
      <3>2. QED
        BY <2>1, <2>2, <2>3, <3>1 DEF JobAgrees
    <2>5. JobsAgree'
      BY <2>1, <2>4 DEF JobsAgree, AtWork
    <2>6. SettledRowsMirrorDisk'
      BY <2>1, <2>2, <2>3 DEF SettledRowsMirrorDisk, Vouched
    <2>7. QED
      BY <2>5, <2>6
  <1>2. ASSUME NEW p \in Paths, RemoveFile(p) PROVE Goal
    <2>1. /\ \A q \in Paths : disk'[q] \in {disk[q], 0}
          /\ UNCHANGED <<index, table, job, crossed>>
      BY <1>2 DEF TypeOK, RemoveFile
    <2>2. ASSUME NEW c \in Batches, NEW q \in Paths \ crossed, AtWork(c, q)
          PROVE  JobAgrees(c, q)'
      <3>1. JobAgrees(c, q)
        BY <2>2 DEF JobsAgree
      <3>2. QED
        BY <2>1, <3>1 DEF JobAgrees
    <2>3. JobsAgree'
      BY <2>1, <2>2 DEF JobsAgree, AtWork
    <2>4. SettledRowsMirrorDisk'
      BY <2>1 DEF SettledRowsMirrorDisk, Vouched
    <2>5. QED
      BY <2>3, <2>4
  <1>3. ASSUME \/ LoseEvent
               \/ \E d \in Procs : \/ Start(d) \/ Crash(d) \/ Exit(d)
                                   \/ Scanner(d) \/ Command(d)
               \/ Watcher
        PROVE  Goal
    <2>1. \A q \in Paths : table'[q] = table[q] \/ table'[q].status = "pending"
      BY <1>3, RowsPend
    <2>2. /\ index' = index /\ crossed' = crossed
          /\ \A c \in Batches, q \in Paths : job'[c][q].st = "none" \/ job'[c][q] = job[c][q]
      BY <1>3, HandlersLeft
    <2>3. disk' = disk
      BY <1>3 DEF LoseEvent, Start, Crash, Exit, Halt, Scanner, Walk, Snapshot, Emit,
                  Command, ForceEnqueue, FixApply, Watcher, HandleNotice, StatGone, RunTask
    <2>4. QED
      BY <2>1, <2>2, <2>3, QuietStep
  <1>4. ASSUME NEW d \in Procs, Pick(d) PROVE Goal
    BY <1>4, QuietStep DEF Pick
  <1>5. ASSUME NEW d \in Procs, UpdatePicks(d) PROVE Goal
    <2> DEFINE won == claim[d].picks \cap PendingIn(table)
    <2>1. /\ claim[d].pc = "picked" /\ UNCHANGED <<disk, index, job>>
          /\ crossed' = (crossed \ won) \cup
                {p \in won : \E b \in Batches : Owner(b) = d /\ AtWork(b, p)}
          /\ \A q \in Paths : IF q \in won THEN table'[q].status = "processing"
                                           ELSE table'[q] = table[q]
      BY <1>5 DEF UpdatePicks, TypeOK, Row, Claimed, PendingIn
    <2> HIDE DEF won
    <2>2. ASSUME NEW c \in Batches, NEW q \in Paths \ crossed', AtWork(c, q)'
          PROVE  JobAgrees(c, q)'
      <3>1. AtWork(c, q)
        BY <2>1, <2>2 DEF AtWork
      <3>2. Owner(c) = d
        <4>1. ~ NothingAtWork(c)
          BY <3>1 DEF NothingAtWork
        <4>2. QED
          BY <2>1, <4>1, OthersRest
      <3>3. q \notin won /\ q \notin crossed
        BY <2>1, <2>2, <3>1, <3>2
      <3>4. JobAgrees(c, q)
        BY <3>1, <3>3 DEF JobsAgree
      <3>5. QED
        BY <2>1, <3>3, <3>4 DEF JobAgrees
    <2>3. ASSUME NEW q \in Paths \ crossed', Vouched(q)'
          PROVE  index'[q] = disk'[q]
      <3>1. q \notin won
        BY <2>1, <2>3 DEF Vouched
      <3>2. q \notin crossed /\ table'[q] = table[q]
        BY <2>1, <2>3, <3>1
      <3>3. QED
        BY <2>1, <2>3, <3>2 DEF Vouched, SettledRowsMirrorDisk
    <2>4. QED
      BY <2>2, <2>3 DEF JobsAgree, SettledRowsMirrorDisk
  <1>6. ASSUME NEW d \in Procs, LoadBatch(d) PROVE Goal
    <2>1. /\ UNCHANGED <<disk, index, table, crossed>>
          /\ \A c \in Batches : c # d => job'[c] = job[c]
      BY <1>6 DEF TypeOK, LoadBatch
    <2>2. ASSUME NEW q \in Paths \ crossed, AtWork(d, q)'
          PROVE  JobAgrees(d, q)'
      <3>1. table[q].status = "processing" /\ job'[d][q] = NewJob(table[q])
        BY <1>6, <2>2, BatchesOwned DEF TypeOK, LoadBatch, AtWork, NoJob, Ended
      <3>2. \/ job'[d][q].st = "dead"
            \/ /\ job'[d][q].deletes <=> table[q].change = "deleted"
               /\ job'[d][q].st = IF job'[d][q].deletes THEN "missing" ELSE "attempt"
        <4>1. CASE table[q].retries >= MaxTotalRetries
          BY <3>1, <4>1 DEF NewJob, Ended
        <4>2. CASE ~ (table[q].retries >= MaxTotalRetries)
          <5> DEFINE del == table[q].change = "deleted"
          <5>1. job'[d][q] = Starts(del, 0, table[q].retries)
            BY <3>1, <4>2 DEF NewJob
          <5>2. del \in BOOLEAN /\ table[q].retries \in Nat
            BY DEF TypeOK, Row
          <5> HIDE DEF del
          <5>3. job'[d][q].st = FirstStep(del) /\ job'[d][q].deletes = del
            BY <5>1, <5>2, StartsType
          <5>4. QED
            BY <5>3 DEF FirstStep, del
        <4>3. QED
          BY <4>1, <4>2
      <3>3. QED
        BY <2>1, <3>1, <3>2 DEF JobAgrees, Running
    <2>3. ASSUME NEW c \in Batches, NEW q \in Paths \ crossed, AtWork(c, q)'
          PROVE  JobAgrees(c, q)'
      <3>1. CASE c = d
        BY <2>2, <2>3, <3>1
      <3>2. CASE c # d
        <4>1. JobAgrees(c, q)
          BY <2>1, <2>3, <3>2 DEF JobsAgree, AtWork
        <4>2. QED
          BY <2>1, <3>2, <4>1 DEF JobAgrees
      <3>3. QED
        BY <3>1, <3>2
    <2>4. SettledRowsMirrorDisk'
      BY <2>1 DEF SettledRowsMirrorDisk, Vouched
    <2>5. QED
      BY <2>1, <2>3, <2>4 DEF JobsAgree
  <1>7. ASSUME NEW b \in Batches, NEW p \in Paths, NEW j, JobGoes(b, p, j)
        PROVE  /\ job'[b][p] = j
               /\ \A c \in Batches, q \in Paths : c # b \/ q # p => job'[c][q] = job[c][q]
    BY <1>7 DEF TypeOK, JobGoes
  <1>8. ASSUME NEW b \in Batches, NEW p \in Paths, ReadFile(b, p) PROVE Goal
    <2>1. /\ job[b][p].st = "attempt" /\ job[b][p] \in Job /\ AtWork(b, p)
          /\ UNCHANGED <<disk, index, table, crossed>>
      BY <1>8 DEF TypeOK, ReadFile, AtWork
    <2> DEFINE j == [job[b][p] EXCEPT
                       !.st = IF disk[p] = 0 THEN "missing" ELSE "read", !.ver = disk[p]]
    <2>2. JobGoes(b, p, j)
      BY <1>8 DEF ReadFile
    <2>9. /\ j.st = IF disk[p] = 0 THEN "missing" ELSE "read"
          /\ j.ver = disk[p] /\ j.deletes = job[b][p].deletes
      BY <2>1 DEF Job
    <2> HIDE DEF j
    <2>3. /\ job'[b][p].st = IF disk[p] = 0 THEN "missing" ELSE "read"
          /\ job'[b][p].ver = disk[p]
          /\ job'[b][p].deletes = job[b][p].deletes
          /\ \A c \in Batches, q \in Paths : c # b \/ q # p => job'[c][q] = job[c][q]
      BY <1>7, <2>2, <2>9
    <2>4. disk[p] # 0 => disk[p] = written[p]
      BY DEF Bounds
    <2>5. p \notin crossed => JobAgrees(b, p)
      BY <2>1 DEF JobsAgree
    <2>6. p \notin crossed => JobAgrees(b, p)'
      BY <2>1, <2>3, <2>4, <2>5 DEF JobAgrees, Bounds, Running
    <2>7. p \notin crossed => ~ Vouched(p)'
      BY <2>1, <2>5 DEF JobAgrees, Vouched
    <2>8. QED
      BY <2>1, <2>3, <2>6, <2>7, OwnPath
  <1>9. ASSUME NEW b \in Batches, NEW p \in Paths, Writing(b, p) PROVE Goal
    <2>1. /\ job[b][p].st \in {"read", "upserted", "missing"} /\ job[b][p] \in Job
          /\ AtWork(b, p) /\ UNCHANGED <<disk, table, crossed>>
      BY <1>9 DEF TypeOK, Writing, UpsertRows, DeleteStaleRows, DeleteRows, AtWork
    <2>2. \A q \in Paths : q # p => index'[q] = index[q]
      BY <1>9 DEF TypeOK, Writing, UpsertRows, DeleteStaleRows, DeleteRows
    <2>3. PICK j : JobGoes(b, p, j)
      BY <1>9 DEF Writing, UpsertRows, DeleteStaleRows, DeleteRows
    <2>4. \A c \in Batches, q \in Paths : c # b \/ q # p => job'[c][q] = job[c][q]
      BY <1>7, <2>3
    <2>5. p \notin crossed => JobAgrees(b, p)
      BY <2>1 DEF JobsAgree
    <2>6. p \notin crossed => ~ Vouched(p)'
      BY <2>1, <2>5 DEF JobAgrees, Vouched
    <2>7. table[p].mtime \in Nat /\ job[b][p].ver \in Nat /\ disk[p] \in Nat
          /\ written[p] \in Nat
      BY <2>1 DEF TypeOK, Row, Job
    <2>8. job[b][p].ver <= written[p] /\ (disk[p] # 0 => disk[p] = written[p])
      BY DEF Bounds
    <2>9. ASSUME p \notin crossed, UpsertRows(b, p) PROVE JobAgrees(b, p)'
      <3>1. /\ job'[b][p].st = "upserted" /\ job'[b][p].ver = job[b][p].ver
            /\ job'[b][p].deletes = job[b][p].deletes
        BY <1>7, <2>1, <2>9 DEF UpsertRows, Job
      <3>2. index'[p] = Mixed /\ job[b][p].st = "read"
        BY <2>9 DEF TypeOK, UpsertRows
      <3>3. QED
        BY <2>1, <2>5, <2>9, <3>1, <3>2 DEF JobAgrees, Running
    <2>10. ASSUME p \notin crossed, DeleteStaleRows(b, p) PROVE JobAgrees(b, p)'
      <3>1. job'[b][p].st = "ok"
        BY <1>7, <2>10 DEF DeleteStaleRows, Ended
      <3>2. job[b][p].st = "upserted"
        BY <2>10 DEF DeleteStaleRows
      <3>3. index'[p] = job[b][p].ver
        BY <2>5, <2>10, <3>2 DEF TypeOK, DeleteStaleRows, JobAgrees
      <3>4. ASSUME table[p].status = "processing", disk[p] # 0, table[p].mtime = disk[p]
            PROVE  index'[p] = disk[p]
        <4>1. table[p].mtime <= job[b][p].ver
          BY <2>5, <2>10, <3>2, <3>4 DEF JobAgrees
        <4>2. QED
          BY <2>7, <2>8, <3>3, <3>4, <4>1
      <3>5. QED
        BY <2>1, <2>5, <2>10, <3>1, <3>4 DEF JobAgrees, Running
    <2>11. ASSUME p \notin crossed, DeleteRows(b, p) PROVE JobAgrees(b, p)'
      <3>1. job'[b][p].st = "ok" /\ job[b][p].st = "missing"
        BY <1>7, <2>11 DEF DeleteRows, Ended
      <3>2. QED
        BY <2>1, <2>5, <2>11, <3>1 DEF JobAgrees, Running
    <2>12. p \notin crossed => JobAgrees(b, p)'
      BY <1>9, <2>9, <2>10, <2>11 DEF Writing
    <2>13. QED
      BY <2>1, <2>2, <2>4, <2>6, <2>12, OwnPath
  <1>10. ASSUME NEW b \in Batches, NEW p \in Paths, TransientFailure(b, p) PROVE Goal
    <2>1. /\ job[b][p].st \in Running /\ AtWork(b, p)
          /\ UNCHANGED <<disk, index, table, crossed>>
      BY <1>10 DEF TransientFailure, Running, AtWork
    <2>2. /\ TriedAgain(job[b][p]).st = FirstStep(job[b][p].deletes)
          /\ TriedAgain(job[b][p]).deletes = job[b][p].deletes
      BY DEF TriedAgain, Starts
    <2>3. Failed(job[b][p]).st \in {"retry", "dead"}
      BY DEF Failed, Ended
    <2>4. JobGoes(b, p, TriedAgain(job[b][p])) \/ JobGoes(b, p, Failed(job[b][p]))
      BY <1>10 DEF TransientFailure
    <2>5. /\ job'[b][p] \in {TriedAgain(job[b][p]), Failed(job[b][p])}
          /\ \A c \in Batches, q \in Paths : c # b \/ q # p => job'[c][q] = job[c][q]
      BY <1>7, <2>4
    <2>6. ASSUME NEW c \in Batches, NEW q \in Paths
          PROVE  \/ job'[c][q] = job[c][q]
                 \/ AtWork(c, q) /\ job'[c][q].st \in {"retry", "dead"}
                 \/ /\ job[c][q].st \in Running
                    /\ job'[c][q].deletes = job[c][q].deletes
                    /\ job'[c][q].st = FirstStep(job[c][q].deletes)
      BY <2>1, <2>2, <2>3, <2>5
    <2>7. QED
      BY <2>1, <2>6, QuietStep
  <1>11. ASSUME NEW b \in Batches, NEW p \in Paths, PermanentFailure(b, p) PROVE Goal
    <2>1. AtWork(b, p) /\ UNCHANGED <<disk, index, table, crossed>>
      BY <1>11 DEF PermanentFailure, Running, AtWork
    <2>2. /\ job'[b][p].st = "dead"
          /\ \A c \in Batches, q \in Paths : c # b \/ q # p => job'[c][q] = job[c][q]
      BY <1>7, <1>11 DEF PermanentFailure, Ended
    <2>3. ASSUME NEW c \in Batches, NEW q \in Paths
          PROVE  \/ job'[c][q] = job[c][q]
                 \/ AtWork(c, q) /\ job'[c][q].st \in {"retry", "dead"}
      BY <2>1, <2>2
    <2>4. QED
      BY <2>1, <2>3, QuietStep
  <1>12. ASSUME NEW b \in Batches, NEW p \in Paths, Mark(b, p) PROVE Goal
    <2>1. AtWork(b, p)
      BY <1>12 DEF Mark, Verdicts, AtWork
    <2>2. /\ \A q \in Paths : q # p => table'[q] = table[q]
          /\ table[p].status # "processing" => table'[p] = table[p]
          /\ table[p].status = "processing" =>
                \/ table'[p].status = "failed"
                \/ /\ job[b][p].st = "ok"
                   /\ table'[p].change = table[p].change
                   /\ table'[p].mtime = table[p].mtime
      BY <1>12, MarkRows
    <2>3. /\ \A c \in Batches, q \in Paths : c # b \/ q # p => job'[c][q] = job[c][q]
          /\ ~ AtWork(b, p)'
          /\ UNCHANGED <<disk, index, crossed>>
      BY <1>12, MarkRows
    <2>4. p \notin crossed => JobAgrees(b, p)
      BY <2>1 DEF JobsAgree
    <2>5. p \notin crossed /\ Vouched(p)' => index'[p] = disk'[p]
      BY <2>2, <2>3, <2>4 DEF JobAgrees, Vouched
    <2>6. QED
      BY <2>1, <2>2, <2>3, <2>5, OwnPath
  <1>13. CASE ClaimFails
    BY <1>13, QuietStep DEF ClaimFails
  <1>14. CASE OtherMarkFails \/ \E b \in Batches, p \in Paths : MarkFails(b, p)
    <2>1. UNCHANGED <<disk, index, table, crossed>>
      BY <1>14 DEF OtherMarkFails, MarkFails
    <2>2. \A c \in Batches, q \in Paths : \/ job'[c][q] = NoJob
                                          \/ \E b \in Batches : job'[c][q] = job[b][q]
      BY <1>14, JobsMove
    <2>3. NoJob.st = "none"
      BY DEF NoJob, Ended
    <2>4. QED
      BY <2>1, <2>2, <2>3, QuietStep
  <1>15. CASE UNCHANGED vars
    BY <1>15, QuietStep DEF vars
  <1>16. QED
    BY <1>1, <1>2, <1>3, <1>4, <1>5, <1>6, <1>8, <1>9, <1>10, <1>11, <1>12, <1>13,
       <1>14, <1>15
    DEF Next, Environment, Claiming, Working, Exception

LEMMA InvStep == IInv /\ ~ Overlap /\ [Next]_vars => IInv'
  BY TypeStep, BoundsStep, OneBatchStep, ClaimsStep, JobsStep DEF IInv

\* The main safety property of the queue: as long as processes take turns, a
\* row that settled for the file's present mtime left the index with exactly
\* the file's content, for every number of files, processes, versions,
\* retries, crashes and failures, batches left early among them, unless the
\* path was last claimed beside a handler still at work on it.
THEOREM SettledCorrect ==
    ASSUME ~ Overlap
    PROVE  Spec => []SettledRowsMirrorDisk
  <1>1. IInv /\ [Next]_vars => IInv'
    BY InvStep
  <1>2. IInv => SettledRowsMirrorDisk
    BY DEF IInv
  <1>3. QED
    BY InvInit, <1>1, <1>2, PTL DEF Spec


-----------------------------------------------------------------------------
(* A verdict is the holder's.                                              *)

\* A row that is being processed is held by the batch that works on it, or by
\* the process that is about to load it.
Held ==
    \A p \in Paths \ crossed : table[p].status = "processing" =>
        /\ \A b \in Batches : AtWork(b, p) => holder[p] = b
        /\ \A d \in Procs : Loading(d, p) => holder[p] = d

\* Steps that take no path in hand and leave the holder of a processed row.
LEMMA HeldKept ==
    ASSUME Held, crossed' = crossed,
           \A q \in Paths : table'[q].status = "processing" =>
               table'[q] = table[q] /\ holder'[q] = holder[q],
           \A c \in Procs : claim'[c] = claim[c] \/ claim'[c].pc # "updated",
           \A b \in Batches, q \in Paths : AtWork(b, q)' => AtWork(b, q)
    PROVE  Held'
  <1> SUFFICES ASSUME NEW p \in Paths \ crossed, table'[p].status = "processing"
               PROVE  /\ \A b \in Batches : AtWork(b, p)' => holder'[p] = b
                      /\ \A d \in Procs : Loading(d, p)' => holder'[p] = d
    BY DEF Held
  <1>1. table[p].status = "processing" /\ holder'[p] = holder[p]
    OBVIOUS
  <1>2. \A d \in Procs : Loading(d, p)' => Loading(d, p)
    BY DEF Loading
  <1>3. QED
    BY <1>1, <1>2 DEF Held

LEMMA HeldStep ==
    ASSUME IInv, Held, [Next]_vars
    PROVE  Held'
  <1> USE DEF files, queue, watcher, worker
  <1>1. TypeOK /\ OneBatch /\ Claims
    BY DEF IInv
  <1>2. ASSUME \/ \E p \in Paths : WriteFile(p) \/ RemoveFile(p)
               \/ LoseEvent
               \/ \E d \in Procs : \/ Start(d) \/ Crash(d) \/ Exit(d)
                                   \/ Scanner(d) \/ Command(d)
               \/ Watcher
        PROVE  Held'
    <2>1. \A q \in Paths : \/ table'[q].status = "pending"
                           \/ /\ table'[q] = table[q]
                              /\ table[q].status = "processing" => holder'[q] = holder[q]
      BY <1>1, <1>2, RowsPend
    <2>2. /\ crossed' = crossed
          /\ \A c \in Procs : claim'[c].pc = "idle" \/ claim'[c] = claim[c]
          /\ \A b \in Batches, q \in Paths : job'[b][q].st = "none" \/ job'[b][q] = job[b][q]
      BY <1>1, <1>2, HandlersLeft
    <2>3. \A b \in Batches, q \in Paths : AtWork(b, q)' => AtWork(b, q)
      BY <2>2 DEF AtWork
    <2>4. QED
      BY <2>1, <2>2, <2>3, HeldKept
  <1>3. ASSUME NEW d \in Procs, Pick(d) PROVE Held'
    <2>1. UNCHANGED <<table, holder, crossed, job>>
      BY <1>3 DEF Pick
    <2>2. \A c \in Procs : claim'[c] = claim[c] \/ claim'[c].pc # "updated"
      BY <1>1, <1>3 DEF TypeOK, Pick
    <2>3. \A b \in Batches, q \in Paths : AtWork(b, q)' => AtWork(b, q)
      BY <2>1 DEF AtWork
    <2>4. QED
      BY <2>1, <2>2, <2>3, HeldKept
  <1>4. ASSUME NEW d \in Procs, UpdatePicks(d) PROVE Held'
    <2> DEFINE won == claim[d].picks \cap PendingIn(table)
    <2>1. /\ claim[d].pc = "picked" /\ job' = job
          /\ crossed' = (crossed \ won) \cup
                {p \in won : \E b \in Batches : Owner(b) = d /\ AtWork(b, p)}
          /\ \A q \in Paths : /\ q \in won => holder'[q] = d
                              /\ q \notin won => /\ holder'[q] = holder[q]
                                                 /\ table'[q] = table[q]
          /\ claim' = [claim EXCEPT ![d] =
                IF won = {} THEN IdleClaim ELSE [@ EXCEPT !.pc = "updated"]]
      BY <1>4 DEF UpdatePicks
    <2>2. won = claim[d].picks
      BY <1>1, <2>1 DEF Claims, PendingIn, TypeOK, Claim
    <2>3. \A c \in Procs : c # d => claim[c].pc = "idle"
      BY <1>1, <2>1 DEF OneBatch
    <2>4. claim[d] \in Claim
      BY <1>1 DEF TypeOK
    <2>5. /\ \A c \in Procs : c # d => claim'[c] = claim[c]
          /\ claim'[d].pc = "idle" \/ (claim'[d].pc = "updated" /\ claim'[d].picks = won)
      BY <1>1, <2>1, <2>2, <2>4 DEF TypeOK, IdleClaim, Claim
    <2> HIDE DEF won
    <2>6. ASSUME NEW p \in Paths \ crossed', table'[p].status = "processing",
                 NEW b \in Batches, AtWork(b, p)'
          PROVE  holder'[p] = b
      <3>1. AtWork(b, p)
        BY <2>1, <2>6 DEF AtWork
      <3>2. Owner(b) = d
        <4>1. ~ NothingAtWork(b)
          BY <3>1 DEF NothingAtWork
        <4>2. QED
          BY <1>1, <2>1, <4>1, OthersRest
      <3>3. p \notin won /\ p \notin crossed
        BY <2>1, <2>6, <3>1, <3>2
      <3>4. table[p].status = "processing" /\ holder'[p] = holder[p]
        BY <2>1, <2>6, <3>3
      <3>5. QED
        BY <3>1, <3>3, <3>4 DEF Held
    <2>7. ASSUME NEW p \in Paths, NEW c \in Procs, Loading(c, p)'
          PROVE  holder'[p] = c
      <3>1. c = d /\ p \in won
        BY <2>3, <2>5, <2>7 DEF Loading
      <3>2. QED
        BY <2>1, <3>1
    <2>8. QED
      BY <2>6, <2>7 DEF Held
  <1>5. ASSUME NEW d \in Procs, LoadBatch(d) PROVE Held'
    <2>1. /\ claim[d].pc = "updated" /\ UNCHANGED <<table, holder, crossed>>
          /\ \A c \in Procs : claim'[c] = claim[c] \/ claim'[c].pc # "updated"
      BY <1>1, <1>5 DEF TypeOK, LoadBatch, IdleClaim
    <2>2. /\ \A b \in Batches : b # d => job'[b] = job[b]
          /\ \A p \in Paths : AtWork(d, p)' => p \in claim[d].picks
      BY <1>1, <1>5, BatchesOwned DEF TypeOK, LoadBatch, AtWork, NoJob, Ended
    <2>3. ASSUME NEW p \in Paths \ crossed, table[p].status = "processing",
                 NEW b \in Batches, AtWork(b, p)'
          PROVE  holder[p] = b
      <3>1. CASE b = d
        BY <2>1, <2>2, <2>3, <3>1 DEF Held, Loading
      <3>2. CASE b # d
        BY <2>2, <2>3, <3>2 DEF Held, AtWork
      <3>3. QED
        BY <3>1, <3>2
    <2>4. \A p \in Paths, c \in Procs : Loading(c, p)' => Loading(c, p)
      BY <2>1 DEF Loading
    <2>5. QED
      BY <2>1, <2>3, <2>4 DEF Held
  <1>6. ASSUME NEW b \in Batches, NEW p \in Paths,
               \/ ReadFile(b, p) \/ Writing(b, p) \/ TransientFailure(b, p)
               \/ PermanentFailure(b, p)
        PROVE  Held'
    <2>1. PICK j : JobGoes(b, p, j)
      BY <1>6, JobSteps DEF Working
    <2>2. AtWork(b, p) /\ UNCHANGED <<claim, crossed>>
      BY <1>6, JobSteps DEF Working
    <2>3. \A c \in Batches, q \in Paths : AtWork(c, q)' => AtWork(c, q)
      BY <1>1, <2>1, <2>2 DEF TypeOK, JobGoes, AtWork
    <2>4. UNCHANGED <<table, holder>>
      BY <1>6 DEF ReadFile, Writing, UpsertRows, DeleteStaleRows, DeleteRows,
                  TransientFailure, PermanentFailure
    <2>5. QED
      BY <2>2, <2>3, <2>4, HeldKept
  <1>7. ASSUME NEW b \in Batches, NEW p \in Paths, Mark(b, p) PROVE Held'
    <2>1. /\ \A q \in Paths : q # p => table'[q] = table[q] /\ holder'[q] = holder[q]
          /\ table[p].status # "processing" => table'[p] = table[p]
          /\ table[p].status = "processing" =>
                \/ table'[p].status = "failed"
                \/ table'[p].status = "done"
      BY <1>1, <1>7, MarkRows
    <2>2. /\ \A c \in Batches, q \in Paths : c # b \/ q # p => job'[c][q] = job[c][q]
          /\ ~ AtWork(b, p)'
          /\ crossed' = crossed
      BY <1>1, <1>7, MarkRows
    <2>3. claim' = claim
      BY <1>7 DEF Mark
    <2>4. \A c \in Batches, q \in Paths : AtWork(c, q)' => AtWork(c, q)
      BY <2>2 DEF AtWork
    <2>5. \A q \in Paths : table'[q].status = "processing" =>
             table'[q] = table[q] /\ holder'[q] = holder[q]
      BY <2>1
    <2>6. QED
      BY <2>2, <2>3, <2>4, <2>5, HeldKept
  <1>8. CASE ClaimFails
    <2>1. /\ claim[Server].pc # "idle" /\ UNCHANGED <<table, crossed, job>>
          /\ \A q \in Paths : holder[q] # Server => holder'[q] = holder[q]
      BY <1>8 DEF ClaimFails
    <2>2. /\ claim'[Server].pc = "idle"
          /\ \A c \in Procs : c # Server => claim'[c] = claim[c]
      BY <1>1, <1>8, BatchesOwned DEF TypeOK, ClaimFails, IdleClaim
    <2>3. NothingAtWork(Server)
      BY <1>1, <2>1, BatchesOwned DEF OneBatch
    <2>4. ASSUME NEW p \in Paths \ crossed, table[p].status = "processing",
                 NEW b \in Batches, AtWork(b, p)'
          PROVE  holder'[p] = b
      <3>1. AtWork(b, p) /\ b # Server
        BY <2>1, <2>3, <2>4 DEF AtWork, NothingAtWork
      <3>2. QED
        BY <2>1, <2>4, <3>1 DEF Held
    <2>5. ASSUME NEW p \in Paths \ crossed, table[p].status = "processing",
                 NEW c \in Procs, Loading(c, p)'
          PROVE  holder'[p] = c
      <3>1. c # Server /\ Loading(c, p)
        BY <2>2, <2>5 DEF Loading
      <3>2. QED
        BY <2>1, <2>5, <3>1 DEF Held
    <2>6. QED
      BY <2>1, <2>4, <2>5 DEF Held
  <1>9. CASE OtherMarkFails \/ \E b \in Batches, p \in Paths : MarkFails(b, p)
    <2>1. UNCHANGED <<table, crossed, claim>>
      BY <1>9 DEF OtherMarkFails, MarkFails
    <2>2. \A q \in Paths, c \in Procs : Loading(c, q)' => Loading(c, q)
      BY <2>1 DEF Loading
    <2>3. ASSUME NEW p \in Paths, JobGoes(Left, p, NoJob),
                 holder' = [holder EXCEPT ![p] = IF @ = Left THEN None ELSE @]
          PROVE  Held'
      <3>1. /\ job'[Left][p].st = "none"
            /\ \A c \in Batches, q \in Paths : c # Left \/ q # p => job'[c][q] = job[c][q]
        BY <1>1, <2>3, BatchesOwned DEF TypeOK, JobGoes, NoJob, Ended
      <3>2. \A q \in Paths : q # p \/ holder[q] # Left => holder'[q] = holder[q]
        BY <1>1, <2>3 DEF TypeOK
      <3>3. ASSUME NEW q \in Paths \ crossed, table[q].status = "processing",
                   NEW c \in Batches, AtWork(c, q)'
            PROVE  holder'[q] = c
        <4>1. AtWork(c, q) /\ (c # Left \/ q # p)
          BY <3>1, <3>3 DEF AtWork
        <4>2. QED
          BY <3>2, <3>3, <4>1 DEF Held
      <3>4. ASSUME NEW q \in Paths \ crossed, table[q].status = "processing",
                   NEW c \in Procs, Loading(c, q)'
            PROVE  holder'[q] = c
        BY <2>2, <3>2, <3>4, BatchesOwned DEF Held
      <3>5. QED
        BY <2>1, <3>3, <3>4 DEF Held
    <2>4. ASSUME NEW rest \in [Paths -> Job], Leave(rest),
                 \E p \in Paths : AtWork(Server, p),
                 \A q \in Paths : rest[q] = job[Server][q] \/ rest[q] = NoJob
          PROVE  Held'
      <3>1. /\ \A c \in Procs \ {Server} : job'[c] = job[c]
            /\ \A q \in Paths : job'[Server][q] = NoJob
            /\ \A q \in Paths :
                  job'[Left][q] = IF AtWork(Left, q) THEN job[Left][q] ELSE rest[q]
        BY <1>1, <2>4, LeaveJobs
      <3>2. \A q \in Paths : /\ holder[q] # Server => holder'[q] = holder[q]
                             /\ holder[q] = Server /\ rest[q].st # "none" => holder'[q] = Left
        BY <2>4 DEF Leave
      <3>3. NoJob.st = "none"
        BY DEF NoJob, Ended
      <3>4. ASSUME NEW q \in Paths \ crossed, table[q].status = "processing",
                   NEW c \in Batches, AtWork(c, q)'
            PROVE  holder'[q] = c
        <4>1. CASE c \in Procs \ {Server}
          <5>1. AtWork(c, q)
            BY <3>1, <3>4, <4>1 DEF AtWork
          <5>2. QED
            BY <3>2, <3>4, <4>1, <5>1 DEF Held
        <4>2. CASE c = Server
          BY <3>1, <3>3, <3>4, <4>2 DEF AtWork
        <4>3. CASE c = Left /\ AtWork(Left, q)
          BY <3>2, <3>4, <4>3, BatchesOwned DEF Held
        <4>4. CASE c = Left /\ ~ AtWork(Left, q)
          <5>1. rest[q].st # "none"
            BY <3>1, <3>4, <4>4 DEF AtWork
          <5>2. AtWork(Server, q)
            BY <2>4, <3>3, <5>1 DEF AtWork
          <5>3. holder[q] = Server
            BY <3>4, <5>2, BatchesOwned DEF Held
          <5>4. QED
            BY <3>2, <4>4, <5>1, <5>3
        <4>5. QED
          BY <4>1, <4>2, <4>3, <4>4 DEF Batches
      <3>5. claim[Server].pc = "idle"
        BY <1>1, <2>4, BatchesOwned DEF OneBatch, NothingAtWork
      <3>6. ASSUME NEW q \in Paths \ crossed, table[q].status = "processing",
                   NEW c \in Procs, Loading(c, q)'
            PROVE  holder'[q] = c
        <4>1. Loading(c, q) /\ c # Server
          BY <2>2, <3>5, <3>6 DEF Loading
        <4>2. QED
          BY <3>2, <3>6, <4>1 DEF Held
      <3>7. QED
        BY <2>1, <3>4, <3>6 DEF Held
    <2>5. QED
      BY <1>1, <1>9, <2>3, <2>4, MarkFailsCases
  <1>10. CASE UNCHANGED vars
    <2>1. \A b \in Batches, q \in Paths : AtWork(b, q)' => AtWork(b, q)
      BY <1>10 DEF vars, AtWork
    <2>2. QED
      BY <1>10, <2>1, HeldKept DEF vars
  <1>11. QED
    BY <1>2, <1>3, <1>4, <1>5, <1>6, <1>7, <1>8, <1>9, <1>10
    DEF Next, Environment, Claiming, Working, Exception

\* Only a verdict makes a row done or failed.
LEMMA RowsEndByMark ==
    ASSUME TypeOK, [Next]_vars, ~ \E b \in Batches, p \in Paths : Mark(b, p),
           NEW q \in Paths
    PROVE  table'[q] = table[q] \/ table'[q].status \notin {"done", "failed"}
  <1> DEFINE Goal == table'[q] = table[q] \/ table'[q].status \notin {"done", "failed"}
  <1> USE DEF queue
  <1>1. ASSUME \/ \E p \in Paths : WriteFile(p) \/ RemoveFile(p)
               \/ LoseEvent
               \/ \E d \in Procs : \/ Start(d) \/ Crash(d) \/ Exit(d)
                                   \/ Scanner(d) \/ Command(d) \/ Pick(d) \/ LoadBatch(d)
               \/ Watcher
        PROVE  Goal
    <2>1. table'[q] = table[q] \/ table'[q].status = "pending"
      BY <1>1, RowsPend
    <2>2. QED
      BY <2>1
  <1>2. ASSUME NEW d \in Procs, UpdatePicks(d) PROVE Goal
    BY <1>2 DEF UpdatePicks, TypeOK, Row, Claimed, PendingIn
  <1>3. ASSUME NEW b \in Batches, NEW p \in Paths,
               \/ Working(b, p) \/ TransientFailure(b, p) \/ PermanentFailure(b, p)
               \/ MarkFails(b, p)
        PROVE  Goal
    BY <1>3 DEF Working, ReadFile, Writing, UpsertRows, DeleteStaleRows, DeleteRows,
                TransientFailure, PermanentFailure, MarkFails
  <1>4. CASE ClaimFails \/ OtherMarkFails
    BY <1>4 DEF ClaimFails, OtherMarkFails
  <1>5. CASE UNCHANGED vars
    BY <1>5 DEF vars
  <1>6. QED
    BY <1>1, <1>2, <1>3, <1>4, <1>5 DEF Next, Environment, Claiming, Exception

\* mark_done and mark_failed (md_change_state.py): while processes take turns, a
\* row ends only by the verdict of a handler of the claim that holds it, be its
\* batch awaited or left behind, and the row was not re-enqueued since.
THEOREM VerdictsCorrect ==
    ASSUME ~ Overlap
    PROVE  Spec => StaleVerdictsLose
  <1> DEFINE Ours == \A p \in Paths \ crossed :
                       /\ table'[p] # table[p]
                       /\ table'[p].status \in {"done", "failed"}
                       => \E b \in Batches : /\ holder[p] = b
                                             /\ table[p].status = "processing"
                                             /\ AtWork(b, p)
                                             /\ ~ AtWork(b, p)'
  <1>1. ASSUME IInv, Held, [Next]_vars PROVE [Ours]_<<table, job>>
    <2>1. TypeOK
      BY <1>1 DEF IInv
    <2>2. ASSUME NEW b \in Batches, NEW p \in Paths, Mark(b, p) PROVE Ours
      <3>1. /\ \A q \in Paths : q # p => table'[q] = table[q]
            /\ table[p].status # "processing" => table'[p] = table[p]
            /\ ~ AtWork(b, p)'
        BY <2>1, <2>2, MarkRows
      <3>2. AtWork(b, p)
        BY <2>2 DEF Mark, Verdicts, AtWork
      <3>3. p \notin crossed /\ table[p].status = "processing" => holder[p] = b
        BY <1>1, <3>2 DEF Held
      <3>4. QED
        BY <3>1, <3>2, <3>3
    <2>3. CASE ~ \E b \in Batches, p \in Paths : Mark(b, p)
      <3>1. \A q \in Paths : table'[q] = table[q] \/ table'[q].status \notin {"done", "failed"}
        BY <1>1, <2>1, <2>3, RowsEndByMark
      <3>2. QED
        BY <3>1
    <2>4. QED
      BY <2>2, <2>3
  <1>2. IInv /\ [Next]_vars => IInv'
    BY InvStep
  <1>3. Init => Held
    BY DEF Init, Held, NoRow
  <1>4. IInv /\ Held /\ [Next]_vars => Held'
    BY HeldStep
  <1>5. QED
    BY InvInit, <1>1, <1>2, <1>3, <1>4, PTL DEF Spec, StaleVerdictsLose

-----------------------------------------------------------------------------
(* The cascade implements Projection.                                      *)

\* A step that re-enqueues p withdraws the vouching for p at most.
LEMMA UpsertWithdraws ==
    ASSUME TypeOK, NEW p \in Paths, NEW change \in ChangeType, NEW m \in Nat,
           DoUpsert(p, change, m), UNCHANGED <<disk, index, crossed>>
    PROVE  Vouches!Withdraw(p)
  <1>1. /\ table'[p].status = "pending"
        /\ \A q \in Paths : q # p => table'[q] = table[q]
    BY DEF TypeOK, DoUpsert, Upserted
  <1>2. QED
    BY <1>1 DEF Vouches!Withdraw, Vouched

\* A path is vouched for as before if its row and its claim's history stay, or
\* if its row was not done and is not.
LEMMA VouchedKept ==
    ASSUME disk' = disk,
           \A q \in Paths : \/ table'[q] = table[q] /\ (q \in crossed' <=> q \in crossed)
                            \/ table[q].status # "done" /\ table'[q].status # "done"
    PROVE  {p \in Paths \ crossed' : Vouched(p)'} = {p \in Paths \ crossed : Vouched(p)}
  BY DEF Vouched

\* Rows that change without ever being done leave the vouching alone.
LEMMA NothingVouched ==
    ASSUME UNCHANGED <<disk, index>>,
           \A q \in Paths : \/ table'[q] = table[q] /\ (q \in crossed' <=> q \in crossed)
                            \/ table[q].status # "done" /\ table'[q].status # "done"
    PROVE  UNCHANGED Vouches!vars
  BY VouchedKept DEF Vouches!vars

LEMMA ProjectionStep ==
    ASSUME IInv, [Next]_vars
    PROVE  [Vouches!Next]_(Vouches!vars)
  <1> DEFINE Goal == [Vouches!Next]_(Vouches!vars)
  <1> USE DEF files, queue, watcher, worker
  <1>0. TypeOK /\ Bounds /\ JobsAgree
    BY DEF IInv
  <1>1. ASSUME NEW p \in Paths, WriteFile(p) \/ RemoveFile(p) PROVE Goal
    <2>1. /\ disk' \in [Paths -> Nat]
          /\ \A q \in Paths \ {p} : disk'[q] = disk[q]
          /\ UNCHANGED <<index, table, crossed>>
      <3>1. CASE WriteFile(p)
        <4>1. written[p] + 1 \in Nat
          BY <1>0 DEF TypeOK
        <4>2. QED
          BY <1>0, <3>1, <4>1 DEF TypeOK, WriteFile
      <3>2. CASE RemoveFile(p)
        BY <1>0, <3>2 DEF TypeOK, RemoveFile
      <3>3. QED
        BY <1>1, <3>1, <3>2
    <2>2. ~ Vouched(p)'
      <3>1. CASE RemoveFile(p)
        BY <1>0, <3>1 DEF TypeOK, RemoveFile, Vouched
      <3>2. CASE WriteFile(p)
        <4>1. disk'[p] = written[p] + 1
          BY <1>0, <3>2 DEF TypeOK, WriteFile
        <4>2. table[p].mtime # disk'[p]
          BY <1>0, <4>1 DEF TypeOK, Bounds, Row
        <4>3. QED
          BY <2>1, <4>2 DEF Vouched
      <3>3. QED
        BY <1>1, <3>1, <3>2
    <2>3. \A q \in Paths \ {p} : Vouched(q)' <=> Vouched(q)
      BY <2>1 DEF Vouched
    <2>4. Vouches!Change(p)
      BY <2>1, <2>2, <2>3 DEF Vouches!Change
    <2>5. QED
      BY <2>4 DEF Vouches!Next
  <1>2. ASSUME \/ LoseEvent
               \/ \E d \in Procs : \/ Crash(d) \/ Exit(d) \/ Walk(d) \/ Snapshot(d)
                                   \/ Pick(d) \/ LoadBatch(d)
               \/ HandleNotice \/ \E p \in gone : StatGone(p)
               \/ ClaimFails \/ OtherMarkFails
               \/ \E b \in Batches, p \in Paths :
                     \/ ReadFile(b, p) \/ TransientFailure(b, p)
                     \/ PermanentFailure(b, p) \/ MarkFails(b, p)
               \/ UNCHANGED vars
        PROVE  Goal
    <2>1. UNCHANGED <<disk, index, table, crossed>>
      BY <1>2 DEF LoseEvent, Crash, Exit, Halt, Walk, Snapshot, Pick, LoadBatch,
                  HandleNotice, StatGone, ClaimFails, OtherMarkFails, ReadFile,
                  TransientFailure, PermanentFailure, MarkFails, vars
    <2>2. QED
      BY <2>1, NothingVouched
  <1>3. ASSUME NEW d \in Procs, Start(d) PROVE Goal
    <2>1. \A q \in Paths : \/ table'[q] = table[q]
                           \/ table[q].status # "done" /\ table'[q].status # "done"
      <3>1. \A q \in Paths : table'[q] = table[q] \/ table'[q] = Recovered(table[q])
        BY <1>3 DEF Start
      <3>2. QED
        BY <1>0, <3>1 DEF TypeOK, Row, Recovered
    <2>2. UNCHANGED <<disk, index, crossed>>
      BY <1>3 DEF Start
    <2>3. QED
      BY <2>1, <2>2, NothingVouched
  <1>4. ASSUME NEW t \in tasks, RunTask(t) PROVE Goal
    <2>1. t \in Enqueue
      BY <1>0 DEF TypeOK
    <2>2. Vouches!Withdraw(t.path)
      BY <1>0, <1>4, <2>1, UpsertWithdraws DEF RunTask, Enqueue
    <2>3. QED
      BY <2>1, <2>2 DEF Vouches!Next, Enqueue
  <1>5. ASSUME NEW d \in Procs, NEW e \in scan[d].plan, Emit(d, e) PROVE Goal
    <2>1. e \in Enqueue
      BY <1>0 DEF TypeOK, Scan
    <2>2. Vouches!Withdraw(e.path)
      BY <1>0, <1>5, <2>1, UpsertWithdraws DEF Emit, Enqueue
    <2>3. QED
      BY <2>1, <2>2 DEF Vouches!Next, Enqueue
  <1>6. ASSUME NEW d \in Procs, FixApply(d) PROVE Goal
    <2>1. \A q \in Paths : \/ table'[q] = table[q]
                           \/ table[q].status # "done" /\ table'[q].status # "done"
      BY <1>0, <1>6 DEF TypeOK, Row, FixApply, Refixed
    <2>2. UNCHANGED <<disk, index, crossed>>
      BY <1>6 DEF FixApply
    <2>3. QED
      BY <2>1, <2>2, NothingVouched
  <1>7. ASSUME NEW d \in Procs, NEW p \in Paths, ForceEnqueue(d, p) PROVE Goal
    <2>1. Vouches!Withdraw(p)
      BY <1>0, <1>7, UpsertWithdraws DEF ForceEnqueue, ChangeType
    <2>2. QED
      BY <2>1 DEF Vouches!Next
  <1>8. ASSUME NEW d \in Procs, UpdatePicks(d) PROVE Goal
    <2> DEFINE won == claim[d].picks \cap PendingIn(table)
    <2>1. /\ UNCHANGED <<disk, index>>
          /\ crossed' = (crossed \ won) \cup
                {p \in won : \E b \in Batches : Owner(b) = d /\ AtWork(b, p)}
          /\ \A q \in Paths :
                IF q \in won THEN table[q].status = "pending" /\ table'[q].status = "processing"
                             ELSE table'[q] = table[q]
      BY <1>0, <1>8 DEF UpdatePicks, TypeOK, Row, Claimed, PendingIn
    <2> HIDE DEF won
    <2>2. \A q \in Paths : q \notin won => table'[q] = table[q] /\ (q \in crossed' <=> q \in crossed)
      BY <2>1
    <2>3. \A q \in Paths : q \in won => table[q].status # "done" /\ table'[q].status # "done"
      BY <2>1
    <2>4. QED
      BY <2>1, <2>2, <2>3, NothingVouched
  <1>9. ASSUME NEW b \in Batches, NEW p \in Paths, Writing(b, p) PROVE Goal
    <2>1. /\ AtWork(b, p) /\ UNCHANGED <<disk, table, crossed>>
          /\ \A q \in Paths \ {p} : index'[q] = index[q]
      BY <1>0, <1>9 DEF TypeOK, Writing, UpsertRows, DeleteStaleRows, DeleteRows, AtWork
    <2>2. p \notin crossed => ~ Vouched(p)
      BY <1>0, <2>1 DEF JobsAgree, JobAgrees, Vouched
    <2>3. index' \in [Paths -> Nat \cup {Mixed}]
      BY <1>0, TypeStep DEF TypeOK
    <2>4. \A q \in Paths : Vouched(q)' <=> Vouched(q)
      BY <2>1 DEF Vouched
    <2>5. Vouches!Reindex(p)
      BY <2>1, <2>2, <2>3, <2>4 DEF Vouches!Reindex
    <2>6. QED
      BY <2>5 DEF Vouches!Next
  <1>10. ASSUME NEW b \in Batches, NEW p \in Paths, Mark(b, p) PROVE Goal
    <2>1. /\ UNCHANGED <<disk, index, crossed>>
          /\ \A q \in Paths : q # p => table'[q] = table[q]
          /\ table[p].status # "processing" => table'[p] = table[p]
          /\ table[p].status = "processing" =>
                \/ table'[p].status = "failed"
                \/ /\ job[b][p].st = "ok" /\ table'[p].status = "done"
                   /\ table'[p].change = table[p].change
                   /\ table'[p].mtime = table[p].mtime
      BY <1>0, <1>10, MarkRows
    <2>2. CASE \/ p \in crossed \/ table[p].status # "processing" \/ ~ Vouched(p)'
      <3>1. {q \in Paths \ crossed' : Vouched(q)'} = {q \in Paths \ crossed : Vouched(q)}
        BY <2>1, <2>2 DEF Vouched
      <3>2. QED
        BY <2>1, <3>1 DEF Vouches!vars
    <2>3. CASE p \notin crossed /\ table[p].status = "processing" /\ Vouched(p)'
      <3>1. /\ job[b][p].st = "ok" /\ table'[p].change = table[p].change
            /\ table'[p].mtime = table[p].mtime
        BY <2>1, <2>3 DEF Vouched
      <3>2. JobAgrees(b, p)
        BY <1>0, <2>3, <3>1 DEF JobsAgree, AtWork
      <3>3. disk[p] # 0 /\ index[p] = disk[p]
        BY <2>1, <2>3, <3>1, <3>2 DEF Vouched, JobAgrees
      <3>4. \A q \in Paths \ {p} : Vouched(q)' <=> Vouched(q)
        BY <2>1 DEF Vouched
      <3>5. Vouches!Vouch(p)
        BY <2>1, <2>3, <3>3, <3>4 DEF Vouches!Vouch
      <3>6. QED
        BY <3>5 DEF Vouches!Next
    <2>4. QED
      BY <2>2, <2>3
  <1>11. QED
    BY <1>1, <1>2, <1>3, <1>4, <1>5, <1>6, <1>7, <1>8, <1>9, <1>10
    DEF Next, Environment, Watcher, Scanner, Command, Claiming, Working, Exception

\* Seen from the files, the index and the set of settled paths alone, the
\* cascade is the abstract projection.
THEOREM ProjectionCorrect ==
    ASSUME ~ Overlap
    PROVE  Spec => ImplementsProjection
  <1>1. Init => Vouches!Init
    BY DEF Init, Vouches!Init, Vouched, NoRow
  <1>2. IInv /\ [Next]_vars => IInv'
    BY InvStep
  <1>3. IInv /\ [Next]_vars => [Vouches!Next]_(Vouches!vars)
    BY ProjectionStep
  <1>4. QED
    BY InvInit, <1>1, <1>2, <1>3, PTL
    DEF Spec, ImplementsProjection, Vouches!Spec
=============================================================================
