------------------------------ MODULE DailyLog ------------------------------
(***************************************************************************)
(* One daily markdown file (one path) and the asyncio tasks of the server  *)
(* that write to it: BaseDailyWriter.append_entries (memorize pipelines,   *)
(* offline strategies) and MarkdownWriter.patch_frontmatter (reflection).  *)
(*                                                                         *)
(* Both are a read-modify-write of the whole file that awaits between its  *)
(* steps, under an asyncio.Lock that belongs to one MarkdownWriter OBJECT: *)
(* Writer says which object each task writes through.  The server builds    *)
(* two EpisodeWriters for one file, and nothing orders their tasks.         *)
(***************************************************************************)
EXTENDS Naturals, Sequences, Functions

CONSTANTS
    Tasks,      \* asyncio tasks that write this file
    Writers,    \* the MarkdownWriter objects of the process
    Writer,     \* the object each task writes through
    Cancelled,  \* the tasks that run under memorize's asyncio.timeout
    Nobody,     \* nobody
    MaxJobs,    \* bound: writes asked for
    MaxItems    \* bound: entries of one append_entries call

ASSUME WriterAssumption ==
    /\ Writer \in [Tasks -> Writers]
    /\ Nobody \notin Tasks
    /\ Cancelled \subseteq Tasks
ASSUME BoundAssumption == MaxJobs \in Nat /\ MaxItems \in Nat

VARIABLES
    file,       \* the file on disk: entry_count, entry blocks, deprecated_entries
    lock,       \* the holder of each writer's lock for this path
    task,       \* what each task is doing
    made,       \* jobs asked for so far
    reported,   \* entries whose id a caller has received
    settled,    \* marks whose patch returned
    adrift,     \* calls cut while a thread ran their os.replace
    raced       \* history: a write replaced the file after others had passed it

dailyVars == <<file, lock, task, made, reported, settled, adrift, raced>>

Entry == [seq : Nat, by : Nat]
File == [count : Nat, entries : Seq(Entry), marks : SUBSET Nat]
\* An append has items and no mark; a patch has no item and one mark.
Job == [no : Nat, items : Nat, marks : SUBSET Nat]
WriterPhase == {"idle", "queued", "locked", "counted", "merged", "replaced"}
\* base: the count ids are allocated from; copy: the file as it was read; passed
\* (history): the file was replaced since it was first read, by a task of another
\* writer object or by a call that was cut.
Task == [pc : WriterPhase, job : Job, base : Nat, copy : File, passed : BOOLEAN]

Missing == [count |-> 0, entries |-> <<>>, marks |-> {}]
NoJob == [no |-> 0, items |-> 0, marks |-> {}]
Resting == [pc |-> "idle", job |-> NoJob, base |-> 0, copy |-> Missing, passed |-> FALSE]

IsAppend(job) == job.items > 0

\* The blocks a job adds: EntryId.next_for(base + i) for its i-th item.
Blocks(job, base) == [i \in 1..job.items |-> [seq |-> base + i, by |-> job.no]]

\* If patch_frontmatter wrote only its updates, and dropped the other fields.
MergedOverFields(copy, job, base) ==
    [count |-> IF IsAppend(job) THEN base + job.items ELSE Nobody,
     entries |-> copy.entries \o Blocks(job, base),
     marks |-> copy.marks \cup job.marks]

\* If an append wrote the entry_count it read.
MergedKeepingCount(copy, job, base) ==
    [count |-> base,
     entries |-> copy.entries \o Blocks(job, base),
     marks |-> copy.marks \cup job.marks]

\* The content write() is given: what was read, with the job's changes.
Merged(copy, job, base) ==
    [count |-> base + job.items,
     entries |-> copy.entries \o Blocks(job, base),
     marks |-> copy.marks \cup job.marks]

DailyInit ==
    /\ file = Missing
    /\ lock = [w \in Writers |-> Nobody]
    /\ task = [t \in Tasks |-> Resting]
    /\ made = 0
    /\ reported = {}
    /\ settled = {}
    /\ adrift = {}
    /\ raced = FALSE

-----------------------------------------------------------------------------

AskFor(t, job) ==
    /\ task[t].pc = "idle"
    /\ made < MaxJobs
    /\ made' = made + 1
    /\ task' = [task EXCEPT ![t] = [Resting EXCEPT !.pc = "queued", !.job = job]]
    /\ UNCHANGED <<file, lock, reported, settled, adrift, raced>>

\* append_entries(scope_id, items) of a daily writer.
AskAppend(t) ==
    \E n \in 1..MaxItems : AskFor(t, [no |-> made + 1, items |-> n, marks |-> {}])

\* Reflection deprecates an episode it found in the index: one that was reported.
AskPatch(t) ==
    \E e \in reported : AskFor(t, [no |-> made + 1, items |-> 0, marks |-> {e.seq}])

\* If the read-modify-write ran without the lock.
AcquireNothing(t) ==
    /\ task[t].pc = "queued"
    /\ task' = [task EXCEPT ![t].pc = "locked"]
    /\ UNCHANGED <<file, lock, made, reported, settled, adrift, raced>>

\* async with self._writer.lock_for(path).  The lock is FIFO; any order is allowed here.
Acquire(t) ==
    /\ task[t].pc = "queued"
    /\ lock[Writer[t]] = Nobody
    /\ lock' = [lock EXCEPT ![Writer[t]] = t]
    /\ task' = [task EXCEPT ![t].pc = "locked"]
    /\ UNCHANGED <<file, made, reported, settled, adrift, raced>>

\* base_count = await self._current_count(path): the first read of an append.
ReadCount(t) ==
    /\ task[t].pc = "locked"
    /\ IsAppend(task[t].job)
    /\ task' = [task EXCEPT ![t].pc = "counted", ![t].base = file.count]
    /\ UNCHANGED <<file, lock, made, reported, settled, adrift, raced>>

\* _append_entries_unlocked reads the file a second time.
ReadForAppend(t) ==
    /\ task[t].pc = "counted"
    /\ task' = [task EXCEPT ![t].pc = "merged", ![t].copy = file]
    /\ UNCHANGED <<file, lock, made, reported, settled, adrift, raced>>

\* patch_frontmatter reads the raw file; its entry_count is left as it was read.
ReadForPatch(t) ==
    /\ task[t].pc = "locked"
    /\ ~IsAppend(task[t].job)
    /\ task' = [task EXCEPT ![t].pc = "merged", ![t].base = file.count, ![t].copy = file]
    /\ UNCHANGED <<file, lock, made, reported, settled, adrift, raced>>

\* A task that has read the file and not replaced it yet.
Reading(t) == task[t].pc \in {"counted", "merged"}

\* The tasks, once those of S that are reading have been passed by a replace.
Passed(S) ==
    [t \in Tasks |->
        IF t \in S /\ Reading(t) THEN [task[t] EXCEPT !.passed = TRUE] ELSE task[t]]

\* The calls of A that were cut, once a replace has passed them.
PassedAdrift(A) == {[a EXCEPT !.passed = TRUE] : a \in A}

\* write(): the staged file is moved onto the path with os.replace.
Replace(t) ==
    /\ task[t].pc = "merged"
    /\ file' = Merged(task[t].copy, task[t].job, task[t].base)
    /\ task' = [Passed({u \in Tasks : Writer[u] # Writer[t]}) EXCEPT ![t].pc = "replaced"]
    /\ adrift' = PassedAdrift(adrift)
    /\ raced' = (raced \/ task[t].passed)
    /\ UNCHANGED <<lock, made, reported, settled>>

\* The os.replace of a call that was cut: its thread finishes when it finishes, and
\* the lock it was called under may be another task's by now.
Land(a) ==
    /\ file' = Merged(a.copy, a.job, a.base)
    /\ task' = Passed(Tasks)
    /\ adrift' = PassedAdrift(adrift \ {a})
    /\ raced' = (raced \/ a.passed)
    /\ UNCHANGED <<lock, made, reported, settled>>

\* The lock of a task that leaves the locked section, by return or by exception.
Released(t) == [w \in Writers |-> IF lock[w] = t THEN Nobody ELSE lock[w]]

\* The call returns its entry ids; async with releases the lock.
Return(t) ==
    /\ task[t].pc = "replaced"
    /\ reported' = reported \cup Range(Blocks(task[t].job, task[t].base))
    /\ settled' = settled \cup task[t].job.marks
    /\ lock' = Released(t)
    /\ task' = [task EXCEPT ![t] = Resting]
    /\ UNCHANGED <<file, made, adrift, raced>>

\* An OSError, or a cancellation at an await.  asyncio's cancellation does not wait
\* for a worker thread (anyio shields only its own), so the lock of a call cut
\* during os.replace is released while the replace goes on.
Abort(t) ==
    /\ task[t].pc # "idle"
    /\ lock' = Released(t)
    /\ task' = [task EXCEPT ![t] = Resting]
    /\ \/ adrift' = adrift
       \/ /\ t \in Cancelled
          /\ task[t].pc = "merged"
          /\ adrift' = adrift \cup {task[t]}
    /\ UNCHANGED <<file, made, reported, settled, raced>>

\* The server dies: locks, tasks and threads are gone, the file stays.
Crash ==
    /\ lock' = [w \in Writers |-> Nobody]
    /\ task' = [t \in Tasks |-> Resting]
    /\ adrift' = {}
    /\ UNCHANGED <<file, made, reported, settled, raced>>

Step(t) ==
    \/ AskAppend(t) \/ AskPatch(t)
    \/ Acquire(t)
    \/ ReadCount(t) \/ ReadForAppend(t) \/ ReadForPatch(t)
    \/ Replace(t) \/ Return(t) \/ Abort(t)

DailyNext ==
    \/ Crash
    \/ \E t \in Tasks : Step(t)
    \/ \E a \in adrift : Land(a)

DailySpec == DailyInit /\ [][DailyNext]_dailyVars

-----------------------------------------------------------------------------
(* Properties *)

\* Every variable has its type, and no job was made past the bound.
DailyTypeOK ==
    /\ file \in File
    /\ lock \in [Writers -> Tasks \cup {Nobody}]
    /\ task \in [Tasks -> Task]
    /\ made \in 0..MaxJobs
    /\ reported \subseteq Entry
    /\ settled \subseteq Nat
    /\ adrift \subseteq Task
    /\ raced \in BOOLEAN

\* An entry or a mark leaves the file only in a lost update of one of two kinds: the
\* write that drops it read the file before a task of another writer object, or a
\* call that was cut, replaced it.  Tasks of one writer never lose each other's
\* writes, however they interleave and wherever they are cut (writer.py: the lock
\* "is held across the entire read-modify-write sequence").
Kept == Range(file.entries) \subseteq Range(file'.entries) /\ file.marks \subseteq file'.marks

PassedWrite ==
    \/ \E t \in Tasks : task[t].passed /\ Replace(t)
    \/ \E a \in adrift : a.passed /\ Land(a)

OnlyPassedWritesDrop == [][Kept \/ PassedWrite]_file

\* "eliminating the read-modify-write race that previously allowed concurrent callers to
\* silently overwrite each other's appends" (writers/base.py:98-99): no write drops
\* anything.  With the two writer objects of the server, or a call that is cut, one does.
NothingOverwritten == [][Kept]_file

\* Until a write lands that others had passed, the file is an EntryLog: every write of
\* the path appends its blocks, numbered from the number of entries the file has at
\* that moment, and drops nothing; so ids are never handed out twice, entry_count
\* never drifts from the blocks, and what a caller was told of is there.
Log == INSTANCE EntryLog WITH
    Jobs <- 1..MaxJobs,
    entries <- file.entries,
    marks <- file.marks

ImplementsEntryLog == Log!Spec

-----------------------------------------------------------------------------
(* Why: what holds between the steps of a read-modify-write *)

\* A call that has what r has: its job was asked for.
AskedFor(r) ==
    /\ r.job.no \in 1..MaxJobs
    /\ r.job.items \in 0..MaxItems
    /\ IsAppend(r.job) <=> r.job.marks = {}

JobsInHand ==
    /\ \A t \in Tasks : task[t].pc # "idle" => AskedFor(task[t])
    /\ \A t \in Tasks : task[t].pc = "counted" => IsAppend(task[t].job)
    /\ \A a \in adrift : AskedFor(a)

\* A task past Acquire holds the lock of its writer.
Holds ==
    \A t \in Tasks :
        task[t].pc \in {"locked", "counted", "merged", "replaced"} => lock[Writer[t]] = t

\* What a call has read is still what the file holds, if nobody has passed it.
ReadsAreFresh ==
    /\ \A t \in Tasks : Reading(t) /\ ~ task[t].passed => task[t].base = file.count
    /\ \A t \in Tasks : task[t].pc = "merged" /\ ~ task[t].passed => task[t].copy = file
    /\ \A a \in adrift : ~ a.passed => a.base = file.count /\ a.copy = file

\* entry_count is the number of entry blocks.
Counts == raced \/ file.count = Len(file.entries)

\* What a task is about to report is in the file.
WritesAreThere ==
    raced \/ \A t \in Tasks :
        task[t].pc = "replaced" =>
            /\ Range(Blocks(task[t].job, task[t].base)) \subseteq Range(file.entries)
            /\ task[t].job.marks \subseteq file.marks

\* What a caller was told of is in the file.
ReportedWritesStay ==
    raced \/ (reported \subseteq Range(file.entries) /\ settled \subseteq file.marks)

DailyIInv ==
    /\ DailyTypeOK
    /\ JobsInHand
    /\ Holds
    /\ ReadsAreFresh
    /\ Counts
    /\ WritesAreThere
    /\ ReportedWritesStay

=============================================================================
