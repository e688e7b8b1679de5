---------------------------- MODULE MarkdownProofs ----------------------------
(***************************************************************************)
(* The markdown files of the server, proved about for any number of tasks, *)
(* runs, items and faults.                                                 *)
(* The daily logs: nothing leaves a file but by the two lost updates that  *)
(* the lock of one MarkdownWriter cannot exclude, and until the first one  *)
(* the file is an EntryLog.                                                *)
(* What `cascade backfill` makes of the files: no vector of another text,  *)
(* no item clustered twice, no lesson lost from SKILL.md, and an exit code *)
(* 0 that means what it says.                                              *)
(***************************************************************************)
EXTENDS DailyLog, Backfill, FiniteSetTheorems, SequenceTheorems, TLAPS


-----------------------------------------------------------------------------
(* Data *)

\* The blocks of a job are entries, as many as the job has items.
LEMMA BlocksType ==
    ASSUME NEW job \in Job, NEW base \in Nat
    PROVE  /\ Blocks(job, base) \in Seq(Entry)
           /\ Len(Blocks(job, base)) = job.items
           /\ Range(Blocks(job, base)) \subseteq Entry
  <1>1. job.items \in Nat /\ job.no \in Nat
    BY DEF Job
  <1>2. \A i \in 1..job.items : [seq |-> base + i, by |-> job.no] \in Entry
    BY <1>1 DEF Entry
  <1>3. Blocks(job, base) \in [1..job.items -> Entry]
    BY <1>2 DEF Blocks
  <1>4. Blocks(job, base) \in Seq(Entry) /\ Len(Blocks(job, base)) = job.items
    BY <1>1, <1>3
  <1>5. QED
    BY <1>3, <1>4 DEF Range

\* Concatenation keeps the entries of both sides.
LEMMA ConcatKeeps ==
    ASSUME NEW s \in Seq(Entry), NEW u \in Seq(Entry)
    PROVE  /\ s \o u \in Seq(Entry)
           /\ Len(s \o u) = Len(s) + Len(u)
           /\ Range(s) \subseteq Range(s \o u)
           /\ Range(u) \subseteq Range(s \o u)
  <1>1. s \o u \in Seq(Entry) /\ Len(s \o u) = Len(s) + Len(u)
    OBVIOUS
  <1>2. ASSUME NEW i \in DOMAIN s PROVE s[i] \in Range(s \o u)
    <2>1. i \in 1..Len(s \o u) /\ (s \o u)[i] = s[i]
      BY <1>1
    <2>2. QED
      BY <1>1, <2>1 DEF Range
  <1>3. ASSUME NEW i \in DOMAIN u PROVE u[i] \in Range(s \o u)
    <2>1. Len(s) + i \in 1..Len(s \o u) /\ (s \o u)[Len(s) + i] = u[i]
      BY <1>1
    <2>2. QED
      BY <1>1, <2>1 DEF Range
  <1>4. QED
    BY <1>1, <1>2, <1>3 DEF Range

\* The content a task writes is a file that has everything it read, and its job.
LEMMA MergedKeeps ==
    ASSUME NEW copy \in File, NEW job \in Job, NEW base \in Nat
    PROVE  /\ Merged(copy, job, base) \in File
           /\ Range(copy.entries) \subseteq Range(Merged(copy, job, base).entries)
           /\ Range(Blocks(job, base)) \subseteq Range(Merged(copy, job, base).entries)
           /\ copy.marks \cup job.marks = Merged(copy, job, base).marks
           /\ Len(Merged(copy, job, base).entries) = Len(copy.entries) + job.items
           /\ Merged(copy, job, base).count = base + job.items
  <1>1. /\ copy.entries \in Seq(Entry)
        /\ copy.marks \subseteq Nat
        /\ job.marks \subseteq Nat
        /\ job.items \in Nat
    BY DEF File, Job
  <1>2. /\ Blocks(job, base) \in Seq(Entry)
        /\ Len(Blocks(job, base)) = job.items
    BY BlocksType
  <1>3. /\ copy.entries \o Blocks(job, base) \in Seq(Entry)
        /\ Len(copy.entries \o Blocks(job, base)) = Len(copy.entries) + job.items
        /\ Range(copy.entries) \subseteq Range(copy.entries \o Blocks(job, base))
        /\ Range(Blocks(job, base)) \subseteq Range(copy.entries \o Blocks(job, base))
    BY <1>1, <1>2, ConcatKeeps
  <1>4. QED
    BY <1>1, <1>3 DEF Merged, File

-----------------------------------------------------------------------------
(* Steps of one task *)

\* A task is replaced by a task; the others keep what they have.
LEMMA TaskType ==
    ASSUME DailyTypeOK, NEW t \in Tasks, NEW r \in Task, task' = [task EXCEPT ![t] = r]
    PROVE  /\ task' \in [Tasks -> Task]
           /\ task'[t] = r
           /\ \A u \in Tasks : u # t => task'[u] = task[u]
  BY DEF DailyTypeOK

\* The fields of a task.
LEMMA TaskFields ==
    ASSUME NEW r \in Task
    PROVE  /\ r.pc \in WriterPhase /\ r.job \in Job /\ r.base \in Nat /\ r.copy \in File
           /\ r.passed \in BOOLEAN
           /\ \A p \in WriterPhase : [r EXCEPT !.pc = p] \in Task
           /\ \A p \in WriterPhase, b \in Nat : [r EXCEPT !.pc = p, !.base = b] \in Task
           /\ \A p \in WriterPhase, c \in File : [r EXCEPT !.pc = p, !.copy = c] \in Task
           /\ \A p \in WriterPhase, b \in Nat, c \in File :
                [r EXCEPT !.pc = p, !.base = b, !.copy = c] \in Task
  BY DEF Task

LEMMA RestingType == Resting \in Task
  <1>1. Missing \in File
    BY DEF Missing, File
  <1>2. NoJob \in Job
    BY DEF NoJob, Job
  <1>3. QED
    BY <1>1, <1>2 DEF Resting, Task, WriterPhase

\* What each step of a task does to it, in one place.
LEMMA AskForDoes ==
    ASSUME DailyTypeOK, NEW t \in Tasks, NEW job \in Job, AskFor(t, job)
    PROVE  /\ task' \in [Tasks -> Task]
           /\ task'[t].pc = "queued" /\ task'[t].job = job
           /\ \A u \in Tasks : u # t => task'[u] = task[u]
  <1>1. [Resting EXCEPT !.pc = "queued", !.job = job] \in Task
    BY RestingType DEF Task, WriterPhase
  <1>2. QED
    BY <1>1, TaskType, RestingType DEF AskFor, Task

\* What a caller asks for: an append of items, or a patch of one mark.
LEMMA AskedIs ==
    ASSUME DailyTypeOK, NEW t \in Tasks, AskAppend(t) \/ AskPatch(t)
    PROVE  \E job \in Job :
              /\ AskFor(t, job)
              /\ job.no = made + 1
              /\ job.items \in 0..MaxItems
              /\ job.items > 0 <=> job.marks = {}
  <1>1. CASE AskAppend(t)
    <2>1. PICK n \in 1..MaxItems : AskFor(t, [no |-> made + 1, items |-> n, marks |-> {}])
      BY <1>1 DEF AskAppend
    <2>2. QED
      BY <2>1, BoundAssumption DEF DailyTypeOK, Job
  <1>2. CASE AskPatch(t)
    <2>1. PICK e \in reported :
            AskFor(t, [no |-> made + 1, items |-> 0, marks |-> {e.seq}])
      BY <1>2 DEF AskPatch
    <2>2. e.seq \in Nat
      BY DEF DailyTypeOK, Entry
    <2>3. QED
      BY <2>1, <2>2, BoundAssumption DEF DailyTypeOK, Job
  <1>3. QED
    BY <1>1, <1>2

LEMMA AcquireDoes ==
    ASSUME DailyTypeOK, NEW t \in Tasks, Acquire(t)
    PROVE  /\ task' \in [Tasks -> Task]
           /\ task'[t].pc = "locked"
           /\ task'[t].job = task[t].job
           /\ task'[t].passed = task[t].passed
           /\ \A u \in Tasks : u # t => task'[u] = task[u]
  <1> DEFINE r == [task[t] EXCEPT !.pc = "locked"]
  <1>1. task[t] \in Task /\ file \in File /\ file.count \in Nat
    BY DEF DailyTypeOK, File
  <1>2. r \in Task
    BY <1>1, TaskFields DEF WriterPhase
  <1>3. r.pc = "locked" /\ r.job = task[t].job /\ r.passed = task[t].passed
    BY <1>1 DEF Task
  <1>4. task' = [task EXCEPT ![t] = r]
    BY <1>1 DEF Acquire, DailyTypeOK, Task
  <1>5. QED
    BY <1>2, <1>3, <1>4, TaskType

LEMMA ReadCountDoes ==
    ASSUME DailyTypeOK, NEW t \in Tasks, ReadCount(t)
    PROVE  /\ task' \in [Tasks -> Task]
           /\ task'[t].pc = "counted"
           /\ task'[t].job = task[t].job
           /\ task'[t].base = file.count
           /\ task'[t].passed = task[t].passed
           /\ \A u \in Tasks : u # t => task'[u] = task[u]
  <1> DEFINE r == [task[t] EXCEPT !.pc = "counted", !.base = file.count]
  <1>1. task[t] \in Task /\ file \in File /\ file.count \in Nat
    BY DEF DailyTypeOK, File
  <1>2. r \in Task
    BY <1>1, TaskFields DEF WriterPhase
  <1>3. r.pc = "counted" /\ r.job = task[t].job /\ r.base = file.count /\ r.passed = task[t].passed
    BY <1>1 DEF Task
  <1>4. task' = [task EXCEPT ![t] = r]
    BY <1>1 DEF ReadCount, DailyTypeOK, Task
  <1>5. QED
    BY <1>2, <1>3, <1>4, TaskType

LEMMA ReadForAppendDoes ==
    ASSUME DailyTypeOK, NEW t \in Tasks, ReadForAppend(t)
    PROVE  /\ task' \in [Tasks -> Task]
           /\ task'[t].pc = "merged"
           /\ task'[t].job = task[t].job
           /\ task'[t].base = task[t].base
           /\ task'[t].copy = file
           /\ task'[t].passed = task[t].passed
           /\ \A u \in Tasks : u # t => task'[u] = task[u]
  <1> DEFINE r == [task[t] EXCEPT !.pc = "merged", !.copy = file]
  <1>1. task[t] \in Task /\ file \in File /\ file.count \in Nat
    BY DEF DailyTypeOK, File
  <1>2. r \in Task
    BY <1>1, TaskFields DEF WriterPhase
  <1>3. r.pc = "merged" /\ r.job = task[t].job /\ r.base = task[t].base /\ r.copy = file /\ r.passed = task[t].passed
    BY <1>1 DEF Task
  <1>4. task' = [task EXCEPT ![t] = r]
    BY <1>1 DEF ReadForAppend, DailyTypeOK, Task
  <1>5. QED
    BY <1>2, <1>3, <1>4, TaskType

LEMMA ReadForPatchDoes ==
    ASSUME DailyTypeOK, NEW t \in Tasks, ReadForPatch(t)
    PROVE  /\ task' \in [Tasks -> Task]
           /\ task'[t].pc = "merged"
           /\ task'[t].job = task[t].job
           /\ task'[t].base = file.count
           /\ task'[t].copy = file
           /\ task'[t].passed = task[t].passed
           /\ \A u \in Tasks : u # t => task'[u] = task[u]
  <1> DEFINE r == [task[t] EXCEPT !.pc = "merged", !.base = file.count, !.copy = file]
  <1>1. task[t] \in Task /\ file \in File /\ file.count \in Nat
    BY DEF DailyTypeOK, File
  <1>2. r \in Task
    BY <1>1, TaskFields DEF WriterPhase
  <1>3. r.pc = "merged" /\ r.job = task[t].job /\ r.base = file.count /\ r.copy = file /\ r.passed = task[t].passed
    BY <1>1 DEF Task
  <1>4. task' = [task EXCEPT ![t] = r]
    BY <1>1 DEF ReadForPatch, DailyTypeOK, Task
  <1>5. QED
    BY <1>2, <1>3, <1>4, TaskType

\* A task that a replace passes keeps all but that it was passed.
LEMMA PassedIs ==
    ASSUME DailyTypeOK, NEW S
    PROVE  /\ Passed(S) \in [Tasks -> Task]
           /\ \A t \in Tasks :
                 /\ Passed(S)[t].pc = task[t].pc
                 /\ Passed(S)[t].job = task[t].job
                 /\ Passed(S)[t].base = task[t].base
                 /\ Passed(S)[t].copy = task[t].copy
                 /\ t \in S /\ Reading(t) => Passed(S)[t].passed
                 /\ t \notin S => Passed(S)[t].passed = task[t].passed
  <1>1. ASSUME NEW r \in Task
        PROVE  LET q == [r EXCEPT !.passed = TRUE] IN
               /\ q \in Task
               /\ q.pc = r.pc /\ q.job = r.job /\ q.base = r.base /\ q.copy = r.copy /\ q.passed
    BY DEF Task
  <1>2. \A t \in Tasks : task[t] \in Task
    BY DEF DailyTypeOK
  <1>3. QED
    BY <1>1, <1>2 DEF Passed

\* The calls that were cut stay calls, and none of those passed counts as fresh.
LEMMA PassedAdriftIs ==
    ASSUME NEW A \in SUBSET Task
    PROVE  /\ PassedAdrift(A) \subseteq Task
           /\ \A b \in PassedAdrift(A) : b.passed /\ \E a \in A : b.job = a.job
  <1>1. ASSUME NEW a \in A
        PROVE  LET b == [a EXCEPT !.passed = TRUE] IN
               b \in Task /\ b.passed /\ b.job = a.job
    <2>1. a \in Task
      OBVIOUS
    <2>2. QED
      BY <2>1 DEF Task
  <1>2. QED
    BY <1>1 DEF PassedAdrift

\* A replace leaves no call of another writer, and no call that was cut, unpassed.
LEMMA ReplaceDoes ==
    ASSUME DailyTypeOK, NEW t \in Tasks, Replace(t)
    PROVE  /\ task' \in [Tasks -> Task]
           /\ task'[t].pc = "replaced"
           /\ \A u \in Tasks :
                 /\ u # t => task'[u].pc = task[u].pc
                 /\ task'[u].job = task[u].job
                 /\ task'[u].base = task[u].base
                 /\ task'[u].copy = task[u].copy
                 /\ u # t /\ Reading(u) /\ Writer[u] # Writer[t] => task'[u].passed
                 /\ Writer[u] = Writer[t] => task'[u].passed = task[u].passed
           /\ adrift' \subseteq Task
           /\ \A b \in adrift' : b.passed /\ \E a \in adrift : b.job = a.job
  <1> DEFINE S == {u \in Tasks : Writer[u] # Writer[t]}
             f == Passed(S)
             r == [f[t] EXCEPT !.pc = "replaced"]
  <1>1. /\ task' = [f EXCEPT ![t].pc = "replaced"]
        /\ adrift' = PassedAdrift(adrift)
    BY DEF Replace
  <1>2. /\ f \in [Tasks -> Task]
        /\ \A u \in Tasks :
             /\ f[u].pc = task[u].pc /\ f[u].job = task[u].job
             /\ f[u].base = task[u].base /\ f[u].copy = task[u].copy
             /\ Writer[u] # Writer[t] /\ Reading(u) => f[u].passed
             /\ Writer[u] = Writer[t] => f[u].passed = task[u].passed
    <2>1. \A u \in Tasks : u \in S <=> Writer[u] # Writer[t]
      OBVIOUS
    <2> HIDE DEF S
    <2>2. QED
      BY <2>1, PassedIs
  <1> HIDE DEF f
  <1>3. f[t] \in Task
    BY <1>2
  <1>4. /\ r \in Task
        /\ r.pc = "replaced" /\ r.job = f[t].job /\ r.base = f[t].base /\ r.copy = f[t].copy
        /\ r.passed = f[t].passed
    BY <1>3 DEF Task, WriterPhase
  <1>5. task' = [f EXCEPT ![t] = r]
    BY <1>1
  <1> HIDE DEF r
  <1>6. task'[t] = r /\ \A u \in Tasks : u # t => task'[u] = f[u]
    BY <1>2, <1>5
  <1>7. task' \in [Tasks -> Task]
    BY <1>2, <1>4, <1>5
  <1>8. adrift \in SUBSET Task
    BY DEF DailyTypeOK
  <1>9. /\ adrift' \subseteq Task
        /\ \A b \in adrift' : b.passed /\ \E a \in adrift : b.job = a.job
    BY <1>1, <1>8, PassedAdriftIs
  <1>10. ASSUME NEW u \in Tasks
         PROVE  /\ u # t => task'[u].pc = task[u].pc
                /\ task'[u].job = task[u].job
                /\ task'[u].base = task[u].base
                /\ task'[u].copy = task[u].copy
                /\ u # t /\ Reading(u) /\ Writer[u] # Writer[t] => task'[u].passed
                /\ Writer[u] = Writer[t] => task'[u].passed = task[u].passed
    <2>1. CASE u = t
      BY <1>2, <1>4, <1>6, <2>1
    <2>2. CASE u # t
      BY <1>2, <1>6, <2>2
    <2>3. QED
      BY <2>1, <2>2
  <1>11. QED
    BY <1>4, <1>6, <1>7, <1>9, <1>10

\* So does the replace of a call that was cut, for every writer.
LEMMA LandDoes ==
    ASSUME DailyTypeOK, NEW a \in adrift, Land(a)
    PROVE  /\ task' \in [Tasks -> Task]
           /\ \A u \in Tasks :
                 /\ task'[u].pc = task[u].pc
                 /\ task'[u].job = task[u].job
                 /\ task'[u].base = task[u].base
                 /\ Reading(u) => task'[u].passed
           /\ adrift' \subseteq Task
           /\ \A b \in adrift' : b.passed /\ \E c \in adrift : b.job = c.job
  <1>1. task' = Passed(Tasks) /\ adrift' = PassedAdrift(adrift \ {a})
    BY DEF Land
  <1>2. adrift \ {a} \in SUBSET Task
    BY DEF DailyTypeOK
  <1>3. /\ adrift' \subseteq Task
        /\ \A b \in adrift' : b.passed /\ \E c \in adrift \ {a} : b.job = c.job
    BY <1>1, <1>2, PassedAdriftIs
  <1>4. QED
    BY <1>1, <1>3, PassedIs

\* A task that leaves, by return or exception, rests and lets go of its locks.
LEMMA LeaveDoes ==
    ASSUME DailyTypeOK, NEW t \in Tasks, Return(t) \/ Abort(t)
    PROVE  /\ task' \in [Tasks -> Task]
           /\ task'[t] = Resting
           /\ \A u \in Tasks : u # t => task'[u] = task[u]
           /\ lock' \in [Writers -> Tasks \cup {Nobody}]
           /\ \A w \in Writers : lock[w] # t => lock'[w] = lock[w]
           /\ \A a \in adrift' \ adrift : a = task[t] /\ task[t].pc = "merged"
  <1>1. task' = [task EXCEPT ![t] = Resting] /\ lock' = Released(t)
    BY DEF Return, Abort
  <1>2. \A a \in adrift' \ adrift : a = task[t] /\ task[t].pc = "merged"
    BY DEF Return, Abort
  <1>3. QED
    BY <1>1, <1>2, RestingType, TaskType DEF DailyTypeOK, Released

-----------------------------------------------------------------------------
(* Types, whatever writers and locks there are *)

LEMMA TypeInit == ASSUME DailyInit PROVE DailyTypeOK
  <1>1. Missing \in File
    BY DEF Missing, File
  <1>2. file \in File /\ adrift \subseteq Task /\ raced \in BOOLEAN
    BY <1>1 DEF DailyInit
  <1>3. task \in [Tasks -> Task] /\ lock \in [Writers -> Tasks \cup {Nobody}]
    BY RestingType DEF DailyInit
  <1>4. made \in 0..MaxJobs /\ reported \subseteq Entry /\ settled \subseteq Nat
    BY BoundAssumption DEF DailyInit
  <1>5. QED
    BY <1>2, <1>3, <1>4 DEF DailyTypeOK

LEMMA TypeStep ==
    ASSUME DailyTypeOK, [DailyNext]_dailyVars
    PROVE  DailyTypeOK'
  <1>1. CASE UNCHANGED dailyVars
    BY <1>1 DEF dailyVars, DailyTypeOK
  <1>2. CASE Crash
    BY <1>2, RestingType DEF Crash, DailyTypeOK
  <1>3. ASSUME NEW t \in Tasks, AskAppend(t) \/ AskPatch(t) PROVE DailyTypeOK'
    <2>1. PICK job \in Job : AskFor(t, job)
      BY <1>3, AskedIs
    <2>2. task' \in [Tasks -> Task]
      BY <2>1, AskForDoes
    <2>3. /\ made < MaxJobs /\ made' = made + 1
          /\ UNCHANGED <<file, lock, reported, settled, adrift, raced>>
      BY <2>1 DEF AskFor
    <2>4. QED
      BY <2>2, <2>3, BoundAssumption DEF DailyTypeOK
  <1>4. ASSUME NEW t \in Tasks, Acquire(t) PROVE DailyTypeOK'
    BY <1>4, AcquireDoes DEF DailyTypeOK, Acquire
  <1>5. ASSUME NEW t \in Tasks, ReadCount(t) \/ ReadForAppend(t) \/ ReadForPatch(t)
        PROVE  DailyTypeOK'
    <2>1. UNCHANGED <<file, lock, made, reported, settled, adrift, raced>>
      BY <1>5 DEF ReadCount, ReadForAppend, ReadForPatch
    <2>2. task' \in [Tasks -> Task]
      BY <1>5, ReadCountDoes, ReadForAppendDoes, ReadForPatchDoes
    <2>3. QED
      BY <2>1, <2>2 DEF DailyTypeOK
  <1>6. ASSUME NEW t \in Tasks, Replace(t) PROVE DailyTypeOK'
    <2>1. task[t].copy \in File /\ task[t].job \in Job /\ task[t].base \in Nat
          /\ task[t].passed \in BOOLEAN
      BY TaskFields DEF DailyTypeOK
    <2>2. Merged(task[t].copy, task[t].job, task[t].base) \in File
      BY <2>1, MergedKeeps
    <2>3. task' \in [Tasks -> Task] /\ adrift' \subseteq Task
      BY <1>6, ReplaceDoes
    <2>4. /\ file' \in File /\ raced' \in BOOLEAN
          /\ UNCHANGED <<lock, made, reported, settled>>
      BY <1>6, <2>1, <2>2 DEF DailyTypeOK, Replace
    <2>5. QED
      BY <2>3, <2>4 DEF DailyTypeOK
  <1>7. ASSUME NEW a \in adrift, Land(a) PROVE DailyTypeOK'
    <2>1. a.copy \in File /\ a.job \in Job /\ a.base \in Nat /\ a.passed \in BOOLEAN
      BY TaskFields DEF DailyTypeOK
    <2>2. Merged(a.copy, a.job, a.base) \in File
      BY <2>1, MergedKeeps
    <2>3. task' \in [Tasks -> Task] /\ adrift' \subseteq Task
      BY <1>7, LandDoes
    <2>4. /\ file' \in File /\ raced' \in BOOLEAN
          /\ UNCHANGED <<lock, made, reported, settled>>
      BY <1>7, <2>1, <2>2 DEF DailyTypeOK, Land
    <2>5. QED
      BY <2>3, <2>4 DEF DailyTypeOK
  <1>8. ASSUME NEW t \in Tasks, Return(t) \/ Abort(t) PROVE DailyTypeOK'
    <2>1. /\ task' \in [Tasks -> Task] /\ lock' \in [Writers -> Tasks \cup {Nobody}]
          /\ adrift' \subseteq Task
      BY <1>8, LeaveDoes DEF DailyTypeOK
    <2>2. task[t].job \in Job /\ task[t].base \in Nat
      BY TaskFields DEF DailyTypeOK
    <2>3. Range(Blocks(task[t].job, task[t].base)) \subseteq Entry /\ task[t].job.marks \subseteq Nat
      BY <2>2, BlocksType DEF Job
    <2>4. reported' \subseteq Entry /\ settled' \subseteq Nat /\ UNCHANGED <<file, made, raced>>
      BY <1>8, <2>3 DEF DailyTypeOK, Return, Abort
    <2>5. QED
      BY <2>1, <2>4 DEF DailyTypeOK
  <1>9. QED
    BY <1>1, <1>2, <1>3, <1>4, <1>5, <1>6, <1>7, <1>8 DEF DailyNext, Step

\* Every variable of the writers and of the file keeps its type, whichever writer objects
\* the tasks write through and however many calls are cut.
THEOREM DailyTypeCorrect == DailySpec => []DailyTypeOK
  <1>1. DailyInit => DailyTypeOK
    BY TypeInit
  <1>2. DailyTypeOK /\ [DailyNext]_dailyVars => DailyTypeOK'
    BY TypeStep
  <1>3. QED
    BY <1>1, <1>2, PTL DEF DailySpec

-----------------------------------------------------------------------------
(* The inductive invariant, action by action *)

LEMMA InitInv == ASSUME DailyInit PROVE DailyIInv
  <1>1. DailyTypeOK
    BY TypeInit
  <1>2. \A t \in Tasks : task[t].pc = "idle"
    BY DEF DailyInit, Resting
  <1>3. Counts
    BY DEF DailyInit, Counts, Missing
  <1>4. QED
    BY <1>1, <1>2, <1>3
    DEF DailyInit, DailyIInv, JobsInHand, Holds, Reading, ReadsAreFresh, WritesAreThere,
        ReportedWritesStay

\* A new job touches neither the file nor a lock.
LEMMA AskInv ==
    ASSUME DailyIInv, NEW t \in Tasks, AskAppend(t) \/ AskPatch(t)
    PROVE  DailyIInv'
  <1>1. PICK job \in Job :
          /\ AskFor(t, job)
          /\ job.no = made + 1
          /\ job.items \in 0..MaxItems
          /\ job.items > 0 <=> job.marks = {}
    BY AskedIs DEF DailyIInv
  <1>2. /\ task' \in [Tasks -> Task]
        /\ task'[t].pc = "queued" /\ task'[t].job = job
        /\ \A u \in Tasks : u # t => task'[u] = task[u]
    BY <1>1, AskForDoes DEF DailyIInv
  <1>3. /\ made < MaxJobs /\ made' = made + 1
        /\ UNCHANGED <<file, lock, reported, settled, adrift, raced>>
    BY <1>1 DEF AskFor
  <1>4. DailyTypeOK'
    BY <1>2, <1>3, BoundAssumption DEF DailyIInv, DailyTypeOK
  <1>5. AskedFor(task'[t])
    BY <1>1, <1>2, <1>3, BoundAssumption DEF DailyIInv, DailyTypeOK, AskedFor, IsAppend
  <1>6. JobsInHand'
    BY <1>2, <1>3, <1>5 DEF DailyIInv, JobsInHand, AskedFor
  <1>7. Holds'
    BY <1>2, <1>3 DEF DailyIInv, Holds
  <1>8. ReadsAreFresh'
    BY <1>2, <1>3 DEF DailyIInv, ReadsAreFresh, Reading
  <1>9. Counts' /\ WritesAreThere' /\ ReportedWritesStay'
    BY <1>2, <1>3 DEF DailyIInv, Counts, WritesAreThere, ReportedWritesStay
  <1>10. QED
    BY <1>4, <1>6, <1>7, <1>8, <1>9 DEF DailyIInv

LEMMA AcquireInv ==
    ASSUME DailyIInv, NEW t \in Tasks, Acquire(t)
    PROVE  DailyIInv'
  <1>1. /\ task' \in [Tasks -> Task]
        /\ task'[t].pc = "locked" /\ task'[t].job = task[t].job
        /\ \A u \in Tasks : u # t => task'[u] = task[u]
    BY AcquireDoes DEF DailyIInv
  <1>2. /\ task[t].pc = "queued" /\ lock[Writer[t]] = Nobody
        /\ lock' = [lock EXCEPT ![Writer[t]] = t]
        /\ UNCHANGED <<file, made, reported, settled, adrift, raced>>
    BY DEF Acquire
  <1>3. DailyTypeOK'
    BY <1>1, <1>2 DEF DailyIInv, DailyTypeOK
  <1>4. Holds'
    BY <1>1, <1>2, WriterAssumption DEF DailyIInv, DailyTypeOK, Holds
  <1>5. JobsInHand'
    BY <1>1, <1>2 DEF DailyIInv, JobsInHand, AskedFor
  <1>6. ReadsAreFresh'
    BY <1>1, <1>2 DEF DailyIInv, ReadsAreFresh, Reading
  <1>7. Counts' /\ WritesAreThere' /\ ReportedWritesStay'
    BY <1>1, <1>2 DEF DailyIInv, Counts, WritesAreThere, ReportedWritesStay
  <1>8. QED
    BY <1>3, <1>4, <1>5, <1>6, <1>7 DEF DailyIInv

\* A read leaves the task with what the file holds now, or held when it was last passed.
LEMMA ReadInv ==
    ASSUME DailyIInv, NEW t \in Tasks, ReadCount(t) \/ ReadForAppend(t) \/ ReadForPatch(t)
    PROVE  DailyIInv'
  <1>1. /\ task' \in [Tasks -> Task]
        /\ task'[t].pc \in {"counted", "merged"} /\ task'[t].job = task[t].job
        /\ task'[t].pc = "counted" => IsAppend(task[t].job)
        /\ ~ task'[t].passed => task'[t].base = file.count
        /\ task'[t].pc = "merged" => task'[t].copy = file
        /\ \A u \in Tasks : u # t => task'[u] = task[u]
    <2>1. CASE ReadCount(t)
      BY <2>1, ReadCountDoes DEF DailyIInv, ReadCount
    <2>2. CASE ReadForAppend(t)
      <3>1. ~ task[t].passed => task[t].base = file.count
        BY <2>2 DEF ReadForAppend, DailyIInv, ReadsAreFresh, Reading
      <3>2. QED
        BY <2>2, <3>1, ReadForAppendDoes DEF DailyIInv
    <2>3. CASE ReadForPatch(t)
      BY <2>3, ReadForPatchDoes DEF DailyIInv
    <2>4. QED
      BY <2>1, <2>2, <2>3
  <1>2. /\ task[t].pc \in {"locked", "counted"}
        /\ UNCHANGED <<file, lock, made, reported, settled, adrift, raced>>
    BY DEF ReadCount, ReadForAppend, ReadForPatch
  <1>3. DailyTypeOK'
    BY <1>1, <1>2 DEF DailyIInv, DailyTypeOK
  <1>4. JobsInHand'
    <2>1. AskedFor(task'[t])
      BY <1>1, <1>2 DEF DailyIInv, JobsInHand, AskedFor
    <2>2. QED
      BY <1>1, <1>2, <2>1 DEF DailyIInv, JobsInHand, AskedFor
  <1>5. Holds'
    BY <1>1, <1>2 DEF DailyIInv, Holds
  <1>6. ReadsAreFresh'
    BY <1>1, <1>2 DEF DailyIInv, ReadsAreFresh, Reading
  <1>7. Counts' /\ WritesAreThere' /\ ReportedWritesStay'
    BY <1>1, <1>2 DEF DailyIInv, Counts, WritesAreThere, ReportedWritesStay
  <1>8. QED
    BY <1>3, <1>4, <1>5, <1>6, <1>7 DEF DailyIInv

\* Of the tasks of one writer, the one that writes is alone between Acquire and its exit.
LEMMA OnlyWriter ==
    ASSUME DailyIInv, NEW t \in Tasks, NEW u \in Tasks, u # t, Writer[u] = Writer[t],
           task[t].pc \in {"locked", "counted", "merged", "replaced"}
    PROVE  task[u].pc \in {"idle", "queued"}
  <1>1. lock[Writer[t]] = t
    BY DEF DailyIInv, Holds
  <1>2. task[u].pc \in WriterPhase
    BY TaskFields DEF DailyIInv, DailyTypeOK
  <1>3. QED
    BY <1>1, <1>2 DEF DailyIInv, Holds, WriterPhase

LEMMA MergedIs ==
    ASSUME NEW copy \in File, NEW job \in Job, NEW base \in Nat, NEW new,
           new = Merged(copy, job, base)
    PROVE  /\ Range(copy.entries) \subseteq Range(new.entries)
           /\ Range(Blocks(job, base)) \subseteq Range(new.entries)
           /\ copy.marks \cup job.marks = new.marks
           /\ Len(new.entries) = Len(copy.entries) + job.items
           /\ new.count = base + job.items
  <1> DEFINE n == Merged(copy, job, base)
  <1>1. /\ Range(copy.entries) \subseteq Range(n.entries)
        /\ Range(Blocks(job, base)) \subseteq Range(n.entries)
        /\ copy.marks \cup job.marks = n.marks
        /\ Len(n.entries) = Len(copy.entries) + job.items
        /\ n.count = base + job.items
    BY MergedKeeps
  <1>2. new = n
    OBVIOUS
  <1> HIDE DEF n
  <1>3. QED
    BY <1>1, <1>2

\* What a write from a read nobody has passed makes of the file.
LEMMA FreshWrite ==
    ASSUME NEW old \in File, NEW new, NEW r \in Task, r.base = old.count, r.copy = old,
           new = Merged(r.copy, r.job, r.base)
    PROVE  /\ Range(old.entries) \subseteq Range(new.entries)
           /\ Range(Blocks(r.job, r.base)) \subseteq Range(new.entries)
           /\ old.marks \cup r.job.marks = new.marks
           /\ Len(new.entries) = Len(old.entries) + r.job.items
           /\ new.count = old.count + r.job.items
  <1>1. PICK job \in Job, base \in Nat :
          job = r.job /\ base = r.base /\ base = old.count /\ new = Merged(old, job, base)
    BY TaskFields
  <1>2. Range(old.entries) \subseteq Range(new.entries)
    BY <1>1, MergedIs, ZenonT(60)
  <1>3. Range(Blocks(job, base)) \subseteq Range(new.entries)
    BY <1>1, MergedIs, ZenonT(60)
  <1>4. old.marks \cup job.marks = new.marks
    BY <1>1, MergedIs
  <1>5. Len(new.entries) = Len(old.entries) + job.items /\ new.count = base + job.items
    BY <1>1, MergedIs
  <1>6. QED
    BY <1>1, <1>2, <1>3, <1>4, <1>5

LEMMA ReplaceInv ==
    ASSUME DailyIInv, NEW t \in Tasks, Replace(t)
    PROVE  DailyIInv'
  <1>1. /\ task' \in [Tasks -> Task]
        /\ task'[t].pc = "replaced"
        /\ \A u \in Tasks :
              /\ u # t => task'[u].pc = task[u].pc
              /\ task'[u].job = task[u].job
              /\ task'[u].base = task[u].base
              /\ task'[u].copy = task[u].copy
              /\ u # t /\ Reading(u) /\ Writer[u] # Writer[t] => task'[u].passed
        /\ \A b \in adrift' : b.passed /\ \E a \in adrift : b.job = a.job
    BY ReplaceDoes DEF DailyIInv
  <1>2. /\ task[t].pc = "merged" /\ Reading(t)
        /\ file' = Merged(task[t].copy, task[t].job, task[t].base)
        /\ raced' = (raced \/ task[t].passed)
        /\ UNCHANGED <<lock, made, reported, settled>>
    BY DEF Replace, Reading
  <1>3. DailyTypeOK'
    <2>1. [DailyNext]_dailyVars
      BY DEF DailyNext, Step
    <2>2. QED
      BY <2>1, TypeStep DEF DailyIInv
  <1>4. JobsInHand'
    <2>1. ASSUME NEW u \in Tasks, task'[u].pc # "idle" PROVE AskedFor(task'[u])
      <3>1. task[u].pc # "idle"
        BY <1>1, <1>2, <2>1
      <3>2. QED
        BY <1>1, <3>1 DEF DailyIInv, JobsInHand, AskedFor
    <2>2. ASSUME NEW b \in adrift' PROVE AskedFor(b)
      BY <1>1 DEF DailyIInv, JobsInHand, AskedFor
    <2>3. ASSUME NEW u \in Tasks, task'[u].pc = "counted" PROVE IsAppend(task'[u].job)
      BY <1>1, <2>3 DEF DailyIInv, JobsInHand
    <2>4. QED
      BY <2>1, <2>2, <2>3 DEF JobsInHand, AskedFor
  <1>5. Holds'
    BY <1>1, <1>2 DEF DailyIInv, Holds
  <1>6. ReadsAreFresh'
    <2>1. ASSUME NEW u \in Tasks, task'[u].pc \in {"counted", "merged"}
          PROVE  task'[u].passed
      <3>1. u # t /\ task[u].pc = task'[u].pc /\ Reading(u)
        BY <1>1, <2>1 DEF Reading
      <3>2. Writer[u] # Writer[t]
        BY <1>2, <3>1, OnlyWriter DEF Reading
      <3>3. QED
        BY <1>1, <3>1, <3>2
    <2>2. QED
      BY <1>1, <2>1 DEF ReadsAreFresh, Reading
  <1>7. Counts' /\ WritesAreThere' /\ ReportedWritesStay'
    <2>1. CASE raced'
      BY <2>1 DEF Counts, WritesAreThere, ReportedWritesStay
    <2>2. CASE ~ raced'
      <3>1. ~ raced /\ ~ task[t].passed
        BY <1>2, <2>2
      <3>2. PICK r \in Task : r = task[t]
        BY DEF DailyIInv, DailyTypeOK
      <3>3. /\ Range(file.entries) \subseteq Range(file'.entries)
            /\ Range(Blocks(r.job, r.base)) \subseteq Range(file'.entries)
            /\ file.marks \cup r.job.marks = file'.marks
            /\ Len(file'.entries) = Len(file.entries) + r.job.items
            /\ file'.count = file.count + r.job.items
        <4>1. /\ file \in File /\ r.base = file.count /\ r.copy = file
              /\ file' = Merged(r.copy, r.job, r.base)
          BY <1>2, <3>1, <3>2 DEF DailyIInv, DailyTypeOK, ReadsAreFresh
        <4>2. /\ Range(file.entries) \subseteq Range(file'.entries)
              /\ file.marks \cup r.job.marks = file'.marks
              /\ Len(file'.entries) = Len(file.entries) + r.job.items
              /\ file'.count = file.count + r.job.items
          BY <4>1, FreshWrite
        <4>3. Range(Blocks(r.job, r.base)) \subseteq Range(file'.entries)
          BY <4>1, FreshWrite
        <4>4. QED
          BY <4>2, <4>3
      <3>4. Counts'
        BY <3>1, <3>3 DEF DailyIInv, Counts
      <3>5. ASSUME NEW u \in Tasks, task'[u].pc = "replaced"
            PROVE  /\ Range(Blocks(task'[u].job, task'[u].base)) \subseteq Range(file'.entries)
                   /\ task'[u].job.marks \subseteq file'.marks
        <4>1. CASE u = t
          BY <1>1, <3>2, <3>3, <4>1
        <4>2. CASE u # t
          <5>1. /\ Range(Blocks(task[u].job, task[u].base)) \subseteq Range(file.entries)
                /\ task[u].job.marks \subseteq file.marks
            BY <1>1, <3>1, <3>5, <4>2 DEF DailyIInv, WritesAreThere
          <5>2. QED
            BY <1>1, <3>3, <5>1
        <4>3. QED
          BY <4>1, <4>2
      <3>6. WritesAreThere'
        BY <3>5 DEF WritesAreThere
      <3>7. ReportedWritesStay'
        BY <1>2, <3>1, <3>3 DEF DailyIInv, ReportedWritesStay
      <3>8. QED
        BY <3>4, <3>6, <3>7
    <2>3. QED
      BY <2>1, <2>2
  <1>8. QED
    BY <1>3, <1>4, <1>5, <1>6, <1>7 DEF DailyIInv

LEMMA LandInv ==
    ASSUME DailyIInv, NEW a \in adrift, Land(a)
    PROVE  DailyIInv'
  <1>1. /\ task' \in [Tasks -> Task]
        /\ \A u \in Tasks :
              /\ task'[u].pc = task[u].pc
              /\ task'[u].job = task[u].job
              /\ task'[u].base = task[u].base
              /\ Reading(u) => task'[u].passed
        /\ \A b \in adrift' : b.passed /\ \E c \in adrift : b.job = c.job
    BY LandDoes DEF DailyIInv
  <1>2. /\ file' = Merged(a.copy, a.job, a.base)
        /\ raced' = (raced \/ a.passed)
        /\ UNCHANGED <<lock, made, reported, settled>>
    BY DEF Land
  <1>3. DailyTypeOK'
    <2>1. [DailyNext]_dailyVars
      BY DEF DailyNext
    <2>2. QED
      BY <2>1, TypeStep DEF DailyIInv
  <1>4. JobsInHand'
    <2>1. \A u \in Tasks : task'[u].pc # "idle" => AskedFor(task'[u])
      BY <1>1 DEF DailyIInv, JobsInHand, AskedFor
    <2>2. \A b \in adrift' : AskedFor(b)
      BY <1>1 DEF DailyIInv, JobsInHand, AskedFor
    <2>3. \A u \in Tasks : task'[u].pc = "counted" => IsAppend(task'[u].job)
      BY <1>1 DEF DailyIInv, JobsInHand
    <2>4. QED
      BY <2>1, <2>2, <2>3 DEF JobsInHand, AskedFor
  <1>5. Holds'
    BY <1>1, <1>2 DEF DailyIInv, Holds
  <1>6. ReadsAreFresh'
    BY <1>1 DEF ReadsAreFresh, Reading
  <1>7. Counts' /\ WritesAreThere' /\ ReportedWritesStay'
    <2>1. CASE raced'
      BY <2>1 DEF Counts, WritesAreThere, ReportedWritesStay
    <2>2. CASE ~ raced'
      <3>1. ~ raced /\ ~ a.passed
        BY <1>2, <2>2
      <3>2. a \in Task /\ file \in File /\ a.base = file.count /\ a.copy = file
        BY <3>1 DEF DailyIInv, DailyTypeOK, ReadsAreFresh
      <3>3. /\ Range(file.entries) \subseteq Range(file'.entries)
            /\ file.marks \cup a.job.marks = file'.marks
            /\ Len(file'.entries) = Len(file.entries) + a.job.items
            /\ file'.count = file.count + a.job.items
        BY <1>2, <3>2, FreshWrite
      <3>4. Counts'
        BY <3>1, <3>3 DEF DailyIInv, Counts
      <3>5. ASSUME NEW u \in Tasks, task'[u].pc = "replaced"
            PROVE  /\ Range(Blocks(task'[u].job, task'[u].base)) \subseteq Range(file'.entries)
                   /\ task'[u].job.marks \subseteq file'.marks
        <4>1. /\ Range(Blocks(task[u].job, task[u].base)) \subseteq Range(file.entries)
              /\ task[u].job.marks \subseteq file.marks
          BY <1>1, <3>1, <3>5 DEF DailyIInv, WritesAreThere
        <4>2. QED
          BY <1>1, <3>3, <4>1
      <3>6. WritesAreThere'
        BY <3>5 DEF WritesAreThere
      <3>7. ReportedWritesStay'
        BY <1>2, <3>1, <3>3 DEF DailyIInv, ReportedWritesStay
      <3>8. QED
        BY <3>4, <3>6, <3>7
    <2>3. QED
      BY <2>1, <2>2
  <1>8. QED
    BY <1>3, <1>4, <1>5, <1>6, <1>7 DEF DailyIInv

LEMMA LeaveInv ==
    ASSUME DailyIInv, NEW t \in Tasks, Return(t) \/ Abort(t)
    PROVE  DailyIInv'
  <1>1. /\ task' \in [Tasks -> Task]
        /\ task'[t] = Resting
        /\ \A u \in Tasks : u # t => task'[u] = task[u]
        /\ lock' \in [Writers -> Tasks \cup {Nobody}]
        /\ \A w \in Writers : lock[w] # t => lock'[w] = lock[w]
        /\ \A a \in adrift' \ adrift : a = task[t] /\ task[t].pc = "merged"
    BY LeaveDoes DEF DailyIInv
  <1>2. UNCHANGED <<file, made, raced>>
    BY DEF Return, Abort
  <1>3. ReportedWritesStay'
    <2>1. CASE Return(t)
      <3>1. /\ reported' = reported \cup Range(Blocks(task[t].job, task[t].base))
            /\ settled' = settled \cup task[t].job.marks
            /\ task[t].pc = "replaced"
        BY <2>1 DEF Return
      <3>2. QED
        BY <1>2, <3>1 DEF DailyIInv, WritesAreThere, ReportedWritesStay
    <2>2. CASE Abort(t)
      BY <2>2 DEF Abort, DailyIInv, ReportedWritesStay
    <2>3. QED
      BY <2>1, <2>2
  <1>4. Resting.pc = "idle"
    BY DEF Resting
  <1>5. DailyTypeOK'
    <2>1. [DailyNext]_dailyVars
      BY DEF DailyNext, Step
    <2>2. QED
      BY <2>1, TypeStep DEF DailyIInv
  <1>6. Holds'
    <2>1. ASSUME NEW u \in Tasks, u # t,
                 task[u].pc \in {"locked", "counted", "merged", "replaced"}
          PROVE  lock'[Writer[u]] = u
      BY <1>1, <2>1, WriterAssumption DEF DailyIInv, Holds
    <2>2. QED
      BY <1>1, <1>4, <2>1 DEF Holds
  <1>7. JobsInHand'
    <2>1. \A u \in Tasks : task'[u].pc # "idle" => AskedFor(task'[u])
      BY <1>1, <1>4 DEF DailyIInv, JobsInHand
    <2>2. \A a \in adrift' : AskedFor(a)
      BY <1>1 DEF DailyIInv, JobsInHand
    <2>3. \A u \in Tasks : task'[u].pc = "counted" => IsAppend(task'[u].job)
      BY <1>1, <1>4 DEF DailyIInv, JobsInHand
    <2>4. QED
      BY <2>1, <2>2, <2>3 DEF JobsInHand, AskedFor
  <1>8. ReadsAreFresh'
    <2>1. \A u \in Tasks : u # t => task'[u] = task[u]
      BY <1>1
    <2>2. \A a \in adrift' : ~ a.passed => a.base = file.count /\ a.copy = file
      BY <1>1 DEF DailyIInv, ReadsAreFresh, Reading
    <2>3. QED
      BY <1>1, <1>2, <1>4, <2>2 DEF DailyIInv, ReadsAreFresh, Reading
  <1>9. Counts' /\ WritesAreThere'
    BY <1>1, <1>2, <1>4 DEF DailyIInv, Counts, WritesAreThere
  <1>10. QED
    BY <1>3, <1>5, <1>6, <1>7, <1>8, <1>9 DEF DailyIInv

LEMMA CrashInv ==
    ASSUME DailyIInv, Crash
    PROVE  DailyIInv'
  <1>1. /\ \A t \in Tasks : task'[t].pc = "idle"
        /\ adrift' = {}
        /\ UNCHANGED <<file, made, reported, settled, raced>>
    BY DEF Crash, Resting
  <1>2. DailyTypeOK'
    BY RestingType DEF Crash, DailyIInv, DailyTypeOK
  <1>3. JobsInHand' /\ Holds' /\ ReadsAreFresh' /\ WritesAreThere'
    BY <1>1 DEF JobsInHand, Holds, ReadsAreFresh, Reading, WritesAreThere
  <1>4. QED
    BY <1>1, <1>2, <1>3 DEF DailyIInv, Counts, ReportedWritesStay

LEMMA StepInv ==
    ASSUME DailyIInv, [DailyNext]_dailyVars
    PROVE  DailyIInv'
  <1>1. CASE UNCHANGED dailyVars
    BY <1>1
    DEF dailyVars, DailyIInv, DailyTypeOK, JobsInHand, AskedFor, Counts, Holds, Reading,
        ReadsAreFresh, WritesAreThere, ReportedWritesStay
  <1>2. CASE Crash
    BY <1>2, CrashInv
  <1>3. ASSUME NEW t \in Tasks, Step(t) PROVE DailyIInv'
    <2>1. CASE AskAppend(t) \/ AskPatch(t)
      BY <2>1, AskInv
    <2>2. CASE Acquire(t)
      BY <2>2, AcquireInv
    <2>3. CASE ReadCount(t) \/ ReadForAppend(t) \/ ReadForPatch(t)
      BY <2>3, ReadInv
    <2>4. CASE Replace(t)
      BY <2>4, ReplaceInv
    <2>5. CASE Return(t) \/ Abort(t)
      BY <2>5, LeaveInv
    <2>6. QED
      BY <1>3, <2>1, <2>2, <2>3, <2>4, <2>5 DEF Step
  <1>4. CASE \E a \in adrift : Land(a)
    BY <1>4, LandInv
  <1>5. QED
    BY <1>1, <1>2, <1>3, <1>4 DEF DailyNext

\* The invariant holds for any tasks, writer objects, jobs and items.
LEMMA Invariant == DailySpec => []DailyIInv
  <1>1. DailyInit => DailyIInv
    BY InitInv
  <1>2. DailyIInv /\ [DailyNext]_dailyVars => DailyIInv'
    BY StepInv
  <1>3. QED
    BY <1>1, <1>2, PTL DEF DailySpec

-----------------------------------------------------------------------------
(* The theorems *)

\* Only two steps touch the file.
LEMMA WhoReplaces ==
    ASSUME [DailyNext]_dailyVars, file' # file
    PROVE  (\E t \in Tasks : Replace(t)) \/ (\E a \in adrift : Land(a))
  BY DEF DailyNext, dailyVars, Crash, Step, AskAppend, AskPatch, AskFor, Acquire, ReadCount,
         ReadForAppend, ReadForPatch, Return, Abort

\* A step that drops an entry or a mark is a write that another writer object's task, or a
\* call that was cut, has passed since it read: for any number of tasks and writer objects.
THEOREM WritesStay == DailySpec => OnlyPassedWritesDrop
  <1>1. DailyIInv /\ [DailyNext]_dailyVars => [Kept \/ PassedWrite]_file
    <2>1. SUFFICES ASSUME DailyIInv, [DailyNext]_dailyVars, file' # file, ~ PassedWrite
                   PROVE  Kept
      OBVIOUS
    <2>2. CASE \E t \in Tasks : Replace(t)
      <3>1. PICK t \in Tasks : Replace(t)
        BY <2>2
      <3>2. ~ task[t].passed
        BY <2>1, <3>1 DEF PassedWrite
      <3>3. PICK r \in Task : /\ file \in File /\ r.base = file.count /\ r.copy = file
                              /\ file' = Merged(r.copy, r.job, r.base)
        BY <2>1, <3>1, <3>2 DEF Replace, Reading, DailyIInv, DailyTypeOK, ReadsAreFresh
      <3>4. QED
        BY <3>3, FreshWrite DEF Kept
    <2>3. CASE \E a \in adrift : Land(a)
      <3>1. PICK a \in adrift : Land(a)
        BY <2>3
      <3>2. ~ a.passed
        BY <2>1, <3>1 DEF PassedWrite
      <3>3. /\ a \in Task /\ file \in File /\ a.base = file.count /\ a.copy = file
            /\ file' = Merged(a.copy, a.job, a.base)
        BY <2>1, <3>1, <3>2 DEF Land, DailyIInv, DailyTypeOK, ReadsAreFresh
      <3>4. QED
        BY <3>3, FreshWrite DEF Kept
    <2>4. QED
      BY <2>1, <2>2, <2>3, WhoReplaces
  <1>2. QED
    BY <1>1, Invariant, PTL DEF DailySpec, OnlyPassedWritesDrop

\* A write from a read nobody has passed is one step of the log.
LEMMA LogWrite ==
    ASSUME DailyIInv, ~ raced, NEW r \in Task, AskedFor(r), r.base = file.count, r.copy = file,
           file' = Merged(r.copy, r.job, r.base), UNCHANGED <<reported, settled, raced>>
    PROVE  [Log!Next]_Log!vars
  <1> DEFINE job == r.job
             n == r.job.items
  <1>1. /\ job.no \in 1..MaxJobs /\ n \in 0..MaxItems
        /\ n > 0 <=> job.marks = {}
        /\ file.count = Len(file.entries)
    BY DEF AskedFor, IsAppend, DailyIInv, Counts
  <1>2. /\ file'.entries = file.entries \o Blocks(job, Len(file.entries))
        /\ file'.marks = file.marks \cup job.marks
    BY <1>1 DEF Merged
  <1>3. file.entries \in Seq(Entry)
    BY DEF DailyIInv, DailyTypeOK, File
  <1>4. CASE n = 0
    <2>1. Blocks(job, Len(file.entries)) = <<>>
      BY <1>4 DEF Blocks
    <2>2. file'.entries = file.entries
      BY <1>2, <1>3, <2>1
    <2>3. Log!Mark
      BY <1>2, <2>2 DEF Log!Mark
    <2>4. QED
      BY <2>3 DEF Log!Next
  <1>5. CASE n # 0
    <2>1. n \in 1..MaxItems /\ job.marks = {}
      BY <1>1, <1>5, BoundAssumption
    <2>2. Log!Add(job.no, n)
      BY <1>2, <2>1 DEF Log!Add, Blocks
    <2>3. QED
      BY <1>1, <2>1, <2>2 DEF Log!Next
  <1>6. QED
    BY <1>4, <1>5

\* One step of the file is one step of the log, or none.
LEMMA LogStep ==
    ASSUME DailyIInv, DailyIInv', [DailyNext]_dailyVars
    PROVE  [Log!Next]_Log!vars
  <1>1. CASE raced'
    BY <1>1 DEF Log!Next, Log!Lose
  <1>2. CASE ~ raced' /\ file' # file
    <2>1. CASE \E t \in Tasks : Replace(t)
      <3>1. PICK t \in Tasks : Replace(t)
        BY <2>1
      <3>2. /\ task[t].pc = "merged" /\ ~ raced /\ ~ task[t].passed
            /\ file' = Merged(task[t].copy, task[t].job, task[t].base)
            /\ UNCHANGED <<reported, settled, raced>>
        BY <1>2, <3>1 DEF Replace, DailyIInv, DailyTypeOK
      <3>3. /\ task[t] \in Task /\ AskedFor(task[t])
            /\ task[t].base = file.count /\ task[t].copy = file
        BY <3>2 DEF Reading, DailyIInv, DailyTypeOK, ReadsAreFresh, JobsInHand
      <3>4. QED
        BY <3>2, <3>3, LogWrite
    <2>2. CASE \E a \in adrift : Land(a)
      <3>1. PICK a \in adrift : Land(a)
        BY <2>2
      <3>2. /\ ~ raced /\ ~ a.passed
            /\ file' = Merged(a.copy, a.job, a.base)
            /\ UNCHANGED <<reported, settled, raced>>
        BY <1>2, <3>1 DEF Land, DailyIInv, DailyTypeOK
      <3>3. a \in Task /\ AskedFor(a) /\ a.base = file.count /\ a.copy = file
        BY <3>2 DEF DailyIInv, DailyTypeOK, ReadsAreFresh, JobsInHand
      <3>4. QED
        BY <3>2, <3>3, LogWrite
    <2>3. QED
      BY <1>2, <2>1, <2>2, WhoReplaces
  <1>3. CASE ~ raced' /\ file' = file
    <2>1. raced' = raced
      BY <1>3 DEF DailyNext, dailyVars, Crash, Step, AskAppend, AskPatch, AskFor, Acquire,
                  ReadCount, ReadForAppend, ReadForPatch, Return, Abort, Replace, Land,
                  DailyIInv, DailyTypeOK
    <2>2. reported \subseteq reported' /\ settled \subseteq settled'
      BY DEF DailyNext, dailyVars, Crash, Step, AskAppend, AskPatch, AskFor, Acquire,
             ReadCount, ReadForAppend, ReadForPatch, Return, Abort, Replace, Land
    <2>3. reported' \subseteq Range(file.entries) /\ settled' \subseteq file.marks
      BY <1>3 DEF DailyIInv, ReportedWritesStay
    <2>4. Log!Report
      BY <1>3, <2>1, <2>2, <2>3 DEF Log!Report, Log!Range, Range
    <2>5. QED
      BY <2>4 DEF Log!Next
  <1>4. QED
    BY <1>1, <1>2, <1>3

\* Until the first lost update, the file is an append-only log whose ids count up, and what
\* a caller was told of is in it.
THEOREM FileIsALog == DailySpec => ImplementsEntryLog
  <1>1. DailyInit => Log!Init
    BY DEF DailyInit, Log!Init, Missing
  <1>2. DailyIInv /\ DailyIInv' /\ [DailyNext]_dailyVars => [Log!Next]_Log!vars
    BY LogStep
  <1>3. QED
    BY <1>1, <1>2, Invariant, PTL DEF DailySpec, ImplementsEntryLog, Log!Spec

-----------------------------------------------------------------------------
(* The inductive invariant *)

\* A run that is there is about an item; what its phase says of it.
RunOk(r) ==
    run[r].pc # "none" =>
        /\ run[r].item \in Items /\ text[run[r].item] # 0
        /\ run[r].kind = "group" => run[r].pc \in {"queued", "saved", "stale"}
        /\ run[r].kind = "teach" => /\ run[r].pc \in {"queued", "write", "reap", "stale"}
                                    /\ run[r].item \in Cases /\ run[r].cluster \in Clusters
        /\ run[r].pc = "saved" => /\ run[r].cluster \in Clusters
                                  /\ run[r].item \in members[run[r].cluster]
        /\ run[r].pc = "stale" => run[r].item \in redone
        /\ run[r].pc = "queued" => run[r].wrote = {}
        /\ run[r].pc = "write" => run[r].ops # <<>>

Grouping(r) == run[r].kind = "group" /\ run[r].pc \in {"queued", "saved"}

\* An item whose run was not repeated is clustered by one run, which begins when it is in no cluster.
Once ==
    /\ \A r \in RunIds : /\ Grouping(r) /\ run[r].pc = "queued" /\ Clustered(run[r].item)
                         => run[r].item \in redone
    /\ \A r, q \in RunIds : Grouping(r) /\ Grouping(q) /\ r # q /\ run[r].item = run[q].item
                         => run[r].item \in redone

Counted ==
    /\ \A c \in Clusters : IsFiniteSet(members[c])
    /\ ClusteredOnce
    /\ \A i \in Items : Clustered(i) => text[i] # 0

\* Two runs do not write skills at the same time.
Writing(r) == run[r].pc \in {"write", "reap"}
Alone == \A r, q \in RunIds : Writing(r) /\ Writing(q) => r = q

OffIsQuiet == engine = "off" => Active = {}

\* What a run without a clash knows of the skills: those it will update are as it read
\* them, or as it wrote them; those it has renamed live on.
Updates(r) ==
    LET ops == run[r].ops IN
    /\ \A j \in DOMAIN ops : ops[j].prior # None =>
          /\ skill[ops[j].prior].cluster = run[r].cluster
          /\ skill[ops[j].prior].cites \subseteq ops[j].cites
          /\ \A w \in run[r].wrote : w[1] # ops[j].prior
    /\ \A j, k \in DOMAIN ops : j # k /\ ops[j].prior = ops[k].prior => ops[j].prior = None

Lessons(r) ==
    Writing(r) /\ ~ run[r].clash =>
        /\ run[r].pc = "write" => Updates(r)
        /\ \A w \in run[r].wrote : w[1] # None =>
              /\ skill[w[2]].cluster = run[r].cluster
              /\ skill[w[1]].cites \subseteq skill[w[2]].cites
              /\ \/ skill[w[1]].cluster = run[r].cluster
                 \/ run[r].pc = "reap" /\ skill[w[1]] = NoSkill

Versions ==
    \A i \in Items : cli.found[i].text <= row[i].text /\ row[i].text <= text[i]

PhaseOk ==
    /\ cli.pc \notin {"idle"} => cli.todo # <<>>
    /\ cli.pc = "write" => Phase = "vectors"
    /\ cli.pc \in {"sync", "resync"} => Phase = "skills"
    /\ cli.pc = "emit" => /\ Phase # "vectors"
                          /\ engine = IF Phase = "clusters" THEN "phase2" ELSE "phase3"
                          /\ embeds
    /\ cli.pc = "confirm" => cli.left = cli.met

Vectors ==
    cli.pc \in {"confirm", "write"} /\ Phase = "vectors" =>
        \A i \in Items :
          /\ <<i, None>> \in cli.left /\ i \notin chased => row[i].text = cli.found[i].text
          /\ row[i].text = cli.found[i].text /\ row[i].text # 0 /\ ~ cli.failed =>
                \/ Needs(row[i], i) = {}
                \/ Needs(cli.found[i], i) = {"sub"}
                \/ /\ <<i, None>> \in cli.left /\ row[i] = cli.found[i]
                   /\ cli.pc = "write" =>
                        cli.sides[i] \in {Needs(row[i], i), Needs(row[i], i) \ {"sub"}}

ItemsMet ==
    cli.pc \in {"confirm", "emit"} /\ Phase = "clusters" =>
        \A i \in Items : <<i, None>> \in cli.met => text[i] # 0

ItemsGo ==
    cli.pc = "emit" /\ Phase = "clusters" =>
        \A i \in Items : <<i, None>> \in cli.met =>
            /\ <<i, None>> \in cli.left => \A r \in RunIds : Grouping(r) => run[r].item # i
            /\ i \in Poor \cup lost \/ <<i, None>> \in cli.left \/ Clustered(i)
                  \/ \E r \in RunIds : Grouping(r) /\ run[r].item = i

Sources ==
    cli.pc \in {"confirm", "emit"} /\ Phase = "skills" =>
        \A m \in cli.left : m[1] \in Cases /\ m[2] \in Clusters /\ text[m[1]] # 0

Files ==
    /\ \A n \in Names : cli.files[n] \in {NoSkill, skill[n]}
    /\ cli.pc \in {"scan", "confirm", "emit", "resync"} /\ Phase = "skills" /\ ~ cli.missed =>
         \A n \in Names : cli.files[n] # NoSkill => indexed[n] = skill[n].cluster

IInv ==
    /\ TypeOK /\ \A r \in RunIds : RunOk(r)
    /\ Once /\ Counted /\ Alone /\ OffIsQuiet
    /\ \A r \in RunIds : Lessons(r)
    /\ Versions /\ PhaseOk /\ Vectors /\ ItemsMet /\ ItemsGo /\ Sources /\ Files
    /\ VectorsAreOfTheirText /\ ExitZeroMeansDone

-----------------------------------------------------------------------------
(* What the parts are made of *)

LEMMA RunParts ==
    ASSUME IInv, NEW r \in RunIds
    PROVE  /\ run \in [RunIds -> RunType] /\ run[r] \in RunType /\ RunOk(r) /\ Lessons(r)
           /\ run[r].attempt \in 0..(MaxAttempts - 1)
           /\ \A q \in RunIds : run[q] \in RunType /\ RunOk(q) /\ Lessons(q)
  BY DEF IInv, TypeOK, SkillsTypeOK, RunType

LEMMA NoRunIs ==
    /\ NoRun \in RunType
    /\ NoRun.pc = "none" /\ NoRun.kind = "group" /\ NoRun.wrote = {} /\ NoRun.ops = <<>>
    /\ NoRun.clash = FALSE
  <1>1. MaxAttempts \in Nat \ {0}
    BY SkillsAssumption
  <1>2. 0 \in 0..(MaxAttempts - 1)
    BY <1>1
  <1>3. <<>> \in Seq([prior : Names \cup {None}, name : Names, cites : SUBSET Cases])
    OBVIOUS
  <1>4. QED
    BY <1>2, <1>3 DEF NoRun, RunType

\* A run that waits or has not begun.
LEMMA WaitingIs ==
    ASSUME NEW old \in RunType, NEW n \in 0..(MaxAttempts - 1)
    PROVE  LET q == [old EXCEPT !.pc = "queued", !.attempt = n, !.ops = <<>>, !.wrote = {},
                                !.clash = FALSE]
           IN  /\ q \in RunType /\ q.pc = "queued" /\ q.kind = old.kind /\ q.item = old.item
               /\ q.cluster = old.cluster /\ q.wrote = {}
  <1>1. /\ <<>> \in Seq([prior : Names \cup {None}, name : Names, cites : SUBSET Cases])
        /\ {} \in SUBSET ((Names \cup {None}) \X Names)
    OBVIOUS
  <1>2. QED
    BY <1>1 DEF RunType

LEMMA ResumedIs ==
    ASSUME NEW old \in RunType
    PROVE  LET q == [old EXCEPT !.pc = "queued", !.ops = <<>>, !.wrote = {}, !.clash = FALSE]
           IN  /\ q \in RunType /\ q.pc = "queued" /\ q.kind = old.kind /\ q.item = old.item
               /\ q.cluster = old.cluster /\ q.wrote = {}
  <1>1. /\ <<>> \in Seq([prior : Names \cup {None}, name : Names, cites : SUBSET Cases])
        /\ {} \in SUBSET ((Names \cup {None}) \X Names)
    OBVIOUS
  <1>2. QED
    BY <1>1 DEF RunType

LEMMA StaleIs ==
    ASSUME NEW old \in RunType
    PROVE  LET q == [old EXCEPT !.pc = "stale"]
           IN  /\ q \in RunType /\ q.pc = "stale" /\ q.kind = old.kind /\ q.item = old.item
               /\ q.cluster = old.cluster
  BY DEF RunType

LEMMA QueuedIs ==
    ASSUME NEW kind \in {"group", "teach"}, NEW i \in Items, NEW c \in Clusters \cup {None},
           NEW full \in BOOLEAN
    PROVE  LET q == [NoRun EXCEPT !.pc = "queued", !.kind = kind, !.item = i, !.cluster = c,
                                  !.full = full]
           IN  /\ q \in RunType /\ q.pc = "queued" /\ q.kind = kind /\ q.item = i /\ q.cluster = c
               /\ q.wrote = {}
  BY NoRunIs DEF RunType, NoRun

LEMMA NoSkillIs ==
    /\ NoSkill \in SkillType /\ NoSkill.cluster = None /\ NoSkill.cites = {}
    /\ None \notin Clusters /\ None \notin Names
  BY SkillsAssumption DEF NoSkill, SkillType

LEMMA TodoIs ==
    ASSUME NEW t \in Selected \cup {<<>>, <<"clusters", "skills">>}, t # <<>>
    PROVE  /\ Head(t) \in {"vectors", "clusters", "skills"}
           /\ Len(t) > 1 => /\ Tail(t) \in Selected \cup {<<>>, <<"clusters", "skills">>}
                            /\ Tail(t) # <<>>
  <1>1. t \in {<<"vectors">>, <<"clusters">>, <<"skills">>, <<"clusters", "skills">>,
               <<"vectors", "clusters", "skills">>}
    BY DEF Selected, Phases
  <1>2. {<<"vectors">>, <<"clusters">>, <<"skills">>} \subseteq Selected
    BY DEF Selected, Phases
  <1>3. CASE t \in {<<"vectors">>, <<"clusters">>, <<"skills">>}
    <2>1. PICK p \in {"vectors", "clusters", "skills"} : t = <<p>>
      BY <1>3
    <2>2. Len(t) = 1 /\ Head(t) = p
      BY <2>1
    <2>3. ~ (Len(t) > 1)
      BY <2>2
    <2>4. Head(t) \in {"vectors", "clusters", "skills"}
      BY <2>2
    <2>5. QED
      BY <2>3, <2>4, Zenon
  <1>4. CASE t = <<"clusters", "skills">>
    <2>1. Head(t) = "clusters"
      BY <1>4
    <2>2. Tail(t) = <<"skills">>
      BY <1>4
    <2>3. <<"skills">> # <<>>
      OBVIOUS
    <2>4. QED
      BY <1>2, <2>1, <2>2, <2>3
  <1>5. CASE t = <<"vectors", "clusters", "skills">>
    <2>1. Tail(t) = <<"clusters", "skills">> /\ Head(t) = "vectors"
      BY <1>5
    <2>2. <<"clusters", "skills">> # <<>>
      OBVIOUS
    <2>3. Tail(t) # <<>>
      BY <2>1, <2>2, Zenon
    <2>4. Tail(t) \in {<<>>, <<"clusters", "skills">>}
      BY <2>1, Zenon
    <2>5. QED
      BY <2>1, <2>3, <2>4, Zenon
  <1>6. QED
    BY <1>1, <1>3, <1>4, <1>5

LEMMA CliFields ==
    ASSUME IInv
    PROVE  /\ cli \in CliType /\ cli.left \subseteq cli.met
           /\ cli.pc # "idle" => cli.todo # <<>> /\ Phase \in {"vectors", "clusters", "skills"}
  <1>1. /\ cli \in CliType /\ cli.left \subseteq cli.met
        /\ cli.pc # "idle" => cli.todo # <<>>
        /\ cli.todo \in Selected \cup {<<>>, <<"clusters", "skills">>}
    BY DEF IInv, TypeOK, PhaseOk, CliType
  <1>2. QED
    BY <1>1, TodoIs DEF Phase

LEMMA NoCliIs ==
    /\ NoCli \in CliType /\ NoCli.pc = "idle" /\ NoCli.exit = "none" /\ NoCli.todo = <<>>
    /\ NoCli.left = {} /\ NoCli.met = {}
    /\ \A i \in Items : NoCli.found[i] = NoRow
    /\ \A n \in Names : NoCli.files[n] = NoSkill
  <1>1. NoRow \in RowType /\ NoSkill \in SkillType
    BY BackfillAssumption, NoSkillIs DEF NoRow, RowType
  <1>2. QED
    BY <1>1 DEF NoCli, CliType

-----------------------------------------------------------------------------
(* What stays as it was *)

TextStays == \A i \in Items : text[i] # 0 => text'[i] # 0
MembersStay == \A c \in Clusters : members[c] \subseteq members'[c]

LEMMA OnceKeeps ==
    ASSUME IInv, UNCHANGED members, redone \subseteq redone',
           \A q \in RunIds : Grouping(q)' =>
              /\ Grouping(q) /\ run'[q].item = run[q].item
              /\ run'[q].pc = "queued" => run[q].pc = "queued" \/ run[q].item \in redone'
    PROVE  Once'
  <1>1. ASSUME NEW q \in RunIds, Grouping(q)', run'[q].pc = "queued", Clustered(run[q].item)
        PROVE  run'[q].item \in redone'
    BY <1>1 DEF IInv, Once
  <1>2. ASSUME NEW r \in RunIds, NEW q \in RunIds, Grouping(r)', Grouping(q)', r # q,
               run'[r].item = run'[q].item
        PROVE  run'[r].item \in redone'
    BY <1>2 DEF IInv, Once
  <1>3. QED
    BY <1>1, <1>2 DEF Once, Clustered

LEMMA CountedKeeps ==
    ASSUME IInv, UNCHANGED <<members, count>>, redone \subseteq redone', TextStays
    PROVE  Counted'
  <1>1. \A c \in Clusters : members[c] \cap redone' = {} => members[c] \cap redone = {}
    OBVIOUS
  <1>2. ClusteredOnce'
    BY <1>1 DEF IInv, Counted, ClusteredOnce
  <1>3. QED
    BY <1>2 DEF IInv, Counted, Clustered, TextStays

LEMMA RunOkSame ==
    ASSUME IInv, NEW q \in RunIds, run'[q] = run[q], MembersStay, redone \subseteq redone', TextStays
    PROVE  RunOk(q)'
  BY RunParts DEF RunOk, MembersStay, TextStays

LEMMA LessonsSame ==
    ASSUME IInv, NEW q \in RunIds, run'[q] = run[q], UNCHANGED skill
    PROVE  Lessons(q)'
  <1>1. Lessons(q)
    BY RunParts
  <1>2. QED
    BY <1>1 DEF Lessons, Updates, Writing, NoSkill

\* What a step of a run does to the rest: it begins no clustering, and one that goes
\* away has clustered its item, or will not for a reason.
RunsEffect ==
    /\ SkillsTypeOK'
    /\ \A q \in RunIds : RunOk(q)' /\ Lessons(q)'
    /\ Once' /\ Counted' /\ Alone' /\ OffIsQuiet'
    /\ MembersStay /\ lost \subseteq lost'
    /\ UNCHANGED <<indexed, engine, embeds>>
    /\ \A q \in RunIds : Grouping(q)' => Grouping(q) /\ run'[q].item = run[q].item
    /\ embeds => \A q \in RunIds : Grouping(q) =>
          \/ Grouping(q)' /\ run'[q].item = run[q].item
          \/ run[q].item \in Poor \cup lost'
          \/ \E c \in Clusters : run[q].item \in members'[c]

LEMMA OneRun ==
    ASSUME IInv, NEW r \in Active, NEW new \in RunType, run' = [run EXCEPT ![r] = new],
           UNCHANGED <<members, count, skill, indexed, engine, embeds, text>>,
           redone \subseteq redone', redone' \subseteq Items, lost \subseteq lost', lost' \subseteq Items,
           asked' \subseteq Cases, faults' \in 0..MaxFaults,
           RunOk(r)', Lessons(r)',
           Writing(r)' => Writing(r) \/ \A q \in RunIds \ {r} : ~ Writing(q),
           Grouping(r)' => /\ Grouping(r) /\ new.item = run[r].item
                           /\ new.pc = "queued" => run[r].pc = "queued" \/ run[r].item \in redone',
           embeds /\ Grouping(r) => \/ Grouping(r)' /\ new.item = run[r].item
                                    \/ run[r].item \in Poor \cup lost'
                                    \/ Clustered(run[r].item)
    PROVE  RunsEffect
  <1>1. /\ r \in RunIds /\ run \in [RunIds -> RunType] /\ run' \in [RunIds -> RunType]
        /\ run'[r] = new /\ \A q \in RunIds \ {r} : run'[q] = run[q]
    BY RunParts DEF Active
  <1>2. SkillsTypeOK'
    BY <1>1 DEF IInv, TypeOK, SkillsTypeOK
  <1>3. MembersStay /\ TextStays
    BY DEF MembersStay, TextStays
  <1>4. \A q \in RunIds \ {r} : RunOk(q)' /\ Lessons(q)'
    BY <1>1, <1>3, RunOkSame, LessonsSame
  <1>5. \A q \in RunIds : Grouping(q)' =>
              /\ Grouping(q) /\ run'[q].item = run[q].item
              /\ run'[q].pc = "queued" => run[q].pc = "queued" \/ run[q].item \in redone'
    BY <1>1 DEF Grouping
  <1>6. Once' /\ Counted'
    BY <1>3, <1>5, OnceKeeps, CountedKeeps
  <1>7. Alone'
    <2>1. \A q \in RunIds \ {r} : Writing(q)' => Writing(q)
      BY <1>1 DEF Writing
    <2>2. QED
      BY <2>1 DEF IInv, Alone
  <1>8. OffIsQuiet'
    BY <1>1 DEF IInv, OffIsQuiet, Active
  <1>9. embeds => \A q \in RunIds : Grouping(q) =>
          \/ Grouping(q)' /\ run'[q].item = run[q].item
          \/ run[q].item \in Poor \cup lost'
          \/ \E c \in Clusters : run[q].item \in members'[c]
    BY <1>1 DEF Grouping, Clustered
  <1>10. QED
    BY <1>1, <1>2, <1>3, <1>4, <1>5, <1>6, <1>7, <1>8, <1>9 DEF RunsEffect

-----------------------------------------------------------------------------
(* The steps of a run *)

LEMMA SkipDoes ==
    ASSUME IInv, NEW r \in RunIds, Skip(r), UNCHANGED text
    PROVE  RunsEffect
  <1>1. /\ run[r].pc = "queued" /\ GatedOff(r) /\ r \in Active
        /\ run' = [run EXCEPT ![r] = NoRun]
        /\ UNCHANGED <<store, process, faults, history>>
    BY DEF Skip, Active
  <1>2. run'[r] = NoRun /\ run[r] \in RunType
    BY <1>1, RunParts
  <1>3. RunOk(r)' /\ Lessons(r)' /\ ~ Writing(r)' /\ ~ Grouping(r)'
    BY <1>2, NoRunIs DEF RunOk, Lessons, Writing, Grouping
  <1>4. embeds /\ Grouping(r) => run[r].item \in Poor
    BY <1>1 DEF GatedOff, Grouping
  <1>5. /\ UNCHANGED <<members, count, skill, indexed, engine, embeds, text>>
        /\ redone' = redone /\ lost' = lost /\ asked' = asked /\ faults' = faults
    BY <1>1 DEF store, process, history
  <1>6. redone' \subseteq Items /\ lost' \subseteq Items /\ asked' \subseteq Cases /\ faults' \in 0..MaxFaults
    BY <1>5 DEF IInv, TypeOK, SkillsTypeOK
  <1>7. QED
    BY <1>1, <1>3, <1>4, <1>5, <1>6, NoRunIs, OneRun

LEMMA FaultIs ==
    ASSUME IInv, Fault
    PROVE  faults' \in 0..MaxFaults
  <1>1. MaxFaults \in Nat
    BY SkillsAssumption
  <1>2. QED
    BY <1>1 DEF IInv, TypeOK, SkillsTypeOK, Fault

LEMMA RunFailsDoes ==
    ASSUME IInv, NEW r \in RunIds, RunFails(r), UNCHANGED text
    PROVE  RunsEffect
  <1> DEFINE n == run[r].attempt + 1
             again == [run[r] EXCEPT !.pc = "queued", !.attempt = n, !.ops = <<>>, !.wrote = {},
                                     !.clash = FALSE]
             new == IF n = MaxAttempts THEN NoRun ELSE again
  <1>1. /\ r \in Active /\ Fault
        /\ run' = [run EXCEPT ![r] = new]
        /\ lost' = IF n = MaxAttempts THEN lost \cup {run[r].item} ELSE lost
        /\ redone' = IF run[r].pc = "saved" THEN redone \cup {run[r].item} ELSE redone
        /\ UNCHANGED <<store, process, asked>>
    BY RunParts DEF RunFails
  <1>2. /\ run[r] \in RunType /\ RunOk(r) /\ run[r].pc # "none" /\ run[r].pc # "stale"
        /\ run[r].attempt \in 0..(MaxAttempts - 1) /\ MaxAttempts \in Nat \ {0}
    BY <1>1, RunParts, SkillsAssumption DEF Active
  <1>3. n # MaxAttempts => n \in 0..(MaxAttempts - 1)
    BY <1>2
  <1>4. n # MaxAttempts => /\ again \in RunType /\ again.pc = "queued" /\ again.kind = run[r].kind
                           /\ again.item = run[r].item /\ again.cluster = run[r].cluster
                           /\ again.wrote = {}
    BY <1>2, <1>3, WaitingIs
  <1>5. n = MaxAttempts => new = NoRun
    OBVIOUS
  <1>6. n # MaxAttempts => new = again
    OBVIOUS
  <1>7. new \in RunType
    BY <1>4, <1>5, <1>6, NoRunIs
  <1> HIDE DEF n, again, new
  <1>8. run'[r] = new
    BY <1>1, <1>2, RunParts
  <1>9. /\ UNCHANGED <<members, count, skill, indexed, engine, embeds, text>>
        /\ redone \subseteq redone' /\ lost \subseteq lost' /\ asked' = asked
    BY <1>1 DEF store, process
  <1>10. redone' \subseteq Items /\ lost' \subseteq Items /\ asked' \subseteq Cases /\ faults' \in 0..MaxFaults
    BY <1>1, <1>2, <1>9, FaultIs DEF IInv, TypeOK, SkillsTypeOK, RunOk
  <1>11. ~ Writing(r)' /\ Lessons(r)'
    BY <1>4, <1>5, <1>6, <1>8, NoRunIs DEF Writing, Lessons
  <1>12. RunOk(r)'
    BY <1>2, <1>4, <1>5, <1>6, <1>8, <1>9, NoRunIs DEF RunOk
  <1>13. Grouping(r)' => /\ Grouping(r) /\ new.item = run[r].item
                         /\ new.pc = "queued" => run[r].pc = "queued" \/ run[r].item \in redone'
    <2>1. CASE n = MaxAttempts
      BY <1>5, <1>8, <2>1, NoRunIs DEF Grouping
    <2>2. CASE n # MaxAttempts
      BY <1>1, <1>2, <1>4, <1>6, <1>8, <2>2 DEF Grouping, RunOk
    <2>3. QED
      BY <2>1, <2>2
  <1>14. Grouping(r) => (Grouping(r)' /\ new.item = run[r].item) \/ run[r].item \in lost'
    BY <1>1, <1>4, <1>6, <1>8 DEF Grouping
  <1>15. QED
    BY <1>1, <1>7, <1>9, <1>10, <1>11, <1>12, <1>13, <1>14, OneRun

OpType == [prior : Names \cup {None}, name : Names, cites : SUBSET Cases]

LEMMA AnswerIs ==
    ASSUME IInv, NEW i \in Cases, NEW c \in Clusters, NEW shown \in Selections(c),
           NEW ops \in Answers(i, shown)
    PROVE  /\ ops \in Seq(OpType)
           /\ \A j \in DOMAIN ops : ops[j].prior # None =>
                  skill[ops[j].prior].cluster = c /\ skill[ops[j].prior].cites \subseteq ops[j].cites
           /\ \A j, k \in DOMAIN ops : j # k /\ ops[j].prior = ops[k].prior => ops[j].prior = None
  <1>1. shown \subseteq FilesOf(c)
    BY DEF Selections
  <1>2. shown \subseteq Names /\ \A n \in shown : skill[n].cluster = c
    BY <1>1 DEF FilesOf
  <1>3. PICK k \in 0..MaxOps : ops \in [1..k -> Op(i, shown)]
    BY DEF Answers
  <1>4. \A n \in shown : skill[n] \in SkillType
    BY <1>2 DEF IInv, TypeOK, SkillsTypeOK
  <1>5. \A o \in Op(i, shown) :
           /\ o \in OpType
           /\ o.prior # None => o.prior \in shown /\ skill[o.prior].cites \subseteq o.cites
    BY <1>2, <1>4 DEF Op, Cites, OpType, SkillType
  <1>6. k \in Nat /\ DOMAIN ops = 1..k /\ \A j \in 1..k : ops[j] \in Op(i, shown)
    BY <1>3, SkillsAssumption
  <1>7. ops \in Seq(OpType)
    BY <1>3, <1>5, <1>6
  <1>8. \A j, l \in DOMAIN ops : j # l /\ ops[j].prior = ops[l].prior => ops[j].prior = None
    BY DEF Answers
  <1>9. QED
    BY <1>2, <1>5, <1>6, <1>7, <1>8

LEMMA WritersDiffer ==
    ASSUME IInv, NEW r \in RunIds, run[r].kind = "teach", run[r].pc # "none", ~ Locked(r)
    PROVE  \A q \in RunIds \ {r} : ~ Writing(q)
  <1>1. run[r].item \in Cases
    BY RunParts DEF RunOk
  <1>2. \A q \in RunIds : Writing(q) => /\ q \in Active /\ run[q].pc # "queued"
                                        /\ run[q].kind = "teach" /\ run[q].item \in Cases
    BY RunParts DEF RunOk, Writing, Active, RunType
  <1>3. QED
    BY <1>1, <1>2 DEF Locked, Kin

LEMMA AskDoes ==
    ASSUME IInv, NEW r \in RunIds, Ask(r), UNCHANGED text
    PROVE  RunsEffect
  <1>1. /\ run[r].pc = "queued" /\ run[r].kind = "teach" /\ ~ Locked(r) /\ r \in Active
        /\ asked' = asked \cup {run[r].item}
        /\ UNCHANGED <<store, process, faults, redone, lost>>
    BY DEF Ask, Active
  <1>2. PICK shown \in Selections(run[r].cluster) : \E ops \in Answers(run[r].item, shown) :
          run' = IF ops = <<>> THEN [run EXCEPT ![r] = NoRun]
                 ELSE [run EXCEPT ![r].pc = "write", ![r].ops = ops]
    BY DEF Ask
  <1>3. PICK ops \in Answers(run[r].item, shown) :
          run' = IF ops = <<>> THEN [run EXCEPT ![r] = NoRun]
                 ELSE [run EXCEPT ![r].pc = "write", ![r].ops = ops]
    BY <1>2
  <1>4. /\ run[r] \in RunType /\ RunOk(r) /\ run[r].item \in Cases /\ run[r].cluster \in Clusters
        /\ run[r].wrote = {} /\ run[r].item \in Items /\ text[run[r].item] # 0
    BY <1>1, RunParts DEF RunOk
  <1>5. /\ ops \in Seq(OpType)
        /\ \A j \in DOMAIN ops : ops[j].prior # None =>
              /\ skill[ops[j].prior].cluster = run[r].cluster
              /\ skill[ops[j].prior].cites \subseteq ops[j].cites
        /\ \A j, k \in DOMAIN ops : j # k /\ ops[j].prior = ops[k].prior => ops[j].prior = None
    BY <1>4, AnswerIs
  <1>6. \A q \in RunIds \ {r} : ~ Writing(q)
    BY <1>1, WritersDiffer
  <1>7. /\ UNCHANGED <<members, count, skill, indexed, engine, embeds, text>>
        /\ redone' = redone /\ lost' = lost /\ faults' = faults
    BY <1>1 DEF store, process
  <1>8. redone' \subseteq Items /\ lost' \subseteq Items /\ asked' \subseteq Cases /\ faults' \in 0..MaxFaults
    BY <1>1, <1>4, <1>7 DEF IInv, TypeOK, SkillsTypeOK
  <1>9. ~ Grouping(r)
    BY <1>1 DEF Grouping
  <1>10. CASE ops = <<>>
    <2>1. run' = [run EXCEPT ![r] = NoRun]
      BY <1>3, <1>10
    <2>2. run'[r] = NoRun
      BY <2>1, RunParts
    <2>3. RunOk(r)' /\ Lessons(r)' /\ ~ Writing(r)' /\ ~ Grouping(r)'
      BY <2>2, NoRunIs DEF RunOk, Lessons, Writing, Grouping
    <2>4. QED
      BY <1>1, <1>7, <1>8, <1>9, <2>1, <2>3, NoRunIs, OneRun
  <1>11. CASE ops # <<>>
    <2> DEFINE new == [run[r] EXCEPT !.pc = "write", !.ops = ops]
    <2>1. run' = [run EXCEPT ![r] = new]
      BY <1>3, <1>11, RunParts
    <2>2. /\ new \in RunType /\ new.pc = "write" /\ new.kind = "teach" /\ new.item = run[r].item
          /\ new.cluster = run[r].cluster /\ new.ops = ops /\ new.wrote = {}
      BY <1>1, <1>4, <1>5 DEF RunType, OpType
    <2> HIDE DEF new
    <2>3. run'[r] = new
      BY <2>1, RunParts
    <2>4. RunOk(r)' /\ ~ Grouping(r)'
      BY <1>4, <1>7, <1>11, <2>2, <2>3 DEF RunOk, Grouping
    <2>5. Lessons(r)'
      BY <1>5, <1>7, <2>2, <2>3 DEF Lessons, Updates
    <2>6. QED
      BY <1>1, <1>6, <1>7, <1>8, <1>9, <2>1, <2>2, <2>4, <2>5, OneRun
  <1>12. QED
    BY <1>10, <1>11

\* What a run writes, and what it knows then.
LEMMA WriteIs ==
    ASSUME IInv, NEW r \in RunIds, Write(r)
    PROVE  LET op == Head(run[r].ops)
               c == run[r].cluster
           IN  /\ op \in OpType /\ c \in Clusters /\ run[r].kind = "teach" /\ r \in Active
               /\ run[r].pc = "write" /\ run[r].item \in Items /\ text[run[r].item] # 0
               /\ skill' = [skill EXCEPT ![op.name] = [cluster |-> c, cites |-> op.cites]]
               /\ \E new \in RunType :
                    /\ run' = [run EXCEPT ![r] = new]
                    /\ new.kind = "teach" /\ new.item = run[r].item /\ new.cluster = c
                    /\ new.pc \in {"write", "reap"} /\ (new.pc = "write" => new.ops # <<>>)
                    /\ new.ops = Tail(run[r].ops)
                    /\ new.wrote = run[r].wrote \cup {<<op.prior, op.name>>}
                    /\ ~ new.clash => /\ ~ run[r].clash
                                      /\ skill[op.name] = NoSkill \/ op.name = op.prior
               /\ UNCHANGED <<members, count, indexed, process, faults, history>>
  <1> DEFINE op == Head(run[r].ops)
             gone == Exists(op.name) /\ op.name # op.prior
             last == Len(run[r].ops) = 1
             new == [run[r] EXCEPT !.ops = Tail(run[r].ops),
                                   !.wrote = run[r].wrote \cup {<<op.prior, op.name>>},
                                   !.clash = run[r].clash \/ gone,
                                   !.pc = IF last THEN "reap" ELSE "write"]
  <1>1. /\ run[r] \in RunType /\ RunOk(r) /\ run[r].pc = "write"
        /\ run \in [RunIds -> RunType] /\ run[r].ops \in Seq(OpType) /\ run[r].clash \in BOOLEAN
        /\ run[r].wrote \subseteq (Names \cup {None}) \X Names
    BY RunParts DEF Write, RunType, OpType
  <1>2. /\ run[r].kind = "teach" /\ run[r].cluster \in Clusters /\ run[r].ops # <<>>
        /\ run[r].item \in Items /\ text[run[r].item] # 0
    BY <1>1 DEF RunOk, RunType
  <1>3. op \in OpType /\ Tail(run[r].ops) \in Seq(OpType)
    BY <1>1, <1>2
  <1>4. ~ last => Tail(run[r].ops) # <<>>
    <2>1. Len(run[r].ops) \in Nat \ {0} /\ Len(Tail(run[r].ops)) = Len(run[r].ops) - 1
      BY <1>1, <1>2, EmptySeq, HeadTailProperties
    <2>2. ~ last => Len(Tail(run[r].ops)) # 0
      BY <2>1
    <2>3. QED
      BY <2>2
  <1>5. run' = [run EXCEPT ![r] = new]
    BY <1>1 DEF Write
  <1>6. op.prior \in Names \cup {None} /\ op.name \in Names
    BY <1>3 DEF OpType
  <1>7. (run[r].clash \/ gone) \in BOOLEAN
    OBVIOUS
  <1>8. run[r].wrote \cup {<<op.prior, op.name>>} \in SUBSET ((Names \cup {None}) \X Names)
    BY <1>1, <1>6
  <1> HIDE DEF op, gone, last
  <1>9. /\ new \in RunType /\ new.kind = "teach" /\ new.item = run[r].item
        /\ new.cluster = run[r].cluster /\ new.ops = Tail(run[r].ops)
        /\ new.wrote = run[r].wrote \cup {<<op.prior, op.name>>}
    BY <1>1, <1>2, <1>3, <1>7, <1>8 DEF RunType, OpType
  <1>10. new.pc = IF last THEN "reap" ELSE "write"
    BY <1>1 DEF RunType
  <1>11. new.clash = (run[r].clash \/ gone)
    BY <1>1 DEF RunType
  <1>12. ~ new.clash => ~ run[r].clash /\ (skill[op.name] = NoSkill \/ op.name = op.prior)
    BY <1>11 DEF gone, Exists
  <1> HIDE DEF new
  <1>13. /\ skill' = [skill EXCEPT ![op.name] = [cluster |-> run[r].cluster, cites |-> op.cites]]
         /\ UNCHANGED <<members, count, indexed, process, faults, history>>
    BY DEF Write, op
  <1>14. r \in Active
    BY <1>1 DEF Active
  <1>15. QED
    BY <1>1, <1>2, <1>3, <1>4, <1>5, <1>9, <1>10, <1>12, <1>13, <1>14 DEF op

LEMMA WriteKeepsLessons ==
    ASSUME IInv, NEW r \in RunIds, Write(r)
    PROVE  Lessons(r)'
  <1> DEFINE op == Head(run[r].ops)
             c == run[r].cluster
             ops == run[r].ops
             more == Tail(run[r].ops)
  <1>1. /\ op \in OpType /\ c \in Clusters
        /\ run[r].pc = "write"
        /\ skill' = [skill EXCEPT ![op.name] = [cluster |-> c, cites |-> op.cites]]
    BY WriteIs
  <1>2. PICK new \in RunType :
                    /\ run' = [run EXCEPT ![r] = new]
                    /\ new.cluster = c /\ new.ops = more
                    /\ new.wrote = run[r].wrote \cup {<<op.prior, op.name>>}
                    /\ ~ new.clash => /\ ~ run[r].clash
                                      /\ skill[op.name] = NoSkill \/ op.name = op.prior
    BY WriteIs
  <1>3. run'[r] = new
    BY <1>2, RunParts
  <1> SUFFICES ASSUME ~ new.clash PROVE Lessons(r)'
    BY <1>3 DEF Lessons
  <1>4. /\ ~ run[r].clash /\ Lessons(r) /\ run[r] \in RunType
        /\ skill[op.name] = NoSkill \/ op.name = op.prior
    BY <1>2, RunParts
  <1>5. /\ ops \in Seq(OpType) /\ ops # <<>>
        /\ run[r].wrote \subseteq (Names \cup {None}) \X Names
    BY <1>1, RunParts DEF RunType, OpType, RunOk
  <1>6. /\ \A j \in DOMAIN ops : ops[j].prior # None =>
                  /\ skill[ops[j].prior].cluster = c
                  /\ skill[ops[j].prior].cites \subseteq ops[j].cites
                  /\ \A w \in run[r].wrote : w[1] # ops[j].prior
        /\ \A j, k \in DOMAIN ops : j # k /\ ops[j].prior = ops[k].prior => ops[j].prior = None
        /\ \A w \in run[r].wrote : w[1] # None =>
                  /\ skill[w[2]].cluster = c
                  /\ skill[w[1]].cites \subseteq skill[w[2]].cites
                  /\ skill[w[1]].cluster = c
    BY <1>1, <1>4 DEF Lessons, Updates, Writing
  <1>7. /\ 1 \in DOMAIN ops /\ op = ops[1]
        /\ \A j \in DOMAIN more : j + 1 \in DOMAIN ops /\ j + 1 # 1 /\ more[j] = ops[j + 1]
        /\ \A j, k \in DOMAIN more : j # k => j + 1 # k + 1
        /\ \A j \in DOMAIN ops : ops[j] \in OpType
    BY <1>5
  <1>8. /\ skill \in [Names -> SkillType] /\ op.name \in Names /\ op.prior \in Names \cup {None}
        /\ op.cites \subseteq Cases
    BY <1>1 DEF IInv, TypeOK, SkillsTypeOK, OpType
  <1>9. /\ skill'[op.name] = [cluster |-> c, cites |-> op.cites]
        /\ skill'[op.name].cluster = c /\ skill'[op.name].cites = op.cites
        /\ \A n \in Names \ {op.name} : skill'[n] = skill[n]
    BY <1>1, <1>8
  <1>10. \A j \in DOMAIN more :
            /\ more[j].prior \in Names \cup {None}
            /\ more[j].prior # None => more[j].prior # op.prior /\ skill[more[j].prior].cluster = c
                                       /\ skill[more[j].prior].cites \subseteq more[j].cites
                                       /\ \A w \in run[r].wrote : w[1] # more[j].prior
    <2>1. SUFFICES ASSUME NEW j \in DOMAIN more
                   PROVE  /\ more[j].prior \in Names \cup {None}
                          /\ more[j].prior # None =>
                                /\ more[j].prior # op.prior /\ skill[more[j].prior].cluster = c
                                /\ skill[more[j].prior].cites \subseteq more[j].cites
                                /\ \A w \in run[r].wrote : w[1] # more[j].prior
      OBVIOUS
    <2>2. PICK k \in DOMAIN ops : k # 1 /\ more[j] = ops[k]
      BY <1>7
    <2>3. 1 \in DOMAIN ops /\ op = ops[1] /\ ops[k].prior \in Names \cup {None}
      BY <1>7 DEF OpType
    <2>4. ops[k].prior # None =>
              /\ ops[k].prior # ops[1].prior /\ skill[ops[k].prior].cluster = c
              /\ skill[ops[k].prior].cites \subseteq ops[k].cites
              /\ \A w \in run[r].wrote : w[1] # ops[k].prior
      BY <1>6, <2>2, <2>3, Zenon
    <2>5. QED
      BY <2>2, <2>3, <2>4, Zenon
  <1> HIDE DEF op, c, ops, more
  <1>11. \A j \in DOMAIN more : more[j].prior # None => more[j].prior # op.name
    BY <1>1, <1>4, <1>10, NoSkillIs
  <1>12. \A j \in DOMAIN more : more[j].prior # None =>
                  /\ skill'[more[j].prior].cluster = c
                  /\ skill'[more[j].prior].cites \subseteq more[j].cites
                  /\ \A w \in new.wrote : w[1] # more[j].prior
    BY <1>2, <1>9, <1>10, <1>11
  <1>13. \A j, k \in DOMAIN more : j # k /\ more[j].prior = more[k].prior => more[j].prior = None
    BY <1>6, <1>7
  <1>14. ASSUME NEW w \in run[r].wrote, w[1] # None
         PROVE  /\ skill'[w[2]].cluster = c
                /\ skill'[w[1]].cites \subseteq skill'[w[2]].cites
                /\ skill'[w[1]].cluster = c
    <2>1. w[1] \in Names /\ w[2] \in Names /\ w[1] # op.prior
      BY <1>1, <1>5, <1>6, <1>7, <1>14
    <2>2. /\ skill[w[2]].cluster = c /\ skill[w[1]].cluster = c
          /\ skill[w[1]].cites \subseteq skill[w[2]].cites
      BY <1>6, <1>14
    <2>3. w[1] # op.name
      BY <1>1, <1>4, <2>1, <2>2, NoSkillIs
    <2>4. CASE w[2] # op.name
      BY <1>9, <2>1, <2>2, <2>3, <2>4
    <2>5. CASE w[2] = op.name
      <3>1. op.name = op.prior /\ op.prior # None
        BY <1>1, <1>4, <1>8, <2>2, <2>5, NoSkillIs
      <3>2. skill[op.prior].cites \subseteq op.cites
        BY <1>6, <1>7, <3>1
      <3>3. QED
        BY <1>9, <2>1, <2>2, <2>3, <2>5, <3>1, <3>2
    <2>6. QED
      BY <2>4, <2>5
  <1>15. op.prior # None =>
           /\ skill'[op.name].cluster = c
           /\ skill'[op.prior].cites \subseteq skill'[op.name].cites
           /\ skill'[op.prior].cluster = c
    <2> SUFFICES ASSUME op.prior # None
                 PROVE  /\ skill'[op.name].cluster = c
                        /\ skill'[op.prior].cites \subseteq skill'[op.name].cites
                        /\ skill'[op.prior].cluster = c
      OBVIOUS
    <2>1. skill[op.prior].cluster = c /\ skill[op.prior].cites \subseteq op.cites
      BY <1>6, <1>7
    <2>2. QED
      BY <1>8, <1>9, <2>1
  <1>16. \A w \in new.wrote : w[1] # None =>
                  /\ skill'[w[2]].cluster = c
                  /\ skill'[w[1]].cites \subseteq skill'[w[2]].cites
                  /\ skill'[w[1]].cluster = c
    BY <1>2, <1>14, <1>15
  <1>17. QED
    BY <1>2, <1>3, <1>12, <1>13, <1>16 DEF Lessons, Updates

\* While a run writes, the others know of no skill.
LEMMA OthersDoNotWrite ==
    ASSUME IInv, NEW r \in RunIds, Writing(r), NEW q \in RunIds \ {r}, run'[q] = run[q]
    PROVE  Lessons(q)'
  <1>1. ~ Writing(q)
    BY DEF IInv, Alone
  <1>2. QED
    BY <1>1 DEF Lessons, Writing

LEMMA WriteDoes ==
    ASSUME IInv, NEW r \in RunIds, Write(r), UNCHANGED text
    PROVE  RunsEffect
  <1> DEFINE op == Head(run[r].ops)
             c == run[r].cluster
             md == [cluster |-> c, cites |-> op.cites]
  <1>1. /\ op \in OpType /\ c \in Clusters /\ run[r].kind = "teach" /\ r \in Active
        /\ run[r].pc = "write" /\ run[r].item \in Items /\ text[run[r].item] # 0
        /\ skill' = [skill EXCEPT ![op.name] = md]
        /\ UNCHANGED <<members, count, indexed, process, faults, history>>
    BY WriteIs
  <1>2. PICK new \in RunType :
                    /\ run' = [run EXCEPT ![r] = new]
                    /\ new.kind = "teach" /\ new.item = run[r].item /\ new.cluster = c
                    /\ new.pc \in {"write", "reap"} /\ (new.pc = "write" => new.ops # <<>>)
    BY WriteIs
  <1>3. md \in SkillType
    BY <1>1 DEF SkillType, OpType
  <1> HIDE DEF op, c, md
  <1>4. /\ run \in [RunIds -> RunType] /\ run' \in [RunIds -> RunType]
        /\ run'[r] = new /\ \A q \in RunIds \ {r} : run'[q] = run[q]
    BY <1>2, RunParts
  <1>5. /\ UNCHANGED <<members, count, indexed, engine, embeds, faults, redone, lost, asked, text>>
    BY <1>1 DEF process, history
  <1>6. SkillsTypeOK'
    <2>1. skill' \in [Names -> SkillType]
      BY <1>1, <1>3 DEF IInv, TypeOK, SkillsTypeOK
    <2>2. QED
      BY <1>4, <1>5, <2>1 DEF IInv, TypeOK, SkillsTypeOK
  <1>7. MembersStay /\ TextStays
    BY <1>5 DEF MembersStay, TextStays
  <1>8. RunOk(r)' /\ ~ Grouping(r)' /\ ~ Grouping(r) /\ Writing(r)
    <2>1. run[r].item \in Cases
      BY <1>1, RunParts DEF RunOk
    <2>2. RunOk(r)'
      BY <1>1, <1>2, <1>4, <1>5, <2>1 DEF RunOk
    <2>3. QED
      BY <1>1, <1>2, <1>4, <2>2 DEF Grouping, Writing
  <1>9. \A q \in RunIds \ {r} : RunOk(q)' /\ Lessons(q)' /\ ~ Writing(q)'
    <2>1. \A q \in RunIds \ {r} : RunOk(q)'
      BY <1>4, <1>5, <1>7, RunOkSame
    <2>2. \A q \in RunIds \ {r} : ~ Writing(q)'
      BY <1>4, <1>8 DEF IInv, Alone, Writing
    <2>3. QED
      BY <1>4, <1>8, <2>1, <2>2, OthersDoNotWrite
  <1>10. Lessons(r)'
    BY WriteKeepsLessons
  <1>11. Alone'
    BY <1>9 DEF Alone
  <1>12. \A q \in RunIds : /\ Grouping(q)' <=> Grouping(q)
                           /\ Grouping(q) => run'[q] = run[q]
    BY <1>4, <1>8 DEF Grouping
  <1>13. Once' /\ Counted'
    BY <1>5, <1>7, <1>12, OnceKeeps, CountedKeeps
  <1>14. OffIsQuiet'
    BY <1>1, <1>5 DEF IInv, OffIsQuiet
  <1>15. QED
    BY <1>5, <1>6, <1>7, <1>8, <1>9, <1>10, <1>11, <1>12, <1>13, <1>14 DEF RunsEffect

\* A file that was left for a new name, and the one that has what it cites.
LEMMA RenamedIs ==
    ASSUME IInv, NEW r \in RunIds, run[r].pc = "reap", ~ run[r].clash, NEW p \in Renamed(r)
    PROVE  /\ p \in Names /\ p # None
           /\ \A w \in run[r].wrote : w[2] # p
           /\ skill[p].cluster = run[r].cluster
           /\ \E w \in run[r].wrote : /\ w[1] = p /\ w[2] \in Names /\ w[2] # p
                                      /\ skill[w[2]].cluster = run[r].cluster
                                      /\ skill[p].cites \subseteq skill[w[2]].cites
  <1>1. /\ p \in Names /\ skill[p] # NoSkill /\ \A w \in run[r].wrote : w[2] # p
        /\ \E w \in run[r].wrote : w[1] = p /\ w[2] # p
    BY DEF Renamed, Exists
  <1>2. run[r].wrote \subseteq (Names \cup {None}) \X Names
    BY RunParts DEF RunType
  <1>3. p # None
    BY <1>1, NoSkillIs
  <1>4. \A w \in run[r].wrote : w[1] # None =>
                  /\ skill[w[2]].cluster = run[r].cluster
                  /\ skill[w[1]].cites \subseteq skill[w[2]].cites
                  /\ skill[w[1]].cluster = run[r].cluster \/ skill[w[1]] = NoSkill
    BY RunParts DEF Lessons, Writing
  <1>5. QED
    BY <1>1, <1>2, <1>3, <1>4

LEMMA ReapKeepsLessons ==
    ASSUME IInv, NEW r \in RunIds, run[r].pc = "reap", run'[r] = run[r],
           NEW p \in Renamed(r), skill' = [skill EXCEPT ![p] = NoSkill]
    PROVE  Lessons(r)'
  <1> SUFFICES ASSUME ~ run[r].clash PROVE Lessons(r)'
    BY DEF Lessons
  <1>1. /\ p \in Names /\ \A w \in run[r].wrote : w[2] # p
        /\ skill[p].cluster = run[r].cluster
    BY RenamedIs
  <1>2. /\ run[r] \in RunType /\ Lessons(r) /\ RunOk(r) /\ skill \in [Names -> SkillType]
        /\ run[r].wrote \subseteq (Names \cup {None}) \X Names
    BY RunParts DEF RunType, IInv, TypeOK, SkillsTypeOK
  <1>3. /\ skill'[p] = NoSkill /\ skill'[p].cites = {}
        /\ \A n \in Names \ {p} : skill'[n] = skill[n]
    BY <1>1, <1>2, NoSkillIs
  <1>4. ASSUME NEW w \in run[r].wrote, w[1] # None
        PROVE  /\ skill'[w[2]].cluster = run[r].cluster
               /\ skill'[w[1]].cites \subseteq skill'[w[2]].cites
               /\ skill'[w[1]].cluster = run[r].cluster \/ skill'[w[1]] = NoSkill
    <2>1. w[1] \in Names /\ w[2] \in Names /\ w[2] # p
      BY <1>1, <1>2, <1>4
    <2>2. /\ skill[w[2]].cluster = run[r].cluster
          /\ skill[w[1]].cites \subseteq skill[w[2]].cites
          /\ skill[w[1]].cluster = run[r].cluster \/ skill[w[1]] = NoSkill
      BY <1>2, <1>4 DEF Lessons, Writing
    <2>3. QED
      BY <1>3, <2>1, <2>2
  <1>5. QED
    BY <1>4 DEF Lessons

LEMMA ReapDoes ==
    ASSUME IInv, NEW r \in RunIds, Reap(r), UNCHANGED text
    PROVE  RunsEffect
  <1>1. /\ run[r].pc = "reap" /\ r \in Active
        /\ UNCHANGED <<members, count, indexed, engine, embeds, faults, redone, lost, asked, text>>
    BY DEF Reap, Active, process, history
  <1>2. /\ run[r] \in RunType /\ RunOk(r) /\ run \in [RunIds -> RunType]
        /\ run[r].kind = "teach"
    BY <1>1, RunParts DEF RunOk, RunType
  <1>3. ~ Grouping(r) /\ Writing(r)
    BY <1>1, <1>2 DEF Grouping, Writing
  <1>4. CASE run' = [run EXCEPT ![r] = NoRun] /\ UNCHANGED skill
    <2>1. run'[r] = NoRun
      BY <1>2, <1>4
    <2>2. RunOk(r)' /\ Lessons(r)' /\ ~ Writing(r)' /\ ~ Grouping(r)'
      BY <2>1, NoRunIs DEF RunOk, Lessons, Writing, Grouping
    <2>3. /\ redone \subseteq redone' /\ lost \subseteq lost'
          /\ redone' \subseteq Items /\ lost' \subseteq Items /\ asked' \subseteq Cases /\ faults' \in 0..MaxFaults
      BY <1>1 DEF IInv, TypeOK, SkillsTypeOK
    <2>4. QED
      BY <1>1, <1>3, <1>4, <2>2, <2>3, NoRunIs, OneRun
  <1>5. CASE UNCHANGED run /\ \E p \in Renamed(r) : skill' = [skill EXCEPT ![p] = NoSkill]
    <2>1. PICK p \in Renamed(r) : skill' = [skill EXCEPT ![p] = NoSkill]
      BY <1>5
    <2>2. p \in Names
      BY DEF Renamed
    <2>3. SkillsTypeOK'
      <3>1. skill' \in [Names -> SkillType]
        BY <2>1, <2>2, NoSkillIs DEF IInv, TypeOK, SkillsTypeOK
      <3>2. QED
        BY <1>1, <1>5, <3>1 DEF IInv, TypeOK, SkillsTypeOK
    <2>4. MembersStay /\ TextStays
      BY <1>1 DEF MembersStay, TextStays
    <2>5. \A q \in RunIds : run'[q] = run[q] /\ RunOk(q)' /\ (Grouping(q)' <=> Grouping(q))
      BY <1>1, <1>5, <2>4, RunOkSame DEF Grouping
    <2>6. \A q \in RunIds : Lessons(q)'
      BY <1>1, <1>3, <2>1, <2>5, ReapKeepsLessons, OthersDoNotWrite
    <2>7. Once' /\ Counted'
      BY <1>1, <2>4, <2>5, OnceKeeps, CountedKeeps
    <2>8. Alone' /\ OffIsQuiet'
      BY <1>1, <1>5 DEF IInv, Alone, OffIsQuiet, Active, Writing
    <2>9. QED
      BY <1>1, <2>3, <2>4, <2>5, <2>6, <2>7, <2>8 DEF RunsEffect
  <1>6. QED
    BY <1>4, <1>5 DEF Reap

\* What emit makes of the runs.
EnqueuedIn(R, kind, i, c, next) ==
    /\ kind \notin Registered => next = R
    /\ kind \in Registered =>
          \E new \in RunIds : \E q \in RunType :
              /\ R[new].pc = "none" /\ next = [R EXCEPT ![new] = q]
              /\ q.pc = "queued" /\ q.kind = kind /\ q.item = i /\ q.cluster = c
              /\ q.wrote = {}

LEMMA EnqueuedIs ==
    ASSUME NEW R \in [RunIds -> RunType], NEW kind \in {"group", "teach"}, NEW i \in Items,
           NEW c \in Clusters \cup {None}, \E r \in RunIds : R[r].pc = "none",
           NEW next \in {Enqueued(R, kind, i, c, TRUE), Enqueued(R, kind, i, c, FALSE)}
    PROVE  EnqueuedIn(R, kind, i, c, next)
  <1> DEFINE new == CHOOSE r \in RunIds : R[r].pc = "none"
             q == [NoRun EXCEPT !.pc = "queued", !.kind = kind, !.item = i, !.cluster = c,
                                !.full = TRUE]
             p == [NoRun EXCEPT !.pc = "queued", !.kind = kind, !.item = i, !.cluster = c,
                                !.full = FALSE]
  <1>1. new \in RunIds /\ R[new].pc = "none"
    OBVIOUS
  <1>2. /\ q \in RunType /\ q.pc = "queued" /\ q.kind = kind /\ q.item = i /\ q.cluster = c
        /\ q.wrote = {}
    BY NoRunIs DEF RunType, NoRun
  <1>3. /\ p \in RunType /\ p.pc = "queued" /\ p.kind = kind /\ p.item = i /\ p.cluster = c
        /\ p.wrote = {}
    BY NoRunIs DEF RunType, NoRun
  <1>4. kind \in Registered => next \in {[R EXCEPT ![new] = q], [R EXCEPT ![new] = p]}
    BY DEF Enqueued
  <1>5. kind \notin Registered => next = R
    BY DEF Enqueued
  <1> HIDE DEF new, q, p
  <1>6. QED
    BY <1>1, <1>2, <1>3, <1>4, <1>5 DEF EnqueuedIn

LEMMA EmitDoes ==
    ASSUME IInv, NEW r \in RunIds, Emit(r), UNCHANGED text
    PROVE  RunsEffect
  <1> DEFINE ended == [run EXCEPT ![r] = NoRun]
             i == run[r].item
             c == run[r].cluster
  <1>1. /\ run[r].pc = "saved" /\ r \in Active
        /\ UNCHANGED <<members, count, skill, indexed, engine, embeds, faults, redone, lost, asked, text>>
        /\ run' = IF i \in Cases THEN Enqueued(ended, "teach", i, c, TRUE) ELSE ended
    BY DEF Emit, Active, process, history, store
  <1>2. /\ run[r] \in RunType /\ RunOk(r) /\ run \in [RunIds -> RunType]
        /\ i \in Items /\ text[i] # 0 /\ c \in Clusters /\ i \in members[c]
    BY <1>1, RunParts DEF RunOk
  <1>3. /\ ended \in [RunIds -> RunType] /\ ended[r] = NoRun
        /\ \A q \in RunIds \ {r} : ended[q] = run[q]
    BY <1>2, NoRunIs
  <1> HIDE DEF ended, i, c
  <1>4. /\ run' \in [RunIds -> RunType]
        /\ \A q \in RunIds : \/ q # r /\ run'[q] = run[q]
                             \/ q = r /\ run'[q] = NoRun
                             \/ /\ run'[q].pc = "queued" /\ run'[q].kind = "teach"
                                /\ run'[q].item = i /\ run'[q].cluster = c /\ run'[q].wrote = {}
                                /\ i \in Cases /\ engine # "off"
                                /\ q = r \/ run[q].pc = "none"
    <2>1. CASE run' = ended
      BY <1>3, <2>1
    <2>2. CASE i \in Cases /\ run' = Enqueued(ended, "teach", i, c, TRUE) /\ "teach" \in Registered
      <3>1. \E q \in RunIds : ended[q].pc = "none"
        BY <1>3, NoRunIs
      <3>2. PICK new \in RunIds : \E q \in RunType :
                    /\ ended[new].pc = "none" /\ run' = [ended EXCEPT ![new] = q]
                    /\ q.pc = "queued" /\ q.kind = "teach" /\ q.item = i /\ q.cluster = c
                    /\ q.wrote = {}
        <4>1. TRUE \in BOOLEAN /\ "teach" \in {"group", "teach"} /\ c \in Clusters \cup {None}
          BY <1>2
        <4>2. /\ run' \in {Enqueued(ended, "teach", i, c, TRUE), Enqueued(ended, "teach", i, c, FALSE)}
              /\ "teach" \in Registered
          BY <2>2
        <4>3. EnqueuedIn(ended, "teach", i, c, run')
          BY <1>2, <1>3, <3>1, <4>1, <4>2, EnqueuedIs
        <4>4. QED
          BY <4>2, <4>3 DEF EnqueuedIn
      <3>3. PICK q \in RunType :
                    /\ ended[new].pc = "none" /\ run' = [ended EXCEPT ![new] = q]
                    /\ q.pc = "queued" /\ q.kind = "teach" /\ q.item = i /\ q.cluster = c
                    /\ q.wrote = {}
        BY <3>2
      <3>4. run' \in [RunIds -> RunType] /\ run'[new] = q
            /\ \A s \in RunIds \ {new} : run'[s] = ended[s]
        BY <1>3, <3>3
      <3>5. engine # "off"
        BY <2>2 DEF Registered
      <3>6. QED
        BY <1>3, <2>2, <3>3, <3>4, <3>5
    <2>3. "teach" \notin Registered /\ i \in Cases => Enqueued(ended, "teach", i, c, TRUE) = ended
      BY DEF Enqueued
    <2>4. QED
      BY <1>1, <2>1, <2>2, <2>3
  <1>5. SkillsTypeOK'
    BY <1>1, <1>4 DEF IInv, TypeOK, SkillsTypeOK
  <1>6. MembersStay /\ TextStays
    BY <1>1 DEF MembersStay, TextStays
  <1>7. ASSUME NEW q \in RunIds
        PROVE  /\ RunOk(q)' /\ Lessons(q)' /\ (Writing(q)' => Writing(q))
               /\ Grouping(q)' => Grouping(q) /\ run'[q] = run[q]
               /\ q # r /\ Grouping(q) => run'[q] = run[q]
    <2>1. CASE q # r /\ run'[q] = run[q]
      BY <1>1, <1>6, <2>1, RunOkSame, LessonsSame DEF Writing, Grouping
    <2>2. CASE q = r /\ run'[q] = NoRun
      BY <2>2, NoRunIs DEF RunOk, Lessons, Writing, Grouping
    <2>3. CASE /\ run'[q].pc = "queued" /\ run'[q].kind = "teach"
               /\ run'[q].item = i /\ run'[q].cluster = c /\ run'[q].wrote = {}
               /\ i \in Cases
               /\ q = r \/ run[q].pc = "none"
      <3>1. RunOk(q)'
        BY <1>1, <1>2, <2>3 DEF RunOk
      <3>2. ~ Writing(q)' /\ Lessons(q)'
        BY <2>3 DEF Writing, Lessons
      <3>3. ~ Grouping(q)' /\ (q # r => ~ Grouping(q))
        BY <2>3 DEF Grouping
      <3>4. QED
        BY <3>1, <3>2, <3>3
    <2>4. QED
      BY <1>4, <2>1, <2>2, <2>3
  <1>8. Once' /\ Counted'
    BY <1>1, <1>6, <1>7, OnceKeeps, CountedKeeps
  <1>9. Alone'
    BY <1>7 DEF IInv, Alone
  <1>10. OffIsQuiet'
    BY <1>1, <1>4 DEF IInv, OffIsQuiet, Active
  <1>11. \E d \in Clusters : i \in members'[d]
    BY <1>1, <1>2
  <1>12. QED
    BY <1>1, <1>5, <1>6, <1>7, <1>8, <1>9, <1>10, <1>11 DEF RunsEffect, Grouping, i

LEMMA SaveDoes ==
    ASSUME IInv, NEW r \in RunIds, NEW c \in Clusters, Save(r, c), UNCHANGED text
    PROVE  RunsEffect
  <1> DEFINE i == run[r].item
             new == [run[r] EXCEPT !.pc = "saved", !.cluster = c]
  <1>1. /\ run[r].pc = "queued" /\ run[r].kind = "group" /\ r \in Active
        /\ members[c] \subseteq Kin(i)
        /\ members' = [members EXCEPT ![c] = @ \cup {i}]
        /\ count' = [count EXCEPT ![c] = @ + 1]
        /\ UNCHANGED <<skill, indexed, engine, embeds, faults, redone, lost, asked, text>>
    BY DEF Save, Active, process, history
  <1>2. /\ run[r] \in RunType /\ RunOk(r) /\ run \in [RunIds -> RunType]
        /\ i \in Items /\ text[i] # 0 /\ Grouping(r)
        /\ members \in [Clusters -> SUBSET Items] /\ count \in [Clusters -> Nat]
        /\ \A d \in Clusters : members[d] \subseteq Episodes \/ members[d] \subseteq Cases
        /\ \A d \in Clusters : IsFiniteSet(members[d])
    BY <1>1, RunParts DEF RunOk, Grouping, IInv, TypeOK, SkillsTypeOK, Counted
  <1>3. run' = [run EXCEPT ![r] = new]
    BY <1>2 DEF Save
  <1>4. /\ new \in RunType /\ new.pc = "saved" /\ new.kind = "group" /\ new.item = i
        /\ new.cluster = c
    BY <1>1, <1>2 DEF RunType
  <1> HIDE DEF i, new
  <1>5. /\ run' \in [RunIds -> RunType] /\ run'[r] = new
        /\ \A q \in RunIds \ {r} : run'[q] = run[q]
    BY <1>2, <1>3, <1>4
  <1>6. /\ members'[c] = members[c] \cup {i} /\ count'[c] = count[c] + 1
        /\ \A d \in Clusters \ {c} : members'[d] = members[d] /\ count'[d] = count[d]
        /\ members' \in [Clusters -> SUBSET Items] /\ count' \in [Clusters -> Nat]
    BY <1>1, <1>2
  <1>7. SkillsTypeOK'
    <2>1. \A d \in Clusters : members'[d] \subseteq Episodes \/ members'[d] \subseteq Cases
      BY <1>1, <1>2, <1>6 DEF Kin, Items
    <2>2. QED
      BY <1>1, <1>5, <1>6, <2>1 DEF IInv, TypeOK, SkillsTypeOK
  <1>8. MembersStay /\ TextStays
    BY <1>1, <1>6 DEF MembersStay, TextStays
  <1>9. RunOk(r)' /\ ~ Writing(r)' /\ Lessons(r)' /\ Grouping(r)' /\ run'[r].item = i
    <2>1. RunOk(r)'
      BY <1>1, <1>2, <1>4, <1>5, <1>6 DEF RunOk
    <2>2. QED
      BY <1>4, <1>5, <2>1 DEF Writing, Lessons, Grouping
  <1>10. \A q \in RunIds \ {r} : RunOk(q)' /\ Lessons(q)' /\ (Writing(q)' <=> Writing(q))
    BY <1>1, <1>5, <1>8, RunOkSame, LessonsSame DEF Writing
  <1>11. \A q \in RunIds : /\ Grouping(q)' <=> Grouping(q)
                           /\ run'[q].item = run[q].item
                           /\ q # r => run'[q] = run[q]
    BY <1>2, <1>5, <1>9 DEF Grouping, i
  <1>12. Clustered(i) => i \in redone
    BY <1>1, <1>2 DEF IInv, Once, i
  <1>13. Once'
    <2>1. \A j \in Items \ {i} : Clustered(j)' <=> Clustered(j)
      BY <1>6 DEF Clustered
    <2>2. ASSUME NEW q \in RunIds, Grouping(q)', run'[q].pc = "queued", Clustered(run[q].item)'
          PROVE  run[q].item \in redone
      <3>1. q # r /\ run'[q] = run[q] /\ Grouping(q)
        BY <1>4, <1>5, <1>11, <2>2
      <3>2. run[q].item \in Items
        BY <3>1, RunParts DEF RunOk, Grouping
      <3>3. CASE run[q].item = i
        BY <1>2, <3>1, <3>3 DEF IInv, Once, i
      <3>4. CASE run[q].item # i
        BY <2>1, <2>2, <3>1, <3>2, <3>4 DEF IInv, Once
      <3>5. QED
        BY <3>3, <3>4
    <2>3. ASSUME NEW q \in RunIds, NEW s \in RunIds, Grouping(q)', Grouping(s)', q # s,
                 run'[q].item = run'[s].item
          PROVE  run'[q].item \in redone
      BY <1>11, <2>3 DEF IInv, Once
    <2>4. QED
      BY <1>1, <1>11, <2>2, <2>3 DEF Once, Clustered
  <1>14. Counted'
    <2>1. \A d \in Clusters : IsFiniteSet(members'[d])
      <3>1. IsFiniteSet(members[c] \cup {i})
        BY <1>2, FS_AddElement
      <3>2. QED
        BY <1>2, <1>6, <3>1
    <2>2. ASSUME NEW d \in Clusters, NEW e \in Clusters, d # e, NEW j \in members'[d] \cap members'[e]
          PROVE  j \in redone
      <3>1. CASE j = i
        BY <1>6, <1>12, <2>2, <3>1 DEF Clustered
      <3>2. CASE j # i
        BY <1>6, <2>2, <3>2 DEF IInv, Counted, ClusteredOnce
      <3>3. QED
        BY <3>1, <3>2
    <2>3. ASSUME NEW d \in Clusters, members'[d] \cap redone = {}
          PROVE  count'[d] = Cardinality(members'[d])
      <3>1. members[d] \cap redone = {}
        BY <1>8, <2>3 DEF MembersStay
      <3>2. count[d] = Cardinality(members[d])
        BY <3>1 DEF IInv, Counted, ClusteredOnce
      <3>3. CASE d = c
        <4>1. i \notin members[c]
          BY <1>6, <1>12, <2>3, <3>3 DEF Clustered
        <4>2. Cardinality(members[c] \cup {i}) = Cardinality(members[c]) + 1
          BY <1>2, <4>1, FS_AddElement
        <4>3. QED
          BY <1>6, <3>2, <3>3, <4>2
      <3>4. CASE d # c
        BY <1>6, <3>2, <3>4
      <3>5. QED
        BY <3>3, <3>4
    <2>4. ClusteredOnce'
      BY <1>1, <2>2, <2>3 DEF ClusteredOnce
    <2>5. \A j \in Items : Clustered(j)' => text'[j] # 0
      BY <1>1, <1>2, <1>6 DEF IInv, Counted, Clustered
    <2>6. QED
      BY <2>1, <2>4, <2>5 DEF Counted
  <1>15. Alone'
    BY <1>9, <1>10 DEF IInv, Alone
  <1>16. OffIsQuiet'
    BY <1>1 DEF IInv, OffIsQuiet
  <1>17. QED
    BY <1>1, <1>7, <1>8, <1>9, <1>10, <1>11, <1>13, <1>14, <1>15, <1>16 DEF RunsEffect

LEMMA RunsDoes ==
    ASSUME IInv, NEW r \in RunIds, Running(r), UNCHANGED text
    PROVE  RunsEffect
  BY SkipDoes, EmitDoes, AskDoes, WriteDoes, ReapDoes, RunFailsDoes, SaveDoes DEF Running

-----------------------------------------------------------------------------
(* The command and the rows *)

RunInv ==
    /\ SkillsTypeOK /\ \A r \in RunIds : RunOk(r) /\ Lessons(r)
    /\ Once /\ Counted /\ Alone /\ OffIsQuiet

RowInv ==
    /\ text \in [Items -> 0..MaxVersion] /\ row \in [Items -> RowType]
    /\ tier \in BOOLEAN /\ starts \in 0..MaxStarts /\ chased \subseteq Items
    /\ VectorsAreOfTheirText

CliInv ==
    /\ cli \in CliType /\ cli.left \subseteq cli.met
    /\ Versions /\ PhaseOk /\ Vectors /\ ItemsMet /\ ItemsGo /\ Sources /\ Files
    /\ ExitZeroMeansDone

LEMMA PartsAreIInv == RunInv' /\ RowInv' /\ CliInv' => IInv'
  BY DEF IInv, TypeOK, RunInv, RowInv, CliInv

LEMMA FilesOnly ==
    ASSUME IInv, NEW F \in [Names -> SkillType], cli' = [cli EXCEPT !.files = F]
    PROVE  /\ cli' \in CliType /\ cli'.left = cli.left /\ cli'.met = cli.met /\ cli'.pc = cli.pc
           /\ cli'.todo = cli.todo /\ cli'.found = cli.found /\ cli'.sides = cli.sides
           /\ cli'.failed = cli.failed /\ cli'.missed = cli.missed /\ cli'.exit = cli.exit
           /\ cli'.files = F /\ Phase' = Phase
  <1>1. cli \in CliType
    BY CliFields
  <1>2. QED
    BY <1>1 DEF CliType, Phase

\* Vectors is about cli, row and chased only.
LEMMA VectorsStay ==
    ASSUME IInv, UNCHANGED <<row, chased>>, cli'.pc = cli.pc, cli'.todo = cli.todo,
           cli'.left = cli.left, cli'.found = cli.found, cli'.sides = cli.sides,
           cli'.failed = cli.failed
    PROVE  Vectors'
  <1>1. Phase' = Phase
    BY DEF Phase
  <1>2. \A i \in Items : Needs(row[i], i)' = Needs(row[i], i)
    BY DEF Needs
  <1>3. \A i \in Items : Needs(cli.found[i], i)' = Needs(cli.found[i], i)
    BY DEF Needs
  <1>4. Vectors
    BY DEF IInv
  <1>5. QED
    BY <1>1, <1>2, <1>3, <1>4 DEF Vectors

\* The command stays where it is, and knows no more than before of a file that is rewritten.
LEMMA CliStays ==
    ASSUME IInv, NEW F \in [Names -> SkillType], cli' = [cli EXCEPT !.files = F],
           \A n \in Names : F[n] # NoSkill =>
              /\ F[n] = cli.files[n] /\ skill'[n] = skill[n]
              /\ indexed'[n] \in {indexed[n], skill[n].cluster},
           UNCHANGED <<row, chased>>, TextStays, \A i \in Items : row[i].text <= text'[i],
           MembersStay, lost \subseteq lost', ItemsGo',
           cli.pc = "emit" => UNCHANGED <<engine, embeds>>
    PROVE  CliInv'
  <1>1. /\ cli' \in CliType /\ cli'.left = cli.left /\ cli'.met = cli.met /\ cli'.pc = cli.pc
        /\ cli'.todo = cli.todo /\ cli'.found = cli.found /\ cli'.sides = cli.sides
        /\ cli'.failed = cli.failed /\ cli'.missed = cli.missed /\ cli'.exit = cli.exit
        /\ cli'.files = F /\ Phase' = Phase
    BY FilesOnly
  <1>2. cli'.left \subseteq cli'.met
    BY <1>1, CliFields
  <1>3. Versions'
    BY <1>1 DEF IInv, Versions
  <1>4. PhaseOk'
    BY <1>1 DEF IInv, PhaseOk
  <1>5. ItemsMet' /\ Sources'
    BY <1>1, CliFields DEF IInv, ItemsMet, Sources, TextStays, CliType
  <1>6. Files'
    <2>1. \A n \in Names : F[n] \in {NoSkill, skill'[n]}
      BY DEF IInv, Files
    <2>2. ASSUME cli.pc \in {"scan", "confirm", "emit", "resync"}, Phase = "skills", ~ cli.missed,
                 NEW n \in Names, F[n] # NoSkill
          PROVE  indexed'[n] = skill'[n].cluster
      BY <2>2 DEF IInv, Files
    <2>3. QED
      BY <1>1, <2>1, <2>2 DEF Files
  <1>7. \A i \in Items : Needs(row[i], i)' = Needs(row[i], i)
    BY DEF Needs
  <1>8. \A i \in Items : Needs(cli.found[i], i)' = Needs(cli.found[i], i)
    BY <1>1 DEF Needs
  <1>9. VectorsComplete'
    BY <1>1, <1>7, <1>8 DEF IInv, ExitZeroMeansDone, VectorsComplete, Succeeded
  <1>10. ItemsComplete'
    BY <1>1 DEF IInv, ExitZeroMeansDone, ItemsComplete, Succeeded, Clustered, MembersStay
  <1>11. OrphansFound'
    <2>1. ASSUME Succeeded("skills"), ~ cli.missed, NEW n \in Names, Exists(n)', skill'[n] = F[n]
          PROVE  indexed'[n] = skill'[n].cluster
      <3>1. skill'[n] # NoSkill
        BY <2>1 DEF Exists, NoSkill
      <3>2. Exists(n) /\ skill[n] = cli.files[n] /\ skill'[n] = skill[n]
            /\ indexed'[n] \in {indexed[n], skill[n].cluster}
        BY <2>1, <3>1 DEF Exists
      <3>3. indexed[n] = skill[n].cluster
        BY <2>1, <3>2 DEF IInv, ExitZeroMeansDone, OrphansFound
      <3>4. QED
        BY <3>2, <3>3
    <2>2. QED
      BY <1>1, <2>1 DEF OrphansFound, Succeeded
  <1>12. ExitZeroMeansDone'
    BY <1>9, <1>10, <1>11 DEF ExitZeroMeansDone
  <1>13. QED
    BY <1>1, <1>2, <1>3, <1>4, <1>5, <1>6, <1>12, VectorsStay DEF CliInv

\* The runs and the files, while only the index, the texts or the command change.
LEMMA RunsStay ==
    ASSUME IInv, UNCHANGED <<members, count, skill, run, engine, embeds, redone, lost, asked>>,
           TextStays, faults' \in 0..MaxFaults, indexed' \in [Names -> Clusters \cup {None}]
    PROVE  RunInv'
  <1>1. SkillsTypeOK'
    BY DEF IInv, TypeOK, SkillsTypeOK
  <1>2. MembersStay
    BY DEF MembersStay
  <1>3. \A q \in RunIds : RunOk(q)' /\ Lessons(q)'
    BY <1>2, RunOkSame, LessonsSame
  <1>4. Once' /\ Counted'
    BY OnceKeeps, CountedKeeps DEF Grouping
  <1>5. Alone' /\ OffIsQuiet'
    BY DEF IInv, Alone, OffIsQuiet, Writing, Active
  <1>6. QED
    BY <1>1, <1>3, <1>4, <1>5 DEF RunInv

LEMMA FilesIs ==
    ASSUME IInv
    PROVE  /\ cli.files \in [Names -> SkillType] /\ cli = [cli EXCEPT !.files = cli.files]
           /\ \A n \in Names : cli.files[n] # NoSkill => cli.files[n] = skill[n]
  <1>1. cli \in CliType
    BY CliFields
  <1>2. cli.files \in [Names -> SkillType] /\ cli = [cli EXCEPT !.files = cli.files]
    BY <1>1 DEF CliType
  <1>3. QED
    BY <1>2 DEF IInv, Files

LEMMA RowsStay ==
    ASSUME IInv, UNCHANGED <<row, tier, chased>>, text' \in [Items -> 0..MaxVersion],
           starts' \in 0..MaxStarts
    PROVE  RowInv'
  BY DEF RowInv, IInv, TypeOK, VectorsAreOfTheirText

\* What a row reads is at most the text.
LEMMA TextIs ==
    ASSUME IInv
    PROVE  /\ \A i \in Items : /\ text[i] \in 0..MaxVersion /\ row[i] \in RowType
                               /\ text[i] \in Nat /\ row[i].text \in Nat /\ cli.found[i].text \in Nat
                               /\ cli.found[i].text <= row[i].text /\ row[i].text <= text[i]
           /\ MaxVersion \in Nat \ {0} /\ starts \in 0..MaxStarts /\ MaxStarts \in Nat
           /\ text \in [Items -> 0..MaxVersion] /\ row \in [Items -> RowType]
           /\ chased \subseteq Items /\ tier \in BOOLEAN
  <1>1. cli \in CliType
    BY CliFields
  <1>2. \A i \in Items : cli.found[i] \in RowType
    BY <1>1 DEF CliType
  <1>3. MaxVersion \in Nat \ {0} /\ MaxStarts \in Nat
    BY BackfillAssumption
  <1>4. /\ text \in [Items -> 0..MaxVersion] /\ row \in [Items -> RowType]
        /\ chased \subseteq Items /\ tier \in BOOLEAN /\ starts \in 0..MaxStarts
    BY DEF IInv, TypeOK
  <1>5. QED
    BY <1>2, <1>3, <1>4 DEF RowType, IInv, Versions

LEMMA RunsStep ==
    ASSUME IInv, NEW r \in RunIds, Runs(r)
    PROVE  IInv'
  <1> DEFINE F == [n \in Names |-> IF skill'[n] = skill[n] THEN cli.files[n] ELSE NoSkill]
  <1>1. /\ Running(r) /\ cli' = [cli EXCEPT !.files = F]
        /\ UNCHANGED <<text, row, tier, starts, chased>>
    BY DEF Runs
  <1>2. RunsEffect
    BY <1>1, RunsDoes
  <1>3. F \in [Names -> SkillType]
    BY FilesIs, NoSkillIs
  <1>4. \A n \in Names : F[n] # NoSkill => /\ F[n] = cli.files[n] /\ skill'[n] = skill[n]
                                           /\ indexed'[n] \in {indexed[n], skill[n].cluster}
    BY <1>2 DEF RunsEffect
  <1> HIDE DEF F
  <1>5. TextStays /\ \A i \in Items : row[i].text <= text'[i]
    BY <1>1, TextIs DEF TextStays
  <1>6. RunInv'
    BY <1>2 DEF RunInv, RunsEffect
  <1>7. RowInv'
    BY <1>1, RowsStay, TextIs
  <1>8. ItemsGo'
    <2>1. /\ Phase' = Phase /\ cli'.pc = cli.pc /\ cli'.met = cli.met /\ cli'.left = cli.left
      BY <1>1, <1>3, FilesOnly
    <2>2. SUFFICES ASSUME cli.pc = "emit", Phase = "clusters", NEW i \in Items, <<i, None>> \in cli.met
                   PROVE  /\ <<i, None>> \in cli.left => \A q \in RunIds : Grouping(q)' => run'[q].item # i
                          /\ i \in Poor \cup lost' \/ <<i, None>> \in cli.left \/ Clustered(i)'
                               \/ \E q \in RunIds : Grouping(q)' /\ run'[q].item = i
      BY <2>1 DEF ItemsGo
    <2>3. /\ <<i, None>> \in cli.left => \A q \in RunIds : Grouping(q) => run[q].item # i
          /\ i \in Poor \cup lost \/ <<i, None>> \in cli.left \/ Clustered(i)
                  \/ \E q \in RunIds : Grouping(q) /\ run[q].item = i
      BY <2>2 DEF IInv, ItemsGo
    <2>4. embeds
      BY <2>2 DEF IInv, PhaseOk
    <2>5. <<i, None>> \in cli.left => \A q \in RunIds : Grouping(q)' => run'[q].item # i
      BY <1>2, <2>3 DEF RunsEffect
    <2>6. Clustered(i) => Clustered(i)'
      BY <1>2 DEF RunsEffect, MembersStay, Clustered
    <2>7. CASE \E q \in RunIds : Grouping(q) /\ run[q].item = i
      BY <1>2, <2>4, <2>7, <2>5 DEF RunsEffect, Clustered
    <2>8. QED
      BY <1>2, <2>3, <2>5, <2>6, <2>7 DEF RunsEffect
  <1>9. CliInv'
    BY <1>1, <1>2, <1>3, <1>4, <1>5, <1>8, CliStays DEF RunsEffect
  <1>10. QED
    BY <1>6, <1>7, <1>9, PartsAreIInv

-----------------------------------------------------------------------------
(* The command at the end of a phase, or of itself *)

LEMMA AtRest ==
    ASSUME cli' \in CliType, cli'.left \subseteq cli'.met, cli'.pc \in {"idle", "probe"},
           cli'.pc = "probe" => cli'.todo # <<>>, Versions', ExitZeroMeansDone',
           \A n \in Names : cli'.files[n] \in {NoSkill, skill'[n]}
    PROVE  CliInv'
  BY DEF CliInv, PhaseOk, Vectors, ItemsMet, ItemsGo, Sources, Files

LEMMA ExitIs ==
    ASSUME NEW code \in {"declined", "unconfigured", "locked", "failures", "interrupted"}
    PROVE  /\ Exit(code) \in CliType /\ Exit(code).pc = "idle" /\ Exit(code).exit = code
           /\ Exit(code).left = {} /\ Exit(code).met = {} /\ Exit(code).todo = <<>>
           /\ \A i \in Items : Exit(code).found[i].text = 0
           /\ \A n \in Names : Exit(code).files[n] = NoSkill
  <1>1. /\ NoCli \in CliType /\ NoCli.pc = "idle" /\ NoCli.left = {} /\ NoCli.met = {}
        /\ NoCli.todo = <<>> /\ \A i \in Items : NoCli.found[i].text = 0
        /\ \A n \in Names : NoCli.files[n] = NoSkill
    BY NoCliIs DEF NoRow
  <1>2. QED
    BY <1>1 DEF Exit, CliType

LEMMA ExitKeeps ==
    ASSUME IInv, UNCHANGED <<text, row>>,
           NEW code \in {"declined", "unconfigured", "locked", "failures", "interrupted"},
           cli' = Exit(code)
    PROVE  CliInv'
  <1>1. /\ cli' \in CliType /\ cli'.pc = "idle" /\ cli'.exit # "success"
        /\ cli'.left = {} /\ cli'.met = {}
        /\ \A i \in Items : cli'.found[i].text = 0
        /\ \A n \in Names : cli'.files[n] = NoSkill
    BY ExitIs
  <1>2. Versions'
    BY <1>1, TextIs DEF Versions
  <1>3. ExitZeroMeansDone'
    BY <1>1 DEF ExitZeroMeansDone, VectorsComplete, ItemsComplete, OrphansFound, Succeeded
  <1>4. QED
    BY <1>1, <1>2, <1>3, AtRest

\* The three ways on from a phase.
NextPhaseGoes(next) ==
    /\ next \in CliType /\ next.left = {}
    /\ \/ next.pc = "probe" /\ next.todo # <<>>
       \/ next.pc = "idle" /\ next.exit = "failures"
       \/ /\ next.pc = "idle" /\ next.todo = cli.todo /\ next.exit = "success"
          /\ next.met = cli.met /\ ~ cli.failed
    /\ \/ next.found = cli.found
       \/ \A i \in Items : next.found[i].text = 0
    /\ \/ next.files = cli.files /\ next.missed = cli.missed
       \/ next.pc = "idle" /\ next.exit = "failures" /\ \A n \in Names : next.files[n] = NoSkill
    /\ next.exit = "success" /\ next.pc = "idle" => next.found = cli.found

LEMMA NextPhaseIs ==
    ASSUME IInv, cli.pc # "idle"
    PROVE  NextPhaseGoes(NextPhase(cli.failed))
  <1>1. /\ cli \in CliType /\ cli.todo # <<>>
        /\ cli.todo \in Selected \cup {<<>>, <<"clusters", "skills">>}
    BY CliFields DEF CliType
  <1>2. CASE Len(cli.todo) > 1
    <2> DEFINE next == [cli EXCEPT !.pc = "probe", !.todo = Tail(@), !.met = {}, !.left = {},
                                   !.failed = cli.failed]
    <2>1. NextPhase(cli.failed) = next
      BY <1>2 DEF NextPhase
    <2>2. /\ Tail(cli.todo) \in Selected \cup {<<>>, <<"clusters", "skills">>}
          /\ Tail(cli.todo) # <<>>
      BY <1>1, <1>2, TodoIs
    <2>3. /\ next \in CliType /\ next.left = {} /\ next.pc = "probe" /\ next.todo # <<>>
          /\ next.found = cli.found /\ next.files = cli.files /\ next.missed = cli.missed
      BY <1>1, <2>2 DEF CliType
    <2>4. QED
      BY <2>1, <2>3 DEF NextPhaseGoes
  <1>3. CASE ~ (Len(cli.todo) > 1) /\ cli.failed
    <2>1. NextPhase(cli.failed) = Exit("failures")
      BY <1>3 DEF NextPhase
    <2>2. QED
      BY <2>1, ExitIs DEF NextPhaseGoes
  <1>4. CASE ~ (Len(cli.todo) > 1) /\ ~ cli.failed
    <2> DEFINE next == [cli EXCEPT !.pc = "idle", !.left = {}, !.exit = "success"]
    <2>1. NextPhase(cli.failed) = next
      BY <1>4 DEF NextPhase
    <2>2. /\ next \in CliType /\ next.left = {} /\ next.pc = "idle" /\ next.exit = "success"
          /\ next.todo = cli.todo /\ next.met = cli.met
          /\ next.found = cli.found /\ next.files = cli.files /\ next.missed = cli.missed
      BY <1>1 DEF CliType
    <2>3. QED
      BY <1>4, <2>1, <2>2 DEF NextPhaseGoes
  <1>5. QED
    BY <1>2, <1>3, <1>4

LEMMA NextPhaseKeeps ==
    ASSUME IInv, UNCHANGED <<text, row, skill>>, cli.pc # "idle", cli' = NextPhase(cli.failed),
           cli'.exit = "success" /\ cli'.pc = "idle" /\ ~ cli.failed => ExitZeroMeansDone'
    PROVE  CliInv'
  <1>1. NextPhaseGoes(cli')
    BY NextPhaseIs
  <1>2. Versions'
    BY <1>1, TextIs DEF NextPhaseGoes, Versions, IInv
  <1>3. ExitZeroMeansDone'
    BY <1>1 DEF NextPhaseGoes, ExitZeroMeansDone, VectorsComplete, ItemsComplete, OrphansFound, Succeeded
  <1>4. \A n \in Names : cli'.files[n] \in {NoSkill, skill'[n]}
    BY <1>1 DEF NextPhaseGoes, IInv, Files
  <1>5. QED
    BY <1>1, <1>2, <1>3, <1>4, AtRest DEF NextPhaseGoes

-----------------------------------------------------------------------------
(* Engines that open and close *)

LEMMA CutDoes ==
    ASSUME IInv, Cut, faults' \in 0..MaxFaults, UNCHANGED text
    PROVE  /\ RunInv' /\ Active' = {}
           /\ UNCHANGED store /\ MembersStay /\ TextStays /\ lost \subseteq lost'
           /\ \A r \in RunIds : Grouping(r) => run[r].item \in lost'
  <1>1. PICK begun \in SUBSET Active : run' = CutRuns(begun)
    BY DEF Cut
  <1>2. /\ lost' = lost \cup {run[r].item : r \in Active}
        /\ redone' = redone \cup {run[r].item : r \in Active}
        /\ engine' = "off" /\ UNCHANGED <<embeds, members, count, skill, indexed, asked>>
    BY DEF Cut, store
  <1>3. \A q \in RunIds : run'[q] = IF q \notin Active THEN run[q]
                                    ELSE IF q \in begun THEN [run[q] EXCEPT !.pc = "stale"] ELSE NoRun
    BY <1>1 DEF CutRuns
  <1>4. \A q \in RunIds : run[q] \in RunType /\ RunOk(q)
    BY RunParts
  <1>5. \A q \in Active : q \in RunIds /\ run[q].item \in Items /\ text[run[q].item] # 0
    BY <1>4 DEF Active, RunOk
  <1>6. ASSUME NEW q \in RunIds
        PROVE  /\ run'[q] \in RunType
               /\ \/ run'[q] = run[q] /\ q \notin Active
                  \/ run'[q] = NoRun
                  \/ /\ q \in Active /\ run'[q].pc = "stale" /\ run'[q].kind = run[q].kind
                     /\ run'[q].item = run[q].item /\ run'[q].cluster = run[q].cluster
    <2>1. run[q] \in RunType
      BY <1>4
    <2>2. CASE q \notin Active
      <3>1. run'[q] = run[q]
        BY <1>3, <2>2
      <3>2. QED
        BY <2>1, <2>2, <3>1
    <2>3. CASE q \in Active /\ q \in begun
      <3>1. run'[q] = [run[q] EXCEPT !.pc = "stale"]
        BY <1>3, <2>3
      <3>2. QED
        BY <2>1, <2>3, <3>1, StaleIs
    <2>4. CASE q \in Active /\ q \notin begun
      <3>1. run'[q] = NoRun
        BY <1>3, <2>4
      <3>2. QED
        BY <3>1, NoRunIs
    <2>5. QED
      BY <2>2, <2>3, <2>4
  <1>7. run' \in [RunIds -> RunType]
    BY <1>1, <1>6 DEF CutRuns
  <1>8. Active' = {}
    <2>1. \A q \in RunIds : q \notin Active => run[q].pc \in {"none", "stale"}
      BY DEF Active
    <2>2. \A q \in RunIds : run'[q].pc \in {"none", "stale"}
      BY <1>6, <2>1, NoRunIs
    <2>3. QED
      BY <2>2 DEF Active
  <1>9. /\ lost' \subseteq Items /\ redone' \subseteq Items
        /\ lost \subseteq lost' /\ redone \subseteq redone'
    BY <1>2, <1>5 DEF IInv, TypeOK, SkillsTypeOK
  <1>10. SkillsTypeOK'
    BY <1>2, <1>7, <1>9 DEF IInv, TypeOK, SkillsTypeOK
  <1>11. MembersStay /\ TextStays
    BY <1>2 DEF MembersStay, TextStays
  <1>12. \A q \in RunIds : ~ Grouping(q)' /\ ~ Writing(q)' /\ Lessons(q)'
    BY <1>8 DEF Active, Grouping, Writing, Lessons
  <1>13. ASSUME NEW q \in RunIds PROVE RunOk(q)'
    <2>1. CASE run'[q] = run[q]
      BY <1>9, <1>11, <2>1, RunOkSame
    <2>2. CASE run'[q] = NoRun
      BY <2>2, NoRunIs DEF RunOk
    <2>3. CASE /\ q \in Active /\ run'[q].pc = "stale" /\ run'[q].kind = run[q].kind
               /\ run'[q].item = run[q].item /\ run'[q].cluster = run[q].cluster
      <3>1. run[q].item \in redone'
        BY <1>2, <2>3
      <3>2. run[q].pc # "none"
        BY <2>3 DEF Active
      <3>3. QED
        BY <1>4, <2>3, <3>1, <3>2 DEF RunOk
    <2>4. QED
      BY <1>6, <2>1, <2>2, <2>3
  <1>14. Once' /\ Counted'
    BY <1>2, <1>9, <1>11, <1>12, OnceKeeps, CountedKeeps
  <1>15. Alone' /\ OffIsQuiet'
    BY <1>8, <1>12 DEF Alone, OffIsQuiet
  <1>16. \A r \in RunIds : Grouping(r) => run[r].item \in lost'
    BY <1>2 DEF Grouping, Active
  <1>17. QED
    BY <1>2, <1>8, <1>9, <1>10, <1>11, <1>12, <1>13, <1>14, <1>15, <1>16 DEF RunInv, store

LEMMA OpenedDoes ==
    ASSUME IInv, NEW who \in {"server", "phase2", "phase3"}, NEW able \in BOOLEAN,
           NEW resumes \in BOOLEAN, Opened(who, able, resumes), UNCHANGED <<text, faults>>
    PROVE  /\ RunInv' /\ engine = "off" /\ engine' = who /\ embeds' = able
           /\ UNCHANGED <<store, lost>> /\ MembersStay /\ TextStays
           /\ ~ resumes => \A r \in RunIds : ~ Grouping(r)'
  <1>1. /\ engine = "off" /\ engine' = who /\ embeds' = able
        /\ run' = [r \in RunIds |->
                     IF resumes /\ run[r].pc = "stale"
                     THEN [run[r] EXCEPT !.pc = "queued", !.ops = <<>>, !.wrote = {}, !.clash = FALSE]
                     ELSE run[r]]
        /\ UNCHANGED <<members, count, skill, indexed, redone, lost, asked>>
    BY DEF Opened, store, history
  <1>2. \A q \in RunIds : run[q] \in RunType /\ RunOk(q) /\ run[q].pc \in {"none", "stale"}
    BY <1>1, RunParts DEF IInv, OffIsQuiet, Active
  <1>3. ASSUME NEW q \in RunIds
        PROVE  /\ run'[q] \in RunType
               /\ \/ run'[q] = run[q]
                  \/ /\ resumes /\ run[q].pc = "stale" /\ run'[q].pc = "queued" /\ run'[q].wrote = {}
                     /\ run'[q].kind = run[q].kind /\ run'[q].item = run[q].item
                     /\ run'[q].cluster = run[q].cluster
    <2>1. CASE resumes /\ run[q].pc = "stale"
      <3> DEFINE again == [run[q] EXCEPT !.pc = "queued", !.ops = <<>>, !.wrote = {}, !.clash = FALSE]
      <3>1. run'[q] = again
        BY <1>1, <2>1
      <3>2. /\ again \in RunType /\ again.pc = "queued" /\ again.kind = run[q].kind
            /\ again.item = run[q].item /\ again.cluster = run[q].cluster /\ again.wrote = {}
        BY <1>2, ResumedIs
      <3> HIDE DEF again
      <3>3. QED
        BY <2>1, <3>1, <3>2
    <2>2. CASE ~ (resumes /\ run[q].pc = "stale")
      <3>1. run'[q] = run[q]
        BY <1>1, <2>2
      <3>2. QED
        BY <1>2, <3>1
    <2>3. QED
      BY <2>1, <2>2
  <1>4. run' \in [RunIds -> RunType]
    BY <1>1, <1>3
  <1>5. SkillsTypeOK'
    BY <1>1, <1>4 DEF IInv, TypeOK, SkillsTypeOK
  <1>6. MembersStay /\ TextStays
    BY <1>1 DEF MembersStay, TextStays
  <1>7. ASSUME NEW q \in RunIds
        PROVE  /\ RunOk(q)' /\ ~ Writing(q)' /\ Lessons(q)'
               /\ Grouping(q)' => run'[q].item \in redone'
               /\ ~ resumes => ~ Grouping(q)'
    <2>1. CASE run'[q] = run[q]
      BY <1>1, <1>2, <1>6, <2>1, RunOkSame DEF Writing, Lessons, Grouping
    <2>2. CASE /\ resumes /\ run[q].pc = "stale" /\ run'[q].pc = "queued" /\ run'[q].wrote = {}
               /\ run'[q].kind = run[q].kind /\ run'[q].item = run[q].item
               /\ run'[q].cluster = run[q].cluster
      <3>1. RunOk(q)'
        BY <1>1, <1>2, <2>2 DEF RunOk
      <3>2. run[q].item \in redone
        BY <1>2, <2>2 DEF RunOk
      <3>3. QED
        <4>1. ~ Writing(q)' /\ Lessons(q)'
          BY <2>2 DEF Writing, Lessons
        <4>2. redone' = redone /\ run'[q].item = run[q].item
          BY <1>1, <2>2
        <4>3. resumes
          BY <2>2, Zenon
        <4>4. run'[q].item \in redone'
          BY <3>2, <4>2
        <4>5. QED
          BY <3>1, <4>1, <4>3, <4>4
    <2>3. QED
      BY <1>3, <2>1, <2>2
  <1>8. Once'
    BY <1>7 DEF Once
  <1>9. Counted'
    BY <1>1, <1>6, CountedKeeps
  <1>10. Alone' /\ OffIsQuiet'
    BY <1>1, <1>7 DEF Alone, OffIsQuiet
  <1>11. QED
    BY <1>1, <1>5, <1>6, <1>7, <1>8, <1>9, <1>10 DEF RunInv, store

LEMMA BootStep ==
    ASSUME IInv, Boot
    PROVE  IInv'
  <1>1. /\ Opened("server", tier, TRUE) /\ UNCHANGED <<faults, text, row, tier, cli, chased>>
        /\ starts < MaxStarts /\ starts' = starts + 1
    BY DEF Boot, Start
  <1>2. tier \in BOOLEAN /\ starts' \in 0..MaxStarts
    BY <1>1, TextIs
  <1>3. /\ RunInv' /\ engine = "off" /\ UNCHANGED <<store, lost>> /\ MembersStay /\ TextStays
    BY <1>1, <1>2, OpenedDoes
  <1>4. RowInv'
    BY <1>1, <1>2, RowsStay, TextIs
  <1>5. cli.pc # "emit"
    BY <1>3 DEF IInv, PhaseOk
  <1>6. ItemsGo'
    BY <1>1, <1>5 DEF ItemsGo
  <1>7. CliInv'
    <2>1. /\ cli.files \in [Names -> SkillType] /\ cli' = [cli EXCEPT !.files = cli.files]
          /\ \A i \in Items : row[i].text <= text'[i]
      BY <1>1, FilesIs, TextIs
    <2>2. UNCHANGED <<skill, indexed>>
      BY <1>3 DEF store
    <2>3. QED
      BY <1>1, <1>3, <1>5, <1>6, <2>1, <2>2, CliStays
  <1>8. QED
    BY <1>3, <1>4, <1>7, PartsAreIInv

LEMMA HaltStep ==
    ASSUME IInv, Halt
    PROVE  IInv'
  <1>1. /\ engine = "server" /\ Cut
        /\ UNCHANGED <<text, row, tier, starts, cli, chased>>
        /\ faults' \in 0..MaxFaults
    BY FaultIs DEF Halt, bvars, IInv, TypeOK, SkillsTypeOK
  <1>2. RunInv' /\ UNCHANGED store /\ MembersStay /\ TextStays /\ lost \subseteq lost'
    BY <1>1, CutDoes
  <1>3. RowInv'
    BY <1>1, RowsStay, TextIs
  <1>4. cli.pc # "emit"
    BY <1>1 DEF IInv, PhaseOk
  <1>5. ItemsGo'
    BY <1>1, <1>4 DEF ItemsGo
  <1>6. CliInv'
    <2>1. /\ cli.files \in [Names -> SkillType] /\ cli' = [cli EXCEPT !.files = cli.files]
          /\ \A i \in Items : row[i].text <= text'[i]
      BY <1>1, FilesIs, TextIs
    <2>2. UNCHANGED <<skill, indexed>>
      BY <1>2 DEF store
    <2>3. QED
      BY <1>1, <1>2, <1>4, <1>5, <2>1, <2>2, CliStays
  <1>7. QED
    BY <1>2, <1>3, <1>6, PartsAreIInv

LEMMA InterruptStep ==
    ASSUME IInv, Interrupt
    PROVE  IInv'
  <1>1. /\ cli' = Exit("interrupted") /\ UNCHANGED <<text, row, tier, starts, chased>>
        /\ faults' \in 0..MaxFaults
        /\ Cut \/ UNCHANGED <<store, run, process, history>>
    BY FaultIs DEF Interrupt
  <1>2. RunInv'
    <2>1. CASE Cut
      BY <1>1, <2>1, CutDoes
    <2>2. CASE UNCHANGED <<store, run, process, history>>
      <3>1. UNCHANGED <<members, count, skill, indexed, run, engine, embeds, redone, lost, asked>>
        BY <2>2 DEF store, process, history
      <3>2. TextStays /\ indexed' \in [Names -> Clusters \cup {None}]
        BY <1>1, <3>1 DEF TextStays, IInv, TypeOK, SkillsTypeOK
      <3>3. QED
        BY <1>1, <3>1, <3>2, RunsStay
    <2>3. QED
      BY <1>1, <2>1, <2>2
  <1>3. RowInv'
    BY <1>1, RowsStay, TextIs
  <1>4. CliInv'
    BY <1>1, ExitKeeps
  <1>5. QED
    BY <1>2, <1>3, <1>4, PartsAreIInv

LEMMA DrainedStep ==
    ASSUME IInv, Drained
    PROVE  IInv'
  <1>1. /\ cli.pc = "emit" /\ cli.left = {} /\ Cut /\ UNCHANGED <<text, row, tier, starts, chased>>
        /\ cli' = IF Phase = "skills" THEN [cli EXCEPT !.pc = "resync"] ELSE NextPhase(cli.failed)
        /\ faults' \in 0..MaxFaults
    BY FaultIs DEF Drained, IInv, TypeOK, SkillsTypeOK
  <1>2. /\ RunInv' /\ UNCHANGED store /\ MembersStay /\ TextStays /\ lost \subseteq lost'
        /\ \A r \in RunIds : Grouping(r) => run[r].item \in lost'
    BY <1>1, CutDoes
  <1>3. RowInv'
    BY <1>1, RowsStay, TextIs
  <1>4. UNCHANGED <<skill, indexed, members>>
    BY <1>2 DEF store
  <1>5. CASE Phase = "skills"
    <2>1. cli' = [cli EXCEPT !.pc = "resync"] /\ cli \in CliType /\ cli.left \subseteq cli.met
          /\ cli.todo # <<>>
      BY <1>1, <1>5, CliFields
    <2>2. /\ cli' \in CliType /\ cli'.pc = "resync" /\ cli'.todo = cli.todo /\ cli'.found = cli.found
          /\ cli'.files = cli.files /\ cli'.left = cli.left /\ cli'.met = cli.met
          /\ cli'.missed = cli.missed /\ Phase' = Phase
      BY <2>1 DEF CliType, Phase
    <2>3. Versions' /\ PhaseOk' /\ Files'
      BY <1>1, <1>4, <1>5, <2>1, <2>2 DEF IInv, Versions, PhaseOk, Files
    <2>4. ExitZeroMeansDone'
      BY <2>2 DEF ExitZeroMeansDone, VectorsComplete, ItemsComplete, OrphansFound, Succeeded
    <2>5. Vectors' /\ ItemsMet' /\ ItemsGo' /\ Sources'
      BY <2>2 DEF Vectors, ItemsMet, ItemsGo, Sources
    <2>6. CliInv'
      BY <2>1, <2>2, <2>3, <2>4, <2>5 DEF CliInv
    <2>7. QED
      BY <1>2, <1>3, <2>6, PartsAreIInv
  <1>6. CASE Phase # "skills"
    <2>1. cli' = NextPhase(cli.failed) /\ Phase = "clusters"
      BY <1>1, <1>6, CliFields DEF IInv, PhaseOk
    <2>2. NextPhaseGoes(cli')
      BY <1>1, <2>1, NextPhaseIs
    <2>3. ASSUME cli'.pc = "idle", cli'.exit = "success"
          PROVE  ExitZeroMeansDone'
      <3>1. cli'.todo = cli.todo /\ cli'.met = cli.met
        BY <2>2, <2>3 DEF NextPhaseGoes
      <3>2. Phase' = "clusters"
        BY <2>1, <3>1 DEF Phase
      <3>3. ASSUME NEW i \in Items \ (Poor \cup lost'), <<i, None>> \in cli.met
            PROVE  Clustered(i)'
        <4>1. \/ Clustered(i)
              \/ \E r \in RunIds : Grouping(r) /\ run[r].item = i
          BY <1>1, <1>2, <2>1, <3>3 DEF IInv, ItemsGo
        <4>2. Clustered(i)
          BY <1>2, <3>3, <4>1
        <4>3. QED
          BY <1>4, <4>2 DEF Clustered
      <3>4. ItemsComplete'
        BY <3>1, <3>3 DEF ItemsComplete
      <3>5. QED
        BY <3>2, <3>4 DEF ExitZeroMeansDone, VectorsComplete, OrphansFound, Succeeded
    <2>4. CliInv'
      BY <1>1, <1>4, <2>1, <2>3, NextPhaseKeeps
    <2>5. QED
      BY <1>2, <1>3, <2>4, PartsAreIInv
  <1>7. QED
    BY <1>5, <1>6

LEMMA StartEngineStep ==
    ASSUME IInv, StartEngine
    PROVE  IInv'
  <1>1. /\ cli.pc = "confirm" /\ Phase # "vectors" /\ UNCHANGED <<faults, text, row, tier, starts, chased>>
    BY DEF StartEngine
  <1>2. RowInv'
    BY <1>1, RowsStay, TextIs
  <1>3. CASE engine # "off"
    <2>1. cli' = Exit("locked") /\ UNCHANGED <<store, run, process, history>>
      BY <1>3 DEF StartEngine
    <2>2. UNCHANGED <<members, count, skill, indexed, run, engine, embeds, redone, lost, asked>>
      BY <2>1 DEF store, process, history
    <2>3. /\ TextStays /\ indexed' \in [Names -> Clusters \cup {None}] /\ faults' \in 0..MaxFaults
      BY <1>1, <2>2 DEF TextStays, IInv, TypeOK, SkillsTypeOK
    <2>4. RunInv'
      BY <2>2, <2>3, RunsStay
    <2>5. CliInv'
      BY <1>1, <2>1, ExitKeeps
    <2>6. QED
      BY <1>2, <2>4, <2>5, PartsAreIInv
  <1>4. CASE engine = "off"
    <2> DEFINE who == IF Phase = "clusters" THEN "phase2" ELSE "phase3"
    <2>1. Opened(who, TRUE, FALSE) /\ cli' = [cli EXCEPT !.pc = "emit"]
      BY <1>4 DEF StartEngine
    <2>2. who \in {"server", "phase2", "phase3"} /\ TRUE \in BOOLEAN /\ FALSE \in BOOLEAN
      OBVIOUS
    <2>3. /\ RunInv' /\ engine' = who /\ embeds' = TRUE
          /\ UNCHANGED <<store, lost>> /\ MembersStay /\ TextStays
          /\ \A r \in RunIds : ~ Grouping(r)'
      <3> HIDE DEF who
      <3>1. QED
        BY <1>1, <2>1, <2>2, OpenedDoes
    <2>4. cli \in CliType /\ cli.left \subseteq cli.met /\ cli.todo # <<>> /\ cli.left = cli.met
      BY <1>1, CliFields DEF IInv, PhaseOk
    <2>5. /\ cli' \in CliType /\ cli'.pc = "emit" /\ cli'.todo = cli.todo /\ cli'.found = cli.found
          /\ cli'.files = cli.files /\ cli'.left = cli.left /\ cli'.met = cli.met
          /\ cli'.missed = cli.missed /\ Phase' = Phase
      BY <2>1, <2>4 DEF CliType, Phase
    <2>6. UNCHANGED <<skill, indexed, members>>
      BY <2>3 DEF store
    <2>7. Versions' /\ Files' /\ ItemsMet' /\ Sources'
      BY <1>1, <2>5, <2>6 DEF IInv, Versions, Files, ItemsMet, Sources
    <2>8. PhaseOk'
      BY <1>1, <2>3, <2>4, <2>5 DEF PhaseOk
    <2>9. ItemsGo'
      BY <2>3, <2>4, <2>5 DEF ItemsGo
    <2>10. Vectors' /\ ExitZeroMeansDone'
      BY <2>5 DEF Vectors, ExitZeroMeansDone, VectorsComplete, ItemsComplete, OrphansFound, Succeeded
    <2>11. CliInv'
      BY <2>4, <2>5, <2>7, <2>8, <2>9, <2>10 DEF CliInv
    <2>12. QED
      BY <1>2, <2>3, <2>11, PartsAreIInv
  <1>5. QED
    BY <1>3, <1>4

-----------------------------------------------------------------------------
(* The files and the cascade *)

LEMMA ExtractStep ==
    ASSUME IInv, NEW i \in Items, Extract(i)
    PROVE  IInv'
  <1>1. /\ engine = "server" /\ text[i] = 0 /\ Free # {}
        /\ text' = [text EXCEPT ![i] = 1]
        /\ run' = Enqueued(run, "group", i, None, TRUE)
        /\ UNCHANGED <<members, count, skill, indexed, engine, embeds, faults, redone, lost, asked>>
        /\ UNCHANGED <<row, tier, starts, cli, chased>>
    BY DEF Extract, store, process, history
  <1>2. /\ text'[i] = 1 /\ \A j \in Items \ {i} : text'[j] = text[j]
        /\ text' \in [Items -> 0..MaxVersion]
    <2>1. 1 \in 0..MaxVersion
      BY TextIs
    <2>2. QED
      BY <1>1, <2>1, TextIs
  <1>3. TextStays /\ MembersStay /\ \A j \in Items : row[j].text <= text'[j]
    BY <1>1, <1>2, TextIs DEF TextStays, MembersStay
  <1>4. run \in [RunIds -> RunType] /\ "group" \in Registered /\ \E r \in RunIds : run[r].pc = "none"
    BY <1>1 DEF IInv, TypeOK, SkillsTypeOK, Registered, Free
  <1>5. EnqueuedIn(run, "group", i, None, run')
    <2>1. run' \in {Enqueued(run, "group", i, None, TRUE), Enqueued(run, "group", i, None, FALSE)}
      BY <1>1
    <2>2. "group" \in {"group", "teach"} /\ None \in Clusters \cup {None}
      OBVIOUS
    <2>3. QED
      BY <1>4, <2>1, <2>2, EnqueuedIs
  <1>6. PICK new \in RunIds : \E q \in RunType :
              /\ run[new].pc = "none" /\ run' = [run EXCEPT ![new] = q]
              /\ q.pc = "queued" /\ q.kind = "group" /\ q.item = i /\ q.wrote = {}
    BY <1>4, <1>5 DEF EnqueuedIn
  <1>7. /\ run' \in [RunIds -> RunType] /\ run'[new].pc = "queued" /\ run'[new].kind = "group"
        /\ run'[new].item = i /\ run'[new].wrote = {} /\ run[new].pc = "none"
        /\ \A q \in RunIds \ {new} : run'[q] = run[q]
    BY <1>4, <1>6
  <1>8. SkillsTypeOK'
    BY <1>1, <1>7 DEF IInv, TypeOK, SkillsTypeOK
  <1>9. RunOk(new)' /\ Lessons(new)' /\ ~ Writing(new)' /\ ~ Grouping(new)
    <2>1. RunOk(new)'
      BY <1>2, <1>7 DEF RunOk
    <2>2. QED
      BY <1>7, <2>1 DEF Lessons, Writing, Grouping
  <1>10. \A q \in RunIds \ {new} :
            /\ RunOk(q)' /\ Lessons(q)'
            /\ (Writing(q)' <=> Writing(q)) /\ (Grouping(q)' <=> Grouping(q))
    BY <1>1, <1>3, <1>7, RunOkSame, LessonsSame DEF Writing, Grouping
  <1>11. ~ Clustered(i) /\ \A q \in RunIds : Grouping(q) => run[q].item # i
    BY <1>1, RunParts DEF IInv, Counted, RunOk, Grouping
  <1>12. Once'
    <2>1. \A q \in RunIds : Grouping(q)' /\ run'[q].pc = "queued" /\ Clustered(run'[q].item)
                            => run'[q].item \in redone
      BY <1>7, <1>10, <1>11 DEF IInv, Once
    <2>2. \A q, s \in RunIds : Grouping(q)' /\ Grouping(s)' /\ q # s /\ run'[q].item = run'[s].item
                               => run'[q].item \in redone
      BY <1>7, <1>10, <1>11 DEF IInv, Once
    <2>3. QED
      BY <1>1, <2>1, <2>2 DEF Once, Clustered
  <1>13. Counted'
    BY <1>1, <1>3, CountedKeeps
  <1>14. Alone' /\ OffIsQuiet'
    BY <1>1, <1>9, <1>10 DEF IInv, Alone, OffIsQuiet
  <1>15. RunInv'
    BY <1>8, <1>9, <1>10, <1>12, <1>13, <1>14 DEF RunInv
  <1>16. RowInv'
    BY <1>1, <1>2, RowsStay, TextIs
  <1>17. cli.pc # "emit"
    BY <1>1 DEF IInv, PhaseOk
  <1>18. CliInv'
    <2>1. ItemsGo'
      BY <1>1, <1>17 DEF ItemsGo
    <2>2. cli.files \in [Names -> SkillType] /\ cli' = [cli EXCEPT !.files = cli.files]
      BY <1>1, FilesIs
    <2>3. QED
      BY <1>1, <1>3, <1>17, <2>1, <2>2, CliStays
  <1>19. QED
    BY <1>15, <1>16, <1>18, PartsAreIInv

\* Steps that leave the runs and the command alone.
LEMMA QuietKeeps ==
    ASSUME IInv, UNCHANGED <<members, count, skill, run, engine, embeds, faults, redone, lost, asked>>,
           UNCHANGED <<row, tier, starts, cli, chased>>, text' \in [Items -> 0..MaxVersion],
           \A i \in Items : text[i] <= text'[i],
           \A n \in Names : indexed'[n] \in {indexed[n], skill[n].cluster},
           indexed' \in [Names -> Clusters \cup {None}]
    PROVE  IInv'
  <1>1. TextStays /\ MembersStay /\ \A j \in Items : row[j].text <= text'[j]
    <2>1. \A j \in Items : text'[j] \in Nat
      BY TextIs
    <2>2. QED
      BY <2>1, TextIs DEF TextStays, MembersStay
  <1>2. RunInv'
    BY <1>1, RunsStay DEF IInv, TypeOK, SkillsTypeOK
  <1>3. RowInv'
    BY RowsStay, TextIs
  <1>4. ItemsGo'
    BY DEF IInv, ItemsGo, Phase, Grouping, Clustered
  <1>5. cli.files \in [Names -> SkillType] /\ cli' = [cli EXCEPT !.files = cli.files]
    BY FilesIs
  <1>6. CliInv'
    BY <1>1, <1>4, <1>5, FilesIs, CliStays
  <1>7. QED
    BY <1>2, <1>3, <1>6, PartsAreIInv

LEMMA EditStep ==
    ASSUME IInv, NEW i \in Items, Edit(i)
    PROVE  IInv'
  <1>1. /\ text[i] \in 1..(MaxVersion - 1) /\ text' = [text EXCEPT ![i] = text[i] + 1]
        /\ UNCHANGED <<members, count, skill, indexed, run, engine, embeds, faults, redone, lost, asked>>
        /\ UNCHANGED <<row, tier, starts, cli, chased>>
    BY TextIs DEF Edit, skills, store, process, history
  <1>2. text' \in [Items -> 0..MaxVersion] /\ \A j \in Items : text[j] <= text'[j]
    BY <1>1, TextIs
  <1>3. indexed' \in [Names -> Clusters \cup {None}]
    BY <1>1 DEF IInv, TypeOK, SkillsTypeOK
  <1>4. QED
    BY <1>1, <1>2, <1>3, QuietKeeps

LEMMA IndexSkillStep ==
    ASSUME IInv, NEW n \in Names, IndexSkill(n), UNCHANGED bvars
    PROVE  IInv'
  <1>1. /\ UNCHANGED <<members, count, skill, run, engine, embeds, faults, redone, lost, asked>>
        /\ UNCHANGED <<row, tier, starts, cli, chased>> /\ text' = text
        /\ indexed' = [indexed EXCEPT ![n] = skill[n].cluster]
    BY DEF IndexSkill, process, history, bvars
  <1>2. indexed \in [Names -> Clusters \cup {None}] /\ skill[n].cluster \in Clusters \cup {None}
    BY DEF IInv, TypeOK, SkillsTypeOK, SkillType
  <1>3. /\ indexed' \in [Names -> Clusters \cup {None}]
        /\ \A m \in Names : indexed'[m] \in {indexed[m], skill[m].cluster}
    BY <1>1, <1>2
  <1>4. text' \in [Items -> 0..MaxVersion] /\ \A j \in Items : text[j] <= text'[j]
    BY <1>1, TextIs
  <1>5. QED
    BY <1>1, <1>3, <1>4, QuietKeeps

LEMMA IndexStep ==
    ASSUME IInv, NEW i \in Items, Index(i)
    PROVE  IInv'
  <1> DEFINE able == IF engine = "server" THEN embeds ELSE tier
             v == IF able THEN text[i] ELSE 0
             new == [text |-> text[i], vec |-> v, sub |-> IF HasSubject(i) THEN v ELSE 0]
  <1>1. /\ row[i].text # text[i] /\ row' = [row EXCEPT ![i] = new]
        /\ chased' = IF cli.pc \in {"confirm", "write"} /\ Phase = "vectors" /\ <<i, None>> \in cli.left
                     THEN chased \cup {i} ELSE chased
        /\ UNCHANGED <<members, count, skill, indexed, run, engine, embeds, faults, redone, lost, asked>>
        /\ UNCHANGED <<text, tier, starts, cli>>
    BY DEF Index, skills, store, process, history
  <1>2. v \in {0, text[i]}
    OBVIOUS
  <1>3. new.text = text[i] /\ {new.vec, new.sub} \subseteq {0, text[i]} /\ new \in RowType
    BY <1>2, TextIs DEF RowType
  <1> HIDE DEF able, v, new
  <1>4. /\ row' \in [Items -> RowType] /\ row'[i] = new
        /\ \A j \in Items \ {i} : row'[j] = row[j]
        /\ chased' \subseteq Items /\ chased \subseteq chased'
    BY <1>1, <1>3, TextIs
  <1>5. row'[i].text # cli.found[i].text
    <2>1. cli.found[i].text <= row[i].text /\ row[i].text <= text[i]
          /\ cli.found[i].text \in Nat /\ row[i].text \in Nat /\ text[i] \in Nat
      BY TextIs
    <2>2. QED
      BY <1>1, <1>3, <1>4, <2>1
  <1>6. RunInv'
    <2>1. TextStays /\ indexed' \in [Names -> Clusters \cup {None}] /\ faults' \in 0..MaxFaults
      BY <1>1 DEF TextStays, IInv, TypeOK, SkillsTypeOK
    <2>2. QED
      BY <1>1, <2>1, RunsStay
  <1>7. RowInv'
    <2>1. VectorsAreOfTheirText'
      BY <1>3, <1>4 DEF IInv, VectorsAreOfTheirText
    <2>2. QED
      BY <1>1, <1>4, <2>1, TextIs DEF RowInv
  <1>8. Versions'
    <2>1. \A j \in Items : cli.found[j].text <= row'[j].text /\ row'[j].text <= text[j]
      BY <1>3, <1>4, TextIs
    <2>2. QED
      BY <1>1, <2>1 DEF Versions
  <1>9. PhaseOk' /\ ItemsMet' /\ Sources' /\ Files' /\ ItemsGo'
    BY <1>1 DEF IInv, PhaseOk, ItemsMet, Sources, Files, ItemsGo, Phase, Grouping, Clustered
  <1>10. Phase' = Phase
    BY <1>1 DEF Phase
  <1>11. \A j \in Items : Needs(cli.found[j], j)' = Needs(cli.found[j], j)
    BY <1>1 DEF Needs
  <1>12. \A j \in Items \ {i} : Needs(row[j], j)' = Needs(row[j], j)
    BY <1>4 DEF Needs
  <1>13. Vectors'
    <2>1. ASSUME cli.pc \in {"confirm", "write"}, Phase = "vectors", NEW j \in Items
          PROVE  /\ <<j, None>> \in cli.left /\ j \notin chased' => row'[j].text = cli.found[j].text
                 /\ row'[j].text = cli.found[j].text /\ row'[j].text # 0 /\ ~ cli.failed =>
                       \/ Needs(row[j], j)' = {}
                       \/ Needs(cli.found[j], j) = {"sub"}
                       \/ /\ <<j, None>> \in cli.left /\ row'[j] = cli.found[j]
                          /\ cli.pc = "write" =>
                               cli.sides[j] \in {Needs(row[j], j)', Needs(row[j], j)' \ {"sub"}}
      <3>1. CASE j = i
        BY <1>1, <1>5, <2>1, <3>1
      <3>2. CASE j # i
        BY <1>4, <1>12, <2>1, <3>2 DEF IInv, Vectors
      <3>3. QED
        BY <3>1, <3>2
    <2>2. QED
      BY <1>1, <1>10, <1>11, <2>1 DEF Vectors
  <1>14. ExitZeroMeansDone'
    <2>1. VectorsComplete'
      <3>1. ASSUME Succeeded("vectors"), NEW j \in Items
            PROVE  \/ row'[j].text \notin {cli.found[j].text} \ {0}
                   \/ Needs(row[j], j)' = {}
                   \/ Needs(cli.found[j], j) = {"sub"}
        <4>1. CASE j = i
          BY <1>5, <4>1
        <4>2. CASE j # i
          BY <1>4, <1>12, <3>1, <4>2 DEF IInv, ExitZeroMeansDone, VectorsComplete
        <4>3. QED
          BY <4>1, <4>2
      <3>2. QED
        BY <1>1, <1>10, <1>11, <3>1 DEF VectorsComplete, Succeeded
    <2>2. ItemsComplete' /\ OrphansFound'
      BY <1>1 DEF IInv, ExitZeroMeansDone, ItemsComplete, OrphansFound, Succeeded, Phase, Clustered, Exists, NoSkill
    <2>3. QED
      BY <2>1, <2>2 DEF ExitZeroMeansDone
  <1>15. CliInv'
    <2>1. cli' \in CliType /\ cli'.left \subseteq cli'.met
      BY <1>1, CliFields
    <2>2. QED
      BY <1>8, <1>9, <1>13, <1>14, <2>1 DEF CliInv
  <1>16. QED
    BY <1>6, <1>7, <1>15, PartsAreIInv

-----------------------------------------------------------------------------
(* The steps of the command *)

\* What a step of the command that leaves the runs and rows as they are has to keep.
LEMMA CommandKeeps ==
    ASSUME IInv, UNCHANGED <<members, count, skill, run, engine, embeds, redone, lost, asked>>,
           UNCHANGED <<text, row, tier, chased>>, starts' \in 0..MaxStarts,
           faults' \in 0..MaxFaults, indexed' \in [Names -> Clusters \cup {None}], CliInv'
    PROVE  IInv'
  <1>1. RunInv'
    BY RunsStay DEF TextStays
  <1>2. RowInv'
    BY RowsStay, TextIs
  <1>3. QED
    BY <1>1, <1>2, PartsAreIInv

LEMMA SkillsStay ==
    ASSUME IInv, UNCHANGED skills
    PROVE  /\ UNCHANGED <<members, count, skill, run, engine, embeds, redone, lost, asked, indexed>>
           /\ faults' \in 0..MaxFaults /\ indexed' \in [Names -> Clusters \cup {None}]
  BY DEF skills, store, process, history, IInv, TypeOK, SkillsTypeOK

LEMMA InvokeStep ==
    ASSUME IInv, NEW phases \in Selected, Invoke(phases)
    PROVE  IInv'
  <1>1. /\ cli' = [NoCli EXCEPT !.pc = "probe", !.able = tier, !.todo = phases]
        /\ UNCHANGED skills /\ UNCHANGED <<text, row, tier, chased>>
        /\ starts' \in 0..MaxStarts
    BY TextIs DEF Invoke, Start
  <1>2. phases # <<>>
    BY DEF Selected, Phases
  <1>3. tier \in BOOLEAN
    BY TextIs
  <1>4. /\ NoCli \in CliType /\ NoCli.left = {} /\ NoCli.met = {}
        /\ \A i \in Items : NoCli.found[i].text = 0
        /\ \A n \in Names : NoCli.files[n] = NoSkill
    BY NoCliIs DEF NoRow
  <1>5. /\ cli' \in CliType /\ cli'.pc = "probe" /\ cli'.todo = phases /\ cli'.left = {} /\ cli'.met = {}
        /\ \A i \in Items : cli'.found[i].text = 0
        /\ \A n \in Names : cli'.files[n] = NoSkill
    BY <1>1, <1>3, <1>4, ZenonT(60) DEF CliType
  <1>6. Versions'
    BY <1>1, <1>5, TextIs DEF Versions
  <1>7. ExitZeroMeansDone'
    BY <1>5 DEF ExitZeroMeansDone, VectorsComplete, ItemsComplete, OrphansFound, Succeeded
  <1>8. CliInv'
    BY <1>2, <1>5, <1>6, <1>7, AtRest
  <1>9. QED
    BY <1>1, <1>8, SkillsStay, CommandKeeps

LEMMA ProbeStep ==
    ASSUME IInv, Probe
    PROVE  IInv'
  <1> DEFINE next == [cli EXCEPT !.pc = IF Phase = "skills" THEN "sync" ELSE "scan", !.files = skill]
  <1>1. /\ cli.pc = "probe" /\ UNCHANGED skills /\ UNCHANGED <<text, row, tier, starts, chased>>
        /\ cli' \in {Exit("unconfigured"), Exit("locked"), next}
    BY DEF Probe
  <1>2. CliInv'
    <2>1. CASE cli' = Exit("unconfigured")
      BY <1>1, <2>1, ExitKeeps
    <2>2. CASE cli' = Exit("locked")
      BY <1>1, <2>2, ExitKeeps
    <2>3. CASE cli' = next
      <3>1. /\ cli \in CliType /\ cli.left \subseteq cli.met /\ cli.todo # <<>>
            /\ skill \in [Names -> SkillType] /\ skill' = skill
        BY <1>1, CliFields, SkillsStay DEF IInv, TypeOK, SkillsTypeOK
      <3>2. /\ cli' \in CliType /\ cli'.todo = cli.todo /\ cli'.found = cli.found /\ cli'.files = skill
            /\ cli'.left = cli.left /\ cli'.met = cli.met
            /\ cli'.pc = IF Phase = "skills" THEN "sync" ELSE "scan"
        BY <2>3, <3>1 DEF CliType
      <3>3. Phase' = Phase
        BY <3>2 DEF Phase
      <3>4. Versions' /\ PhaseOk' /\ Files'
        BY <1>1, <3>1, <3>2, <3>3 DEF IInv, Versions, PhaseOk, Files
      <3>5. Vectors' /\ ItemsMet' /\ ItemsGo' /\ Sources'
        BY <3>2 DEF Vectors, ItemsMet, ItemsGo, Sources
      <3>6. ExitZeroMeansDone'
        BY <3>2 DEF ExitZeroMeansDone, VectorsComplete, ItemsComplete, OrphansFound, Succeeded
      <3>7. QED
        BY <3>1, <3>2, <3>4, <3>5, <3>6 DEF CliInv
    <2>4. QED
      BY <1>1, <2>1, <2>2, <2>3
  <1>3. starts' \in 0..MaxStarts
    BY <1>1, TextIs
  <1>4. QED
    BY <1>1, <1>2, <1>3, SkillsStay, CommandKeeps

LEMMA DeclineStep ==
    ASSUME IInv, Decline
    PROVE  IInv'
  <1>1. /\ cli' = Exit("declined") /\ UNCHANGED skills /\ UNCHANGED <<text, row, tier, starts, chased>>
    BY DEF Decline
  <1>2. starts' \in 0..MaxStarts
    BY <1>1, TextIs
  <1>3. QED
    BY <1>1, <1>2, SkillsStay, ExitKeeps, CommandKeeps

LEMMA BacklogIs ==
    ASSUME IInv, Phase \in {"vectors", "clusters", "skills"}
    PROVE  /\ Backlog \subseteq Items \X (Clusters \cup {None})
           /\ Phase = "vectors" => \A i \in Items :
                 <<i, None>> \in Backlog <=> row[i].text # 0 /\ Needs(row[i], i) # {}
           /\ Phase = "clusters" => \A i \in Items : <<i, None>> \in Backlog <=> row[i].text # 0
           /\ Phase = "skills" => \A m \in Backlog : /\ m[1] \in Cases /\ m[2] \in Clusters
                                                     /\ text[m[1]] # 0
  <1>1. CASE Phase = "vectors"
    <2>1. Backlog = {i \in Items : row[i].text # 0 /\ Needs(row[i], i) # {}} \X {None}
      BY <1>1 DEF Backlog
    <2>2. QED
      BY <1>1, <2>1
  <1>2. CASE Phase = "clusters"
    <2>1. Backlog = {i \in Items : row[i].text # 0} \X {None}
      BY <1>2 DEF Backlog
    <2>2. QED
      BY <1>2, <2>1
  <1>3. CASE Phase = "skills"
    <2>1. Backlog = {m \in Cases \X Untaught : m[1] \in members[m[2]]}
      BY <1>3 DEF Backlog
    <2>2. Untaught \subseteq Clusters /\ Cases \subseteq Items
      BY DEF Untaught, Items
    <2>3. \A i \in Items : Clustered(i) => text[i] # 0
      BY DEF IInv, Counted
    <2>4. \A m \in Backlog : m \in Cases \X Clusters /\ m[1] \in members[m[2]]
      BY <2>1, <2>2
    <2>5. \A m \in Backlog : m[1] \in Cases /\ m[2] \in Clusters /\ text[m[1]] # 0
      BY <2>2, <2>3, <2>4 DEF Clustered
    <2>6. Backlog \subseteq Items \X (Clusters \cup {None})
      BY <2>2, <2>4
    <2>7. QED
      BY <1>3, <2>5, <2>6
  <1>4. QED
    BY <1>1, <1>2, <1>3

LEMMA ScanStep ==
    ASSUME IInv, Scan
    PROVE  IInv'
  <1>1. /\ cli.pc = "scan" /\ UNCHANGED skills /\ UNCHANGED <<text, row, tier, starts, chased>>
        /\ cli' = [(IF Backlog = {} THEN NextPhase(cli.failed)
                    ELSE [cli EXCEPT !.pc = "confirm", !.left = Backlog])
                       EXCEPT !.found = row, !.met = Backlog]
    BY DEF Scan
  <1>2. /\ cli \in CliType /\ cli.todo # <<>> /\ Phase \in {"vectors", "clusters", "skills"}
        /\ row \in [Items -> RowType] /\ UNCHANGED <<skill, indexed>>
    BY <1>1, CliFields, SkillsStay, TextIs
  <1>3. Backlog \in SUBSET (Items \X (Clusters \cup {None}))
    BY <1>2, BacklogIs
  <1>4. ASSUME cli'.found = row PROVE Versions'
    BY <1>1, <1>4, TextIs DEF Versions
  <1>5. CASE Backlog = {}
    <2> DEFINE next == NextPhase(cli.failed)
    <2>1. NextPhaseGoes(next)
      BY <1>1, NextPhaseIs
    <2>2. cli' = [next EXCEPT !.found = row, !.met = Backlog]
      BY <1>1, <1>5
    <2> HIDE DEF next
    <2>3. /\ cli' \in CliType /\ cli'.found = row /\ cli'.met = {} /\ cli'.left = {}
          /\ cli'.pc = next.pc /\ cli'.todo = next.todo /\ cli'.files = next.files
          /\ cli'.missed = next.missed /\ cli'.exit = next.exit
      BY <1>2, <1>3, <1>5, <2>1, <2>2, ZenonT(60) DEF NextPhaseGoes, CliType
    <2>4. \A n \in Names : cli'.files[n] \in {NoSkill, skill'[n]}
      BY <1>2, <2>1, <2>3 DEF NextPhaseGoes, IInv, Files
    <2>5. ASSUME cli'.pc = "idle", cli'.exit = "success" PROVE ExitZeroMeansDone'
      <3>1. next.todo = cli.todo /\ next.files = cli.files /\ next.missed = cli.missed
        BY <2>1, <2>3, <2>5 DEF NextPhaseGoes
      <3>2. Phase' = Phase
        BY <2>3, <3>1 DEF Phase
      <3>3. VectorsComplete'
        <4>1. Phase = "vectors" => \A i \in Items : row[i].text = 0 \/ Needs(row[i], i) = {}
          BY <1>2, <1>5, BacklogIs
        <4>2. \A i \in Items : Needs(row[i], i)' = Needs(row[i], i)
          BY <1>1 DEF Needs
        <4>3. QED
          BY <1>1, <2>3, <3>2, <4>1, <4>2 DEF VectorsComplete, Succeeded
      <3>4. ItemsComplete'
        BY <2>3 DEF ItemsComplete
      <3>5. OrphansFound'
        <4>1. ASSUME Phase = "skills", ~ cli.missed, NEW n \in Names, cli.files[n] # NoSkill
              PROVE  indexed[n] = skill[n].cluster
          BY <1>1, <4>1 DEF IInv, Files
        <4>2. QED
          BY <1>2, <2>3, <3>1, <3>2, <4>1 DEF OrphansFound, Succeeded, Exists, NoSkill
      <3>6. QED
        BY <3>3, <3>4, <3>5 DEF ExitZeroMeansDone
    <2>6. ExitZeroMeansDone'
      BY <2>5 DEF ExitZeroMeansDone, VectorsComplete, ItemsComplete, OrphansFound, Succeeded
    <2>7. CliInv'
      <3>1. cli'.pc \in {"idle", "probe"} /\ (cli'.pc = "probe" => cli'.todo # <<>>)
        BY <2>1, <2>3 DEF NextPhaseGoes
      <3>2. QED
        BY <1>4, <2>3, <2>4, <2>6, <3>1, AtRest
    <2>8. QED
      BY <1>1, <2>7, SkillsStay, CommandKeeps, TextIs
  <1>6. CASE Backlog # {}
    <2>1. cli' = [[cli EXCEPT !.pc = "confirm", !.left = Backlog] EXCEPT !.found = row, !.met = Backlog]
      BY <1>1, <1>6
    <2> DEFINE B == Backlog
    <2>2. B \in SUBSET (Items \X (Clusters \cup {None}))
      BY <1>3
    <2> HIDE DEF B
    <2>3. /\ cli' \in CliType /\ cli'.found = row /\ cli'.met = B /\ cli'.left = B
          /\ cli'.pc = "confirm" /\ cli'.todo = cli.todo /\ cli'.files = cli.files
          /\ cli'.missed = cli.missed
      <3>1. cli' = [[cli EXCEPT !.pc = "confirm", !.left = B] EXCEPT !.found = row, !.met = B]
        BY <2>1 DEF B
      <3>2. QED
        BY <1>2, <2>2, <3>1 DEF CliType
    <2>4. Phase' = Phase
      BY <2>3 DEF Phase
    <2>5. Versions' /\ PhaseOk'
      BY <1>2, <1>4, <2>3 DEF PhaseOk
    <2>6. Vectors'
      <3>1. \A i \in Items : Needs(row[i], i)' = Needs(row[i], i)
        BY <1>1 DEF Needs
      <3>2. Phase = "vectors" => \A i \in Items :
                 <<i, None>> \in B <=> row[i].text # 0 /\ Needs(row[i], i) # {}
        BY <1>2, BacklogIs DEF B
      <3>3. QED
        BY <1>1, <2>3, <2>4, <3>1, <3>2 DEF Vectors
    <2>7. ItemsMet'
      <3>1. Phase = "clusters" => \A i \in Items : <<i, None>> \in B => row[i].text # 0
        BY <1>2, BacklogIs DEF B
      <3>2. \A i \in Items : row[i].text # 0 => text[i] # 0
        BY TextIs
      <3>3. QED
        BY <1>1, <2>3, <2>4, <3>1, <3>2 DEF ItemsMet
    <2>8. Sources'
      <3>1. Phase = "skills" => \A m \in B : m[1] \in Cases /\ m[2] \in Clusters /\ text[m[1]] # 0
        BY <1>2, BacklogIs DEF B
      <3>2. QED
        BY <1>1, <2>3, <2>4, <3>1 DEF Sources
    <2>9. ItemsGo' /\ ExitZeroMeansDone'
      BY <2>3 DEF ItemsGo, ExitZeroMeansDone, VectorsComplete, ItemsComplete, OrphansFound, Succeeded
    <2>10. Files'
      BY <1>1, <1>2, <2>3, <2>4 DEF IInv, Files
    <2>11. CliInv'
      BY <2>3, <2>5, <2>6, <2>7, <2>8, <2>9, <2>10 DEF CliInv
    <2>12. QED
      BY <1>1, <2>11, SkillsStay, CommandKeeps, TextIs
  <1>7. QED
    BY <1>5, <1>6

LEMMA SyncStep ==
    ASSUME IInv, Sync
    PROVE  IInv'
  <1> DEFINE next == IF cli.pc = "sync" THEN [cli EXCEPT !.pc = "scan"] ELSE NextPhase(cli.failed)
  <1>1. /\ cli.pc \in {"sync", "resync"}
        /\ UNCHANGED <<members, count, skill, run, process, history, text, row, tier, starts, chased>>
        /\ \/ /\ indexed' = [n \in Names |-> skill[n].cluster]
              /\ cli' = next
              /\ UNCHANGED faults
           \/ /\ Fault
              /\ cli' = [next EXCEPT !.missed = TRUE]
              /\ UNCHANGED indexed
    BY DEF Sync
  <1>2. /\ cli \in CliType /\ cli.todo # <<>> /\ cli.left \subseteq cli.met /\ Phase = "skills"
        /\ skill \in [Names -> SkillType] /\ indexed \in [Names -> Clusters \cup {None}]
        /\ faults \in 0..MaxFaults
    BY <1>1, CliFields DEF IInv, PhaseOk, TypeOK, SkillsTypeOK
  <1>3. /\ faults' \in 0..MaxFaults /\ indexed' \in [Names -> Clusters \cup {None}]
    <2>1. \A n \in Names : skill[n].cluster \in Clusters \cup {None}
      BY <1>2 DEF SkillType
    <2>2. QED
      BY <1>1, <1>2, <2>1, FaultIs
  <1>4. /\ next \in CliType /\ next.left \subseteq next.met
        /\ next.pc \in {"idle", "probe", "scan"}
        /\ next.pc # "idle" => next.todo # <<>>
        /\ next.found = cli.found \/ \A i \in Items : next.found[i].text = 0
        /\ next.files = cli.files \/ \A n \in Names : next.files[n] = NoSkill
        /\ next.exit = "success" /\ next.pc = "idle" => next.todo = cli.todo
    <2>1. CASE cli.pc = "sync"
      <3>1. next = [cli EXCEPT !.pc = "scan"]
        BY <2>1
      <3> HIDE DEF next
      <3>2. QED
        BY <1>2, <3>1 DEF CliType
    <2>2. CASE cli.pc = "resync"
      <3>1. next = NextPhase(cli.failed)
        BY <2>2
      <3> HIDE DEF next
      <3>2. NextPhaseGoes(next)
        BY <2>2, <3>1, NextPhaseIs
      <3>3. QED
        BY <3>2 DEF NextPhaseGoes
    <2>3. QED
      BY <1>1, <2>1, <2>2
  <1> HIDE DEF next
  <1>5. /\ cli' \in CliType /\ cli'.pc = next.pc /\ cli'.todo = next.todo /\ cli'.found = next.found
        /\ cli'.files = next.files /\ cli'.left = next.left /\ cli'.met = next.met
        /\ cli'.exit = next.exit
        /\ cli'.missed \/ \A n \in Names : indexed'[n] = skill[n].cluster
    <2>1. CASE indexed' = [n \in Names |-> skill[n].cluster] /\ cli' = next
      BY <1>4, <2>1
    <2>2. CASE cli' = [next EXCEPT !.missed = TRUE]
      <3>1. cli' \in CliType /\ cli'.missed /\ cli'.pc = next.pc /\ cli'.todo = next.todo
            /\ cli'.found = next.found /\ cli'.files = next.files /\ cli'.left = next.left
            /\ cli'.met = next.met /\ cli'.exit = next.exit
        BY <1>4, <2>2 DEF CliType
      <3>2. QED
        BY <3>1
    <2>3. QED
      BY <1>1, <2>1, <2>2
  <1>6. Versions'
    BY <1>1, <1>4, <1>5, TextIs DEF IInv, Versions
  <1>7. \A n \in Names : cli'.files[n] \in {NoSkill, skill'[n]}
    BY <1>1, <1>4, <1>5 DEF IInv, Files
  <1>8. ExitZeroMeansDone'
    <2>1. cli'.pc = "idle" /\ cli'.exit = "success" => Phase' = "skills"
      BY <1>2, <1>4, <1>5 DEF Phase
    <2>2. OrphansFound'
      BY <1>1, <1>5 DEF OrphansFound
    <2>3. QED
      BY <2>1, <2>2 DEF ExitZeroMeansDone, VectorsComplete, ItemsComplete, Succeeded
  <1>9. CliInv'
    <2>1. PhaseOk' /\ Vectors' /\ ItemsMet' /\ ItemsGo' /\ Sources'
      BY <1>4, <1>5 DEF PhaseOk, Vectors, ItemsMet, ItemsGo, Sources
    <2>2. Files'
      BY <1>1, <1>5, <1>7 DEF Files
    <2>3. QED
      BY <1>4, <1>5, <1>6, <1>8, <2>1, <2>2 DEF CliInv
  <1>10. UNCHANGED <<engine, embeds, redone, lost, asked>> /\ starts' \in 0..MaxStarts
    BY <1>1, TextIs DEF process, history
  <1>11. QED
    BY <1>1, <1>3, <1>9, <1>10, CommandKeeps

-----------------------------------------------------------------------------
(* Phase 1 *)

LEMMA EmbedStep ==
    ASSUME IInv, Embed
    PROVE  IInv'
  <1> DEFINE wanted == [i \in Items |-> IF <<i, None>> \in cli.left THEN Needs(cli.found[i], i) ELSE {}]
  <1>1. /\ cli.pc = "confirm" /\ Phase = "vectors"
        /\ UNCHANGED <<store, run, process, history, text, row, tier, starts, chased>>
        /\ \/ cli' = [cli EXCEPT !.pc = "write", !.sides = wanted] /\ UNCHANGED faults
           \/ \E i \in Items : \E side \in wanted[i] :
                /\ Fault
                /\ cli' = [cli EXCEPT !.pc = "write",
                                      !.sides = [wanted EXCEPT ![i] = wanted[i] \ {side}],
                                      !.failed = cli.failed \/ side = "vec"]
    BY DEF Embed
  <1>2. /\ cli \in CliType /\ cli.left \subseteq cli.met /\ cli.todo # <<>> /\ cli.failed \in BOOLEAN
    BY <1>1, CliFields DEF CliType
  <1>3. wanted \in [Items -> SUBSET {"vec", "sub"}]
    BY DEF Needs
  <1>4. \A i \in Items : <<i, None>> \in cli.left => wanted[i] = Needs(cli.found[i], i)
    OBVIOUS
  <1> HIDE DEF wanted
  <1>5. faults' \in 0..MaxFaults
    BY <1>1, FaultIs DEF IInv, TypeOK, SkillsTypeOK
  <1>6. /\ cli' \in CliType /\ cli'.pc = "write" /\ cli'.todo = cli.todo /\ cli'.found = cli.found
        /\ cli'.files = cli.files /\ cli'.left = cli.left /\ cli'.met = cli.met
        /\ \A i \in Items : ~ cli'.failed => cli'.sides[i] \in {wanted[i], wanted[i] \ {"sub"}}
        /\ ~ cli'.failed => ~ cli.failed
    <2>1. CASE cli' = [cli EXCEPT !.pc = "write", !.sides = wanted]
      BY <1>2, <1>3, <2>1 DEF CliType
    <2>2. CASE \E i \in Items : \E side \in wanted[i] :
                 cli' = [cli EXCEPT !.pc = "write", !.sides = [wanted EXCEPT ![i] = wanted[i] \ {side}],
                                    !.failed = cli.failed \/ side = "vec"]
      <3>1. PICK i \in Items : \E side \in wanted[i] :
                 cli' = [cli EXCEPT !.pc = "write", !.sides = [wanted EXCEPT ![i] = wanted[i] \ {side}],
                                    !.failed = cli.failed \/ side = "vec"]
        BY <2>2
      <3>2. PICK side \in wanted[i] :
                 cli' = [cli EXCEPT !.pc = "write", !.sides = [wanted EXCEPT ![i] = wanted[i] \ {side}],
                                    !.failed = cli.failed \/ side = "vec"]
        BY <3>1
      <3> DEFINE S == [wanted EXCEPT ![i] = wanted[i] \ {side}]
                 fails == cli.failed \/ side = "vec"
      <3>3. /\ S \in [Items -> SUBSET {"vec", "sub"}] /\ S[i] = wanted[i] \ {side}
            /\ \A j \in Items \ {i} : S[j] = wanted[j]
        BY <1>3
      <3>4. fails \in BOOLEAN
        BY <1>2
      <3>5. cli' = [cli EXCEPT !.pc = "write", !.sides = S, !.failed = fails]
        BY <3>2
      <3>6. ~ fails => ~ cli.failed /\ side = "sub"
        BY <1>3
      <3> HIDE DEF S, fails
      <3>7. /\ cli' \in CliType /\ cli'.pc = "write" /\ cli'.todo = cli.todo /\ cli'.found = cli.found
            /\ cli'.files = cli.files /\ cli'.left = cli.left /\ cli'.met = cli.met /\ cli'.sides = S
        BY <1>2, <3>3, <3>4, <3>5 DEF CliType
      <3>8. cli'.failed = fails
        BY <1>2, <3>5 DEF CliType
      <3>9. \A j \in Items : ~ fails => S[j] \in {wanted[j], wanted[j] \ {"sub"}}
        BY <3>3, <3>6
      <3>10. QED
        BY <3>6, <3>7, <3>8, <3>9
    <2>3. QED
      BY <1>1, <2>1, <2>2
  <1>7. Phase' = Phase
    BY <1>6 DEF Phase
  <1>8. Versions' /\ PhaseOk' /\ Files'
    BY <1>1, <1>2, <1>6, <1>7 DEF IInv, Versions, PhaseOk, Files, store
  <1>9. Vectors'
    <2>1. \A i \in Items : Needs(row[i], i)' = Needs(row[i], i)
      BY <1>1 DEF Needs
    <2>2. \A i \in Items : Needs(cli.found[i], i)' = Needs(cli.found[i], i)
      BY <1>6 DEF Needs
    <2>3. ASSUME NEW i \in Items
          PROVE  /\ <<i, None>> \in cli.left /\ i \notin chased => row[i].text = cli.found[i].text
                 /\ row[i].text = cli.found[i].text /\ row[i].text # 0 /\ ~ cli'.failed =>
                       \/ Needs(row[i], i) = {}
                       \/ Needs(cli.found[i], i) = {"sub"}
                       \/ /\ <<i, None>> \in cli.left /\ row[i] = cli.found[i]
                          /\ cli'.sides[i] \in {Needs(row[i], i), Needs(row[i], i) \ {"sub"}}
      <3>1. /\ <<i, None>> \in cli.left /\ i \notin chased => row[i].text = cli.found[i].text
            /\ row[i].text = cli.found[i].text /\ row[i].text # 0 /\ ~ cli.failed =>
                  \/ Needs(row[i], i) = {}
                  \/ Needs(cli.found[i], i) = {"sub"}
                  \/ <<i, None>> \in cli.left /\ row[i] = cli.found[i]
        BY <1>1 DEF IInv, Vectors
      <3>2. QED
        BY <1>4, <1>6, <3>1
    <2>4. row' = row /\ chased' = chased /\ cli'.found = cli.found /\ cli'.left = cli.left
      BY <1>1, <1>6
    <2>5. QED
      BY <2>1, <2>2, <2>3, <2>4 DEF Vectors
  <1>10. ItemsMet' /\ ItemsGo' /\ Sources' /\ ExitZeroMeansDone'
    BY <1>6 DEF ItemsMet, ItemsGo, Sources, ExitZeroMeansDone, VectorsComplete, ItemsComplete,
                OrphansFound, Succeeded
  <1>11. CliInv'
    BY <1>2, <1>6, <1>8, <1>9, <1>10 DEF CliInv
  <1>12. /\ UNCHANGED <<members, count, skill, run, engine, embeds, redone, lost, asked>>
         /\ indexed' \in [Names -> Clusters \cup {None}] /\ starts' \in 0..MaxStarts
    BY <1>1, TextIs DEF store, process, history, IInv, TypeOK, SkillsTypeOK
  <1>13. QED
    BY <1>1, <1>5, <1>11, <1>12, CommandKeeps

LEMMA VectorsDoneStep ==
    ASSUME IInv, VectorsDone
    PROVE  IInv'
  <1>1. /\ cli.pc = "write" /\ cli.left = {} /\ cli' = NextPhase(cli.failed)
        /\ UNCHANGED skills /\ UNCHANGED <<text, row, tier, starts, chased>>
    BY DEF VectorsDone
  <1>2. Phase = "vectors" /\ UNCHANGED skill
    BY <1>1, SkillsStay DEF IInv, PhaseOk
  <1>3. NextPhaseGoes(cli')
    BY <1>1, NextPhaseIs
  <1>4. ASSUME cli'.pc = "idle", cli'.exit = "success", ~ cli.failed
        PROVE  ExitZeroMeansDone'
    <2>1. cli'.todo = cli.todo /\ cli'.found = cli.found
      BY <1>3, <1>4 DEF NextPhaseGoes
    <2>2. Phase' = "vectors"
      BY <1>2, <2>1 DEF Phase
    <2>3. \A i \in Items : Needs(row[i], i)' = Needs(row[i], i)
      BY <1>1 DEF Needs
    <2>4. \A i \in Items : Needs(cli.found[i], i)' = Needs(cli.found[i], i)
      BY <2>1 DEF Needs
    <2>5. \A i \in Items : row[i].text = cli.found[i].text /\ row[i].text # 0 =>
              Needs(row[i], i) = {} \/ Needs(cli.found[i], i) = {"sub"}
      BY <1>1, <1>2, <1>4 DEF IInv, Vectors
    <2>6. VectorsComplete'
      BY <1>1, <2>1, <2>3, <2>4, <2>5 DEF VectorsComplete
    <2>7. QED
      BY <2>2, <2>6 DEF ExitZeroMeansDone, ItemsComplete, OrphansFound, Succeeded
  <1>5. CliInv'
    BY <1>1, <1>2, <1>4, NextPhaseKeeps
  <1>6. starts' \in 0..MaxStarts
    BY <1>1, TextIs
  <1>7. QED
    BY <1>1, <1>5, <1>6, SkillsStay, CommandKeeps

LEMMA UpdateRowStep ==
    ASSUME IInv, NEW i \in Items, UpdateRow(i)
    PROVE  IInv'
  <1> DEFINE f == cli.found[i].text
             new == [row[i] EXCEPT !.vec = IF "vec" \in cli.sides[i] THEN f ELSE @,
                                   !.sub = IF "sub" \in cli.sides[i] THEN f ELSE @]
             gap == cli.failed \/ SideGap(i)
             update == [row EXCEPT
                          ![i].vec = IF "vec" \in cli.sides[i] THEN cli.found[i].text ELSE @,
                          ![i].sub = IF "sub" \in cli.sides[i] THEN cli.found[i].text ELSE @]
  <1>0. update = [row EXCEPT ![i] = new]
    BY TextIs
  <1>1. /\ cli.pc = "write" /\ <<i, None>> \in cli.left
        /\ UNCHANGED <<store, run, process, history, text, tier, starts, chased>>
        /\ \/ /\ row' = update
              /\ cli' = [cli EXCEPT !.left = cli.left \ {<<i, None>>}, !.failed = gap]
              /\ UNCHANGED faults
           \/ /\ Fault
              /\ cli' = [cli EXCEPT !.left = cli.left \ {<<i, None>>}, !.failed = TRUE]
              /\ UNCHANGED row
    BY DEF UpdateRow, update, gap
  <1>2. /\ cli \in CliType /\ cli.left \subseteq cli.met /\ cli.todo # <<>> /\ cli.failed \in BOOLEAN
        /\ cli.sides[i] \subseteq {"vec", "sub"} /\ Phase = "vectors"
        /\ row[i] \in RowType /\ cli.found[i] \in RowType /\ row \in [Items -> RowType]
    BY <1>1, CliFields, TextIs DEF CliType, IInv, PhaseOk
  <1>3. /\ new \in RowType /\ new.text = row[i].text
        /\ new.vec = IF "vec" \in cli.sides[i] THEN f ELSE row[i].vec
        /\ new.sub = IF "sub" \in cli.sides[i] THEN f ELSE row[i].sub
    BY <1>2 DEF RowType
  <1>4. gap \in BOOLEAN
    OBVIOUS
  <1>5. ~ gap => ~ cli.failed /\ (cli.sides[i] = {} \/ cli.sides[i] = Needs(cli.found[i], i))
    BY DEF SideGap
  <1> HIDE DEF f, new, gap, update
  <1>6. /\ cli' \in CliType /\ cli'.pc = "write" /\ cli'.todo = cli.todo /\ cli'.found = cli.found
        /\ cli'.files = cli.files /\ cli'.left = cli.left \ {<<i, None>>} /\ cli'.met = cli.met
        /\ cli'.sides = cli.sides
        /\ ~ cli'.failed => ~ cli.failed /\ ~ gap /\ row' = [row EXCEPT ![i] = new]
        /\ row' = [row EXCEPT ![i] = new] \/ row' = row
        /\ faults' \in 0..MaxFaults
    <2>1. CASE row' = [row EXCEPT ![i] = new]
               /\ cli' = [cli EXCEPT !.left = cli.left \ {<<i, None>>}, !.failed = gap] /\ UNCHANGED faults
      <3>1. /\ cli' \in CliType /\ cli'.pc = "write" /\ cli'.todo = cli.todo /\ cli'.found = cli.found
            /\ cli'.files = cli.files /\ cli'.left = cli.left \ {<<i, None>>} /\ cli'.met = cli.met
            /\ cli'.sides = cli.sides
        BY <1>1, <1>2, <1>4, <2>1 DEF CliType
      <3>2. cli'.failed = gap
        BY <1>2, <2>1 DEF CliType
      <3>3. QED
        BY <1>5, <2>1, <3>1, <3>2 DEF IInv, TypeOK, SkillsTypeOK
    <2>2. CASE /\ Fault /\ row' = row
               /\ cli' = [cli EXCEPT !.left = cli.left \ {<<i, None>>}, !.failed = TRUE]
      <3>1. /\ cli' \in CliType /\ cli'.pc = "write" /\ cli'.todo = cli.todo /\ cli'.found = cli.found
            /\ cli'.files = cli.files /\ cli'.left = cli.left \ {<<i, None>>} /\ cli'.met = cli.met
            /\ cli'.sides = cli.sides /\ cli'.failed
        BY <1>1, <1>2, <2>2 DEF CliType
      <3>2. QED
        BY <2>2, <3>1, FaultIs
    <2>3. QED
      BY <1>0, <1>1, <2>1, <2>2
  <1>7. /\ row' \in [Items -> RowType] /\ \A j \in Items : row'[j].text = row[j].text
        /\ \A j \in Items \ {i} : row'[j] = row[j]
        /\ row'[i] \in {new, row[i]}
        /\ ~ cli'.failed => row'[i] = new
    BY <1>2, <1>3, <1>6
  <1>8. Phase' = Phase
    BY <1>6 DEF Phase
  <1>9. <<i, None>> \in cli.left /\ i \notin chased => row[i].text = f
    BY <1>1, <1>2 DEF IInv, Vectors, f
  <1>10. VectorsAreOfTheirText'
    <2>1. ASSUME i \notin chased PROVE {row'[i].vec, row'[i].sub} \subseteq {0, row'[i].text}
      <3>1. {row[i].vec, row[i].sub} \subseteq {0, row[i].text}
        BY <2>1 DEF IInv, VectorsAreOfTheirText
      <3>2. QED
        BY <1>1, <1>3, <1>7, <1>9, <2>1, <3>1
    <2>2. \A j \in Items \ {i} : j \notin chased => {row'[j].vec, row'[j].sub} \subseteq {0, row'[j].text}
      BY <1>7 DEF IInv, VectorsAreOfTheirText
    <2>3. chased' = chased
      BY <1>1
    <2>4. QED
      BY <2>1, <2>2, <2>3 DEF VectorsAreOfTheirText
  <1>11. RowInv'
    BY <1>1, <1>7, <1>10, TextIs DEF RowInv
  <1>12. \A j \in Items \ {i} : Needs(row[j], j)' = Needs(row[j], j)
    BY <1>7 DEF Needs
  <1>13. \A j \in Items : Needs(cli.found[j], j)' = Needs(cli.found[j], j)
    BY <1>6 DEF Needs
  <1>14. ASSUME row'[i].text = cli.found[i].text, row'[i].text # 0, ~ cli'.failed
         PROVE  Needs(row[i], i)' = {} \/ Needs(cli.found[i], i) = {"sub"}
    <2>1. /\ row'[i] = new /\ ~ cli.failed /\ row[i].text = f /\ f # 0
          /\ cli.sides[i] = {} \/ cli.sides[i] = Needs(cli.found[i], i)
      BY <1>5, <1>6, <1>7, <1>14 DEF f
    <2>2. \/ Needs(row[i], i) = {}
          \/ Needs(cli.found[i], i) = {"sub"}
          \/ /\ row[i] = cli.found[i]
             /\ cli.sides[i] \in {Needs(row[i], i), Needs(row[i], i) \ {"sub"}}
      BY <1>1, <1>2, <2>1 DEF IInv, Vectors, f
    <2>3. CASE Needs(row[i], i) = {}
      <3>1. row[i].vec # 0 /\ (HasSubject(i) => row[i].sub # 0)
        BY <2>3 DEF Needs
      <3>2. new.vec # 0 /\ (HasSubject(i) => new.sub # 0)
        BY <1>3, <2>1, <3>1
      <3>3. QED
        BY <2>1, <3>2 DEF Needs, HasSubject
    <2>4. CASE /\ row[i] = cli.found[i] /\ cli.sides[i] = Needs(cli.found[i], i)
      <3>1. new.vec # 0 /\ (HasSubject(i) => new.sub # 0)
        BY <1>3, <2>1, <2>4 DEF Needs
      <3>2. QED
        BY <2>1, <3>1 DEF Needs, HasSubject
    <2>5. CASE /\ row[i] = cli.found[i] /\ cli.sides[i] = {}
               /\ cli.sides[i] \in {Needs(row[i], i), Needs(row[i], i) \ {"sub"}}
      <3>1. Needs(row[i], i) \subseteq {"sub"}
        BY <2>5
      <3>2. Needs(row[i], i) = {} \/ Needs(cli.found[i], i) = {"sub"}
        BY <2>5, <3>1
      <3>3. QED
        BY <2>3, <3>2
    <2>6. QED
      BY <2>1, <2>2, <2>3, <2>4, <2>5
  <1>15. Vectors'
    <2>1. ASSUME NEW j \in Items
          PROVE  /\ <<j, None>> \in cli'.left /\ j \notin chased => row'[j].text = cli.found[j].text
                 /\ row'[j].text = cli.found[j].text /\ row'[j].text # 0 /\ ~ cli'.failed =>
                       \/ Needs(row[j], j)' = {}
                       \/ Needs(cli.found[j], j) = {"sub"}
                       \/ /\ <<j, None>> \in cli'.left /\ row'[j] = cli.found[j]
                          /\ cli.sides[j] \in {Needs(row[j], j)', Needs(row[j], j)' \ {"sub"}}
      <3>1. CASE j = i
        BY <1>6, <1>14, <3>1
      <3>2. CASE j # i
        <4>1. <<j, None>> \in cli'.left <=> <<j, None>> \in cli.left
          BY <1>6, <3>2
        <4>2. /\ <<j, None>> \in cli.left /\ j \notin chased => row[j].text = cli.found[j].text
              /\ row[j].text = cli.found[j].text /\ row[j].text # 0 /\ ~ cli.failed =>
                       \/ Needs(row[j], j) = {}
                       \/ Needs(cli.found[j], j) = {"sub"}
                       \/ /\ <<j, None>> \in cli.left /\ row[j] = cli.found[j]
                          /\ cli.sides[j] \in {Needs(row[j], j), Needs(row[j], j) \ {"sub"}}
          BY <1>1, <1>2 DEF IInv, Vectors
        <4>3. row'[j] = row[j] /\ Needs(row[j], j)' = Needs(row[j], j) /\ (~ cli'.failed => ~ cli.failed)
          BY <1>6, <1>7, <1>12, <3>2
        <4>4. QED
          BY <4>1, <4>2, <4>3
      <3>3. QED
        BY <3>1, <3>2
    <2>2. QED
      BY <1>1, <1>6, <1>8, <1>13, <2>1 DEF Vectors
  <1>16. Versions' /\ PhaseOk' /\ Files'
    BY <1>1, <1>2, <1>6, <1>7, <1>8 DEF IInv, Versions, PhaseOk, Files, store
  <1>17. ItemsMet' /\ ItemsGo' /\ Sources' /\ ExitZeroMeansDone'
    BY <1>6 DEF ItemsMet, ItemsGo, Sources, ExitZeroMeansDone, VectorsComplete, ItemsComplete,
                OrphansFound, Succeeded
  <1>18. CliInv'
    <2>1. cli'.left \subseteq cli'.met
      BY <1>2, <1>6
    <2>2. QED
      BY <1>6, <1>15, <1>16, <1>17, <2>1 DEF CliInv
  <1>19. RunInv'
    <2>1. /\ UNCHANGED <<members, count, skill, run, engine, embeds, redone, lost, asked>>
          /\ indexed' \in [Names -> Clusters \cup {None}] /\ TextStays
      BY <1>1 DEF store, process, history, IInv, TypeOK, SkillsTypeOK, TextStays
    <2>2. QED
      BY <1>6, <2>1, RunsStay
  <1>20. QED
    BY <1>11, <1>18, <1>19, PartsAreIInv

-----------------------------------------------------------------------------
(* Phases 2 and 3 *)

\* An item leaves those that remain.
LEMMA LeftIs ==
    ASSUME IInv, NEW m, cli.pc = "emit", cli' = [cli EXCEPT !.left = cli.left \ {m}]
    PROVE  /\ cli' \in CliType /\ cli'.left = cli.left \ {m} /\ cli'.left \subseteq cli'.met
           /\ cli'.met = cli.met /\ cli'.pc = "emit" /\ cli'.todo = cli.todo /\ cli'.found = cli.found
           /\ cli'.files = cli.files /\ cli'.missed = cli.missed /\ Phase' = Phase
           /\ cli.todo # <<>>
  <1>1. cli \in CliType /\ cli.left \subseteq cli.met /\ cli.todo # <<>>
    BY CliFields
  <1>2. cli.left \ {m} \in SUBSET (Items \X (Clusters \cup {None}))
    BY <1>1 DEF CliType
  <1>3. QED
    BY <1>1, <1>2 DEF CliType, Phase

LEMMA EmitKeepsCli ==
    ASSUME IInv, NEW m, cli.pc = "emit", cli' = [cli EXCEPT !.left = cli.left \ {m}],
           UNCHANGED <<text, row, skill, indexed, engine, embeds, chased>>, ItemsGo'
    PROVE  CliInv'
  <1>1. /\ cli' \in CliType /\ cli'.left = cli.left \ {m} /\ cli'.left \subseteq cli'.met
        /\ cli'.met = cli.met /\ cli'.pc = "emit" /\ cli'.todo = cli.todo /\ cli'.found = cli.found
        /\ cli'.files = cli.files /\ cli'.missed = cli.missed /\ Phase' = Phase
        /\ cli.todo # <<>>
    BY LeftIs
  <1>2. Versions' /\ PhaseOk' /\ Files' /\ ItemsMet' /\ Sources'
    BY <1>1 DEF IInv, Versions, PhaseOk, Files, ItemsMet, Sources
  <1>3. Vectors' /\ ExitZeroMeansDone'
    BY <1>1 DEF Vectors, ExitZeroMeansDone, VectorsComplete, ItemsComplete, OrphansFound, Succeeded
  <1>4. QED
    BY <1>1, <1>2, <1>3 DEF CliInv

LEMMA EmitItemStep ==
    ASSUME IInv, NEW i \in Items, EmitItem(i)
    PROVE  IInv'
  <1>1. /\ cli.pc = "emit" /\ Phase = "clusters" /\ <<i, None>> \in cli.left
        /\ Clustered(i) \/ Free # {}
        /\ run' = IF Clustered(i) THEN run ELSE Enqueued(run, "group", i, None, TRUE)
        /\ cli' = [cli EXCEPT !.left = cli.left \ {<<i, None>>}]
        /\ UNCHANGED <<members, count, skill, indexed, engine, embeds, faults, redone, lost, asked>>
        /\ UNCHANGED <<text, row, tier, starts, chased>>
    BY DEF EmitItem, store, process, history
  <1>2. RowInv'
    BY <1>1, RowsStay, TextIs
  <1>3. /\ cli'.left = cli.left \ {<<i, None>>} /\ cli'.met = cli.met /\ cli'.pc = "emit" /\ Phase' = Phase
    BY <1>1, LeftIs
  <1>4. <<i, None>> \in cli.met /\ text[i] # 0 /\ engine = "phase2"
    BY <1>1, CliFields DEF IInv, ItemsMet, PhaseOk
  <1>5. \A j \in Items : <<j, None>> \in cli.met =>
            /\ <<j, None>> \in cli.left => \A r \in RunIds : Grouping(r) => run[r].item # j
            /\ j \in Poor \cup lost \/ <<j, None>> \in cli.left \/ Clustered(j)
                  \/ \E r \in RunIds : Grouping(r) /\ run[r].item = j
    BY <1>1 DEF IInv, ItemsGo
  <1>6. TextStays /\ MembersStay
    BY <1>1 DEF TextStays, MembersStay
  <1>7. \A j \in Items : Clustered(j)' <=> Clustered(j)
    BY <1>1 DEF Clustered
  <1>8. CASE Clustered(i)
    <2>1. UNCHANGED run
      BY <1>1, <1>8
    <2>2. faults' \in 0..MaxFaults /\ indexed' \in [Names -> Clusters \cup {None}]
      BY <1>1 DEF IInv, TypeOK, SkillsTypeOK
    <2>3. RunInv'
      BY <1>1, <1>6, <2>1, <2>2, RunsStay
    <2>4. \A r \in RunIds : Grouping(r)' <=> Grouping(r)
      BY <2>1 DEF Grouping
    <2>5. ItemsGo'
      BY <1>1, <1>3, <1>5, <1>7, <1>8, <2>1, <2>4 DEF ItemsGo
    <2>6. CliInv'
      BY <1>1, <2>5, EmitKeepsCli
    <2>7. QED
      BY <1>2, <2>3, <2>6, PartsAreIInv
  <1>9. CASE ~ Clustered(i)
    <2>1. run \in [RunIds -> RunType] /\ "group" \in Registered /\ \E r \in RunIds : run[r].pc = "none"
      BY <1>1, <1>4, <1>9 DEF IInv, TypeOK, SkillsTypeOK, Registered, Free
    <2>2. EnqueuedIn(run, "group", i, None, run')
      <3>1. run' \in {Enqueued(run, "group", i, None, TRUE), Enqueued(run, "group", i, None, FALSE)}
        BY <1>1, <1>9
      <3>2. "group" \in {"group", "teach"} /\ None \in Clusters \cup {None}
        OBVIOUS
      <3>3. QED
        BY <2>1, <3>1, <3>2, EnqueuedIs
    <2>3. PICK new \in RunIds : \E q \in RunType :
              /\ run[new].pc = "none" /\ run' = [run EXCEPT ![new] = q]
              /\ q.pc = "queued" /\ q.kind = "group" /\ q.item = i /\ q.wrote = {}
      BY <2>1, <2>2 DEF EnqueuedIn
    <2>4. /\ run' \in [RunIds -> RunType] /\ run'[new].pc = "queued" /\ run'[new].kind = "group"
          /\ run'[new].item = i /\ run'[new].wrote = {} /\ run[new].pc = "none"
          /\ \A q \in RunIds \ {new} : run'[q] = run[q]
      BY <2>1, <2>3
    <2>5. SkillsTypeOK'
      BY <1>1, <2>4 DEF IInv, TypeOK, SkillsTypeOK
    <2>6. RunOk(new)' /\ Lessons(new)' /\ ~ Writing(new)' /\ ~ Grouping(new) /\ Grouping(new)'
      <3>1. RunOk(new)'
        BY <1>1, <1>4, <2>4 DEF RunOk
      <3>2. QED
        BY <2>4, <3>1 DEF Lessons, Writing, Grouping
    <2>7. \A q \in RunIds \ {new} :
              /\ RunOk(q)' /\ Lessons(q)'
              /\ (Writing(q)' <=> Writing(q)) /\ (Grouping(q)' <=> Grouping(q))
      BY <1>1, <1>6, <2>4, RunOkSame, LessonsSame DEF Writing, Grouping
    <2>8. \A q \in RunIds : Grouping(q) => run[q].item # i
      BY <1>1, <1>4, <1>5
    <2>9. Once'
      <3>1. \A q \in RunIds : Grouping(q)' /\ run'[q].pc = "queued" /\ Clustered(run'[q].item)
                              => run'[q].item \in redone
        BY <1>9, <2>4, <2>7 DEF IInv, Once
      <3>2. \A q, s \in RunIds : Grouping(q)' /\ Grouping(s)' /\ q # s /\ run'[q].item = run'[s].item
                                 => run'[q].item \in redone
        BY <2>4, <2>7, <2>8 DEF IInv, Once
      <3>3. QED
        BY <1>1, <3>1, <3>2 DEF Once, Clustered
    <2>10. Counted'
      BY <1>1, <1>6, CountedKeeps
    <2>11. Alone' /\ OffIsQuiet'
      BY <1>1, <1>4, <2>6, <2>7 DEF IInv, Alone, OffIsQuiet
    <2>12. RunInv'
      BY <2>5, <2>6, <2>7, <2>9, <2>10, <2>11 DEF RunInv
    <2>13. ItemsGo'
      <3>1. SUFFICES ASSUME NEW j \in Items, <<j, None>> \in cli.met
                     PROVE  /\ <<j, None>> \in cli'.left => \A r \in RunIds : Grouping(r)' => run'[r].item # j
                            /\ j \in Poor \cup lost' \/ <<j, None>> \in cli'.left \/ Clustered(j)'
                                 \/ \E r \in RunIds : Grouping(r)' /\ run'[r].item = j
        BY <1>3 DEF ItemsGo
      <3>2. CASE j = i
        BY <1>3, <2>4, <2>6, <3>2
      <3>3. CASE j # i
        <4>1. <<j, None>> \in cli'.left <=> <<j, None>> \in cli.left
          BY <1>3, <3>3
        <4>2. /\ <<j, None>> \in cli.left => \A r \in RunIds : Grouping(r) => run[r].item # j
              /\ j \in Poor \cup lost \/ <<j, None>> \in cli.left \/ Clustered(j)
                  \/ \E r \in RunIds : Grouping(r) /\ run[r].item = j
          BY <1>5, <3>1
        <4>3. <<j, None>> \in cli'.left => \A r \in RunIds : Grouping(r)' => run'[r].item # j
          BY <2>4, <2>7, <3>3, <4>1, <4>2
        <4>4. ASSUME NEW r \in RunIds, Grouping(r), run[r].item = j
              PROVE  Grouping(r)' /\ run'[r].item = j
          BY <2>4, <2>6, <2>7, <4>4
        <4>5. QED
          BY <1>1, <1>7, <4>1, <4>2, <4>3, <4>4
      <3>4. QED
        BY <3>2, <3>3
    <2>14. CliInv'
      BY <1>1, <2>13, EmitKeepsCli
    <2>15. QED
      BY <1>2, <2>12, <2>14, PartsAreIInv
  <1>10. QED
    BY <1>8, <1>9

LEMMA EmitSourceStep ==
    ASSUME IInv, NEW i \in Items, NEW c \in Clusters, EmitSource(i, c)
    PROVE  IInv'
  <1>1. /\ cli.pc = "emit" /\ Phase = "skills" /\ <<i, c>> \in cli.left /\ Free # {}
        /\ run' = Enqueued(run, "teach", i, c, FALSE)
        /\ cli' = [cli EXCEPT !.left = cli.left \ {<<i, c>>}]
        /\ UNCHANGED <<members, count, skill, indexed, engine, embeds, faults, redone, lost, asked>>
        /\ UNCHANGED <<text, row, tier, starts, chased>>
    BY DEF EmitSource, store, process, history
  <1>2. RowInv'
    BY <1>1, RowsStay, TextIs
  <1>3. i \in Cases /\ text[i] # 0 /\ engine = "phase3"
    BY <1>1 DEF IInv, Sources, PhaseOk
  <1>4. TextStays /\ MembersStay
    BY <1>1 DEF TextStays, MembersStay
  <1>5. run \in [RunIds -> RunType] /\ "teach" \in Registered /\ \E r \in RunIds : run[r].pc = "none"
    BY <1>1, <1>3 DEF IInv, TypeOK, SkillsTypeOK, Registered, Free
  <1>6. EnqueuedIn(run, "teach", i, c, run')
    <2>1. run' \in {Enqueued(run, "teach", i, c, TRUE), Enqueued(run, "teach", i, c, FALSE)}
      BY <1>1
    <2>2. "teach" \in {"group", "teach"} /\ c \in Clusters \cup {None}
      OBVIOUS
    <2>3. QED
      BY <1>5, <2>1, <2>2, EnqueuedIs
  <1>7. PICK new \in RunIds : \E q \in RunType :
              /\ run[new].pc = "none" /\ run' = [run EXCEPT ![new] = q]
              /\ q.pc = "queued" /\ q.kind = "teach" /\ q.item = i /\ q.cluster = c /\ q.wrote = {}
    BY <1>5, <1>6 DEF EnqueuedIn
  <1>8. /\ run' \in [RunIds -> RunType] /\ run'[new].pc = "queued" /\ run'[new].kind = "teach"
        /\ run'[new].item = i /\ run'[new].cluster = c /\ run'[new].wrote = {} /\ run[new].pc = "none"
        /\ \A q \in RunIds \ {new} : run'[q] = run[q]
    BY <1>5, <1>7
  <1>9. SkillsTypeOK'
    BY <1>1, <1>8 DEF IInv, TypeOK, SkillsTypeOK
  <1>10. RunOk(new)' /\ Lessons(new)' /\ ~ Writing(new)' /\ ~ Grouping(new) /\ ~ Grouping(new)'
    <2>1. RunOk(new)'
      BY <1>1, <1>3, <1>8 DEF RunOk
    <2>2. QED
      BY <1>8, <2>1 DEF Lessons, Writing, Grouping
  <1>11. \A q \in RunIds \ {new} :
              /\ RunOk(q)' /\ Lessons(q)'
              /\ (Writing(q)' <=> Writing(q)) /\ (Grouping(q)' <=> Grouping(q))
    BY <1>1, <1>4, <1>8, RunOkSame, LessonsSame DEF Writing, Grouping
  <1>12. \A q \in RunIds : Grouping(q)' => Grouping(q) /\ run'[q] = run[q]
    BY <1>8, <1>10, <1>11
  <1>13. Once' /\ Counted'
    BY <1>1, <1>4, <1>12, OnceKeeps, CountedKeeps
  <1>14. Alone' /\ OffIsQuiet'
    BY <1>1, <1>3, <1>10, <1>11 DEF IInv, Alone, OffIsQuiet
  <1>15. RunInv'
    BY <1>9, <1>10, <1>11, <1>13, <1>14 DEF RunInv
  <1>16. ItemsGo'
    <2>1. Phase' = "skills"
      BY <1>1, LeftIs
    <2>2. QED
      BY <2>1 DEF ItemsGo
  <1>17. CliInv'
    BY <1>1, <1>16, EmitKeepsCli
  <1>18. QED
    BY <1>2, <1>15, <1>17, PartsAreIInv

-----------------------------------------------------------------------------
(* The specification keeps the invariant *)

LEMMA Start0 ==
    ASSUME Init
    PROVE  IInv
  <1>1. /\ members = [c \in Clusters |-> {}] /\ count = [c \in Clusters |-> 0]
        /\ skill = [n \in Names |-> NoSkill] /\ indexed = [n \in Names |-> None]
        /\ run = [r \in RunIds |-> NoRun] /\ engine = "off" /\ embeds = FALSE /\ faults = 0
        /\ redone = {} /\ lost = {} /\ asked = {}
        /\ text = [i \in Items |-> IF i \in Old THEN 1 ELSE 0]
        /\ row = [i \in Items |-> [NoRow EXCEPT !.text = text[i]]]
        /\ tier \in BOOLEAN /\ starts = 0 /\ cli = NoCli /\ chased = {}
    BY DEF Init, SkillsInit
  <1>2. \A r \in RunIds : run[r] = NoRun /\ run[r].pc = "none"
    BY <1>1, NoRunIs
  <1>3. MaxFaults \in Nat /\ MaxVersion \in Nat \ {0} /\ MaxStarts \in Nat
    BY SkillsAssumption, BackfillAssumption
  <1>4. SkillsTypeOK
    <2>1. members \in [Clusters -> SUBSET Items] /\ \A c \in Clusters : members[c] = {}
      BY <1>1
    <2>2. count \in [Clusters -> Nat] /\ run \in [RunIds -> RunType] /\ skill \in [Names -> SkillType]
      BY <1>1, NoRunIs, NoSkillIs
    <2>3. /\ indexed \in [Names -> Clusters \cup {None}] /\ faults \in 0..MaxFaults
          /\ engine \in {"off", "server", "phase2", "phase3"} /\ embeds \in BOOLEAN
          /\ redone \subseteq Items /\ lost \subseteq Items /\ asked \subseteq Cases
      <3>1. embeds \in BOOLEAN
        BY <1>1
      <3>2. indexed \in [Names -> Clusters \cup {None}] /\ faults \in 0..MaxFaults
        BY <1>1, <1>3
      <3>3. QED
        BY <1>1, <3>1, <3>2
    <2>4. QED
      BY <2>1, <2>2, <2>3 DEF SkillsTypeOK
  <1>5. \A r \in RunIds : RunOk(r) /\ Lessons(r) /\ ~ Grouping(r) /\ ~ Writing(r) /\ r \notin Active
    BY <1>2 DEF RunOk, Lessons, Grouping, Writing, Active
  <1>6. Once /\ Alone /\ OffIsQuiet
    BY <1>5 DEF Once, Alone, OffIsQuiet, Active
  <1>7. Counted
    <2>1. \A c \in Clusters : members[c] = {} /\ count[c] = 0
      BY <1>1
    <2>2. IsFiniteSet({}) /\ Cardinality({}) = 0
      BY FS_EmptySet
    <2>3. QED
      BY <2>1, <2>2 DEF Counted, ClusteredOnce, Clustered
  <1>8. /\ text \in [Items -> 0..MaxVersion]
        /\ \A i \in Items : /\ row[i].text = text[i] /\ row[i].vec = 0 /\ row[i].sub = 0
                            /\ row[i] \in RowType
    <2>1. text \in [Items -> 0..MaxVersion]
      BY <1>1, <1>3
    <2>2. \A i \in Items : row[i] = [text |-> text[i], vec |-> 0, sub |-> 0]
      BY <1>1 DEF NoRow
    <2>3. \A i \in Items : text[i] \in 0..MaxVersion /\ 0 \in 0..MaxVersion
      BY <1>3, <2>1
    <2>4. \A i \in Items : [text |-> text[i], vec |-> 0, sub |-> 0] \in RowType
      BY <2>3 DEF RowType
    <2>5. ASSUME NEW i \in Items
          PROVE  row[i].text = text[i] /\ row[i].vec = 0 /\ row[i].sub = 0
      <3>1. row[i] = [text |-> text[i], vec |-> 0, sub |-> 0]
        BY <2>2
      <3>2. QED
        BY <3>1
    <2>6. \A i \in Items : row[i] \in RowType
      BY <2>2, <2>4
    <2>7. QED
      BY <2>1, <2>5, <2>6
  <1>9. row \in [Items -> RowType] /\ VectorsAreOfTheirText
    BY <1>1, <1>8 DEF VectorsAreOfTheirText
  <1>10. TypeOK
    BY <1>1, <1>3, <1>4, <1>8, <1>9, NoCliIs DEF TypeOK
  <1>11. Versions
    BY <1>1, <1>3, <1>8, NoCliIs DEF Versions, NoRow
  <1>12. PhaseOk /\ Vectors /\ ItemsMet /\ ItemsGo /\ Sources /\ Files
    BY <1>1, NoCliIs DEF PhaseOk, Vectors, ItemsMet, ItemsGo, Sources, Files
  <1>13. ExitZeroMeansDone
    BY <1>1, NoCliIs DEF ExitZeroMeansDone, VectorsComplete, ItemsComplete, OrphansFound, Succeeded
  <1>14. QED
    BY <1>5, <1>6, <1>7, <1>9, <1>10, <1>11, <1>12, <1>13 DEF IInv

LEMMA Stutters ==
    ASSUME IInv, UNCHANGED vars
    PROVE  IInv'
  <1>1. /\ UNCHANGED <<members, count, skill, run, engine, embeds, faults, redone, lost, asked>>
        /\ UNCHANGED <<row, tier, starts, cli, chased>> /\ text' = text /\ indexed' = indexed
    BY DEF vars
  <1>2. /\ text' \in [Items -> 0..MaxVersion] /\ \A i \in Items : text[i] <= text'[i]
        /\ indexed' \in [Names -> Clusters \cup {None}]
    BY <1>1, TextIs DEF IInv, TypeOK, SkillsTypeOK
  <1>3. QED
    BY <1>1, <1>2, QuietKeeps

LEMMA Stepping ==
    ASSUME IInv, [Next]_vars
    PROVE  IInv'
  <1>1. CASE Boot
    BY <1>1, BootStep
  <1>2. CASE Halt
    BY <1>2, HaltStep
  <1>3. CASE \E i \in Items : Extract(i) \/ Edit(i) \/ Index(i)
    BY <1>3, ExtractStep, EditStep, IndexStep
  <1>4. CASE \E r \in RunIds : Runs(r)
    BY <1>4, RunsStep
  <1>5. CASE \E n \in Names : IndexSkill(n) /\ UNCHANGED bvars
    BY <1>5, IndexSkillStep
  <1>6. CASE \E p \in Selected : Invoke(p)
    BY <1>6, InvokeStep
  <1>7. CASE Probe \/ Scan \/ Decline \/ Interrupt
    BY <1>7, ProbeStep, ScanStep, DeclineStep, InterruptStep
  <1>8. CASE Embed \/ VectorsDone \/ StartEngine \/ Drained \/ Sync
    BY <1>8, EmbedStep, VectorsDoneStep, StartEngineStep, DrainedStep, SyncStep
  <1>9. CASE \E i \in Items : UpdateRow(i) \/ EmitItem(i) \/ \E c \in Clusters : EmitSource(i, c)
    BY <1>9, UpdateRowStep, EmitItemStep, EmitSourceStep
  <1>10. CASE UNCHANGED vars
    BY <1>10, Stutters
  <1>11. QED
    BY <1>1, <1>2, <1>3, <1>4, <1>5, <1>6, <1>7, <1>8, <1>9, <1>10 DEF Next

LEMMA Always == Spec => []IInv
  <1>1. Init => IInv
    BY Start0
  <1>2. IInv /\ [Next]_vars => IInv'
    BY Stepping
  <1>3. QED
    BY <1>1, <1>2, PTL DEF Spec

\* The types of the skills, the rows and the command. What phases 2 and 3 have left to emit
\* is part of what their scan met.
THEOREM TypeCorrect == Spec => []TypeOK
  <1>1. IInv => TypeOK
    BY DEF IInv
  <1>2. QED
    BY <1>1, Always, PTL

\* A vector in the index is one of the text beside it: phase 1 scans the rows, embeds what
\* it read and updates a row by its id later. Only a row that the cascade rewrote between
\* the scan and the update may have that of an older text.
THEOREM VectorsCorrect == Spec => []VectorsAreOfTheirText
  <1>1. IInv => VectorsAreOfTheirText
    BY DEF IInv
  <1>2. QED
    BY <1>1, Always, PTL

\* An item is in one cluster and counts once, however often the command is run and whatever
\* fails: two runs of one item exist only when one was repeated after a failure or a crash.
THEOREM ClusteredCorrect == Spec => []ClusteredOnce
  <1>1. IInv => ClusteredOnce
    BY DEF IInv, Counted
  <1>2. QED
    BY <1>1, Always, PTL

\* Exit code 0 of `cascade backfill`: after phase 1 the rows it saw have their vectors, after
\* phase 2 the items it met are in a cluster but for the poor and the lost, after phase 3
\* every skill file it met and nobody rewrote is in the index.
THEOREM ExitCorrect == Spec => []ExitZeroMeansDone
  <1>1. IInv => ExitZeroMeansDone
    BY DEF IInv
  <1>2. QED
    BY <1>1, Always, PTL

\* A step that rewrites a skill is a Write or a Reap.
LEMMA WhoWrites ==
    ASSUME IInv, Next, skill' # skill
    PROVE  \E r \in RunIds : Write(r) \/ Reap(r)
  <1>1. CASE \E r \in RunIds : Runs(r)
    BY <1>1 DEF Runs, Running, Skip, Emit, Ask, RunFails, Save, store
  <1>2. CASE \E n \in Names : IndexSkill(n) /\ UNCHANGED bvars
    BY <1>2 DEF IndexSkill
  <1>3. CASE Boot \/ Halt \/ \E i \in Items : Extract(i) \/ Edit(i) \/ Index(i)
    BY <1>3 DEF Boot, Halt, Opened, Cut, Extract, Edit, Index, skills, store
  <1>4. CASE \/ Probe \/ Scan \/ Decline \/ Interrupt \/ \E p \in Selected : Invoke(p)
    BY <1>4 DEF Probe, Scan, Decline, Interrupt, Cut, Invoke, skills, store
  <1>5. CASE Embed \/ VectorsDone \/ StartEngine \/ Drained \/ Sync
    BY <1>5 DEF Embed, VectorsDone, StartEngine, Opened, Drained, Cut, Sync, skills, store
  <1>6. CASE \E i \in Items : UpdateRow(i) \/ EmitItem(i) \/ \E c \in Clusters : EmitSource(i, c)
    BY <1>6 DEF UpdateRow, EmitItem, EmitSource, store
  <1>7. QED
    BY <1>1, <1>2, <1>3, <1>4, <1>5, <1>6 DEF Next

LEMMA WriteTeaches ==
    ASSUME IInv, NEW r \in RunIds, Write(r), ~ Clashing,
           NEW c \in Clusters, NEW i \in Cases, Cited(c, i)
    PROVE  Cited(c, i)'
  <1> DEFINE op == Head(run[r].ops)
             d == run[r].cluster
  <1>1. /\ op \in OpType /\ r \in Active /\ run[r].pc = "write"
        /\ skill' = [skill EXCEPT ![op.name] = [cluster |-> d, cites |-> op.cites]]
    BY WriteIs
  <1>2. ~ run[r].clash /\ (skill[op.name] = NoSkill \/ op.name = op.prior)
    BY <1>1 DEF Clashing, Exists
  <1>3. run[r].ops \in Seq(OpType) /\ run[r].ops # <<>>
    BY <1>1, RunParts DEF RunType, OpType, RunOk
  <1>4. 1 \in DOMAIN run[r].ops /\ op = run[r].ops[1]
    BY <1>3
  <1>5. op.prior # None => skill[op.prior].cluster = d /\ skill[op.prior].cites \subseteq op.cites
    <2>1. Lessons(r) /\ Writing(r)
      BY <1>1, RunParts DEF Writing
    <2>2. \A j \in DOMAIN run[r].ops : run[r].ops[j].prior # None =>
              /\ skill[run[r].ops[j].prior].cluster = d
              /\ skill[run[r].ops[j].prior].cites \subseteq run[r].ops[j].cites
      BY <1>1, <1>2, <2>1 DEF Lessons, Updates
    <2>3. QED
      BY <1>4, <2>2
  <1>6. skill \in [Names -> SkillType] /\ op.name \in Names
    BY <1>1 DEF IInv, TypeOK, SkillsTypeOK, OpType
  <1> HIDE DEF op, d
  <1>7. /\ skill'[op.name].cluster = d /\ skill'[op.name].cites = op.cites
        /\ \A n \in Names \ {op.name} : skill'[n] = skill[n]
    BY <1>1, <1>6
  <1>8. PICK n \in Names : skill[n].cluster = c /\ i \in skill[n].cites
    BY DEF Cited
  <1>9. CASE n = op.name
    <2>1. op.prior = n /\ op.prior # None
      BY <1>2, <1>8, <1>9, NoSkillIs
    <2>2. QED
      BY <1>5, <1>6, <1>7, <1>8, <1>9, <2>1 DEF Cited
  <1>10. CASE n # op.name
    BY <1>7, <1>8, <1>10 DEF Cited
  <1>11. QED
    BY <1>9, <1>10

LEMMA ReapTeaches ==
    ASSUME IInv, NEW r \in RunIds, Reap(r), ~ Clashing,
           NEW c \in Clusters, NEW i \in Cases, Cited(c, i)
    PROVE  Cited(c, i)'
  <1>1. run[r].pc = "reap" /\ r \in Active
    BY DEF Reap, Active
  <1>2. ~ run[r].clash
    BY <1>1 DEF Clashing
  <1>3. PICK n \in Names : skill[n].cluster = c /\ i \in skill[n].cites
    BY DEF Cited
  <1>4. CASE UNCHANGED skill
    BY <1>3, <1>4 DEF Cited
  <1>5. CASE \E p \in Renamed(r) : skill' = [skill EXCEPT ![p] = NoSkill]
    <2>1. PICK p \in Renamed(r) : skill' = [skill EXCEPT ![p] = NoSkill]
      BY <1>5
    <2>2. skill \in [Names -> SkillType] /\ p \in Names
      BY DEF IInv, TypeOK, SkillsTypeOK, Renamed
    <2>3. \A m \in Names \ {p} : skill'[m] = skill[m]
      BY <2>1, <2>2
    <2>4. skill[p].cluster = run[r].cluster
          /\ \E w \in run[r].wrote : /\ w[1] = p /\ w[2] \in Names /\ w[2] # p
                                     /\ skill[w[2]].cluster = run[r].cluster
                                     /\ skill[p].cites \subseteq skill[w[2]].cites
      BY <1>1, <1>2, RenamedIs
    <2>5. CASE n = p
      <3>1. PICK m \in Names : m # p /\ skill[m].cluster = run[r].cluster
                               /\ skill[p].cites \subseteq skill[m].cites
        BY <2>4
      <3>2. QED
        BY <1>3, <2>3, <2>4, <2>5, <3>1 DEF Cited
    <2>6. CASE n # p
      BY <1>3, <2>3, <2>6 DEF Cited
    <2>7. QED
      BY <2>5, <2>6
  <1>6. QED
    BY <1>4, <1>5 DEF Reap

\* A case that a skill of a cluster cites stays cited by one through every write and every
\* file that is reaped, unless the answer of an active run names a file it does not update.
THEOREM LessonsCorrect == Spec => LessonsStay
  <1>1. IInv /\ [Next]_vars =>
          [\A c \in Clusters, i \in Cases : Cited(c, i) => Cited(c, i)' \/ Clashing]_skill
    <2>1. SUFFICES ASSUME IInv, [Next]_vars, skill' # skill, ~ Clashing,
                          NEW c \in Clusters, NEW i \in Cases, Cited(c, i)
                   PROVE  Cited(c, i)'
      OBVIOUS
    <2>2. Next
      BY <2>1 DEF vars
    <2>3. PICK r \in RunIds : Write(r) \/ Reap(r)
      BY <2>1, <2>2, WhoWrites
    <2>4. QED
      BY <2>1, <2>3, WriteTeaches, ReapTeaches
  <1>2. QED
    BY <1>1, Always, PTL DEF Spec, LessonsStay
===============================================================================
