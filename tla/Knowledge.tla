------------------------------ MODULE Knowledge ------------------------------
(***************************************************************************)
(* One knowledge document with one topic: the directory its files are in,  *)
(* the requests of service/knowledge.py that write, move, back up and      *)
(* remove that directory, and the cascade handlers that copy index.md to   *)
(* SQLite and the topic file to LanceDB and then to SQLite.                *)
(*                                                                         *)
(* A directory is named after category and title, so a document can move.  *)
(* Its backup is "hidden" to people only: `.<name>.backup` matches the     *)
(* globs of the cascade (core/persistence/markdown/frontmatter.py:407),    *)
(* which sees its files come and go like any others.                       *)
(*                                                                         *)
(* Requests come one after the other; the cascade lags behind them.  Its   *)
(* queue is the one of module Cascade, reduced to what that module shows:  *)
(* a changed path is worked on after the change, a batch ends before the   *)
(* next one begins, and nothing else is worked on.                         *)
(***************************************************************************)
EXTENDS Naturals, FiniteSets

CONSTANTS
    Dirs,         \* directory names, <category>/<title>_<doc_id>
    None,
    MaxVersion,   \* bound: different contents
    MaxRequests,  \* bound: requests
    MaxFaults,    \* bound: failures of requests and handlers
    MaxCrashes    \* bound: crashes of the server

ASSUME KnowledgeAssumption ==
    /\ IsFiniteSet(Dirs) /\ Dirs # {}
    /\ MaxVersion \in Nat \ {0}
    /\ {MaxRequests, MaxFaults, MaxCrashes} \subseteq Nat

VARIABLES
    disk,        \* the directories
    doc,         \* row of knowledge_documents
    lance,       \* row of the LanceDB table knowledge_topic
    sql,         \* row of knowledge_topics
    queue,       \* unsettled changes of each path: md_change_state
    job,         \* the worker's batch
    req,         \* the request being served
    requests, faults, crashes,
    life,        \* history: "none", "alive" once a client was told so, "kept" when its
                 \* replacement failed, "deleted" again
    blind,       \* history: a replacement began before the cascade had caught up, or
                 \* while files of the document lay in a second directory
    cut,         \* history: a handler ended between its writes, or for good
    stolen,      \* history: a handler took the LanceDB row of another directory for
                 \* its own
    nested       \* history: a patch moved its directory into another one

vars == <<disk, doc, lance, sql, queue, job, req, requests, faults, crashes,
          life, blind, cut, stolen, nested>>
rows == <<doc, lance, sql>>
history == <<life, blind, cut, stolen, nested>>
counts == <<requests, faults, crashes>>

-----------------------------------------------------------------------------
Version == 1..MaxVersion

\* hidden = n for the directory behind n `.<name>.backup`.
Place == [dir : Dirs, hidden : 0..(MaxCrashes + 1)]
Visible(d) == [dir |-> d, hidden |-> 0]
Backup(p) == [p EXCEPT !.hidden = @ + 1]

ASSUME NobodyAssumption == None \notin Place

\* index.md, the topic file, and complete copies moved into a subdirectory.
Dir == [there : BOOLEAN, index : 0..MaxVersion, topic : 0..MaxVersion,
        inside : SUBSET (Version \X Version)]
NoDir == [there |-> FALSE, index |-> 0, topic |-> 0, inside |-> {}]
NewDir == [NoDir EXCEPT !.there = TRUE]

File == {"index", "topic"}
Path == Place \X File
Content(d, q) == IF q[2] = "index" THEN d[q[1]].index ELSE d[q[1]].topic

NoRow == [at |-> None, ver |-> 0]
Row == {NoRow} \cup [at : Place, ver : Version]

Change == {"none", "changed", "deleted"}

\* "read": the topic differs from the LanceDB row; "half": that row is written, the one
\* of SQLite is not.
JobPc == {"idle", "start", "read", "half", "delete"}
Idle == [pc |-> "idle", change |-> "none", ver |-> 0]

Op == {"create", "replace", "delete", "retitle", "recategorize"}
ReqPc == {"idle", "backup", "write", "topic", "finish", "restore", "remove",
          "rewrite", "move", "topics", "upsert"}
NoReq == [pc |-> "idle", op |-> "create", dir |-> None, ver |-> 0,
          at |-> None, backup |-> None]

Init ==
    /\ disk = [p \in Place |-> NoDir]
    /\ doc = NoRow /\ lance = NoRow /\ sql = NoRow
    /\ queue = [q \in Path |-> "none"]
    /\ job = [q \in Path |-> Idle]
    /\ req = NoReq
    /\ requests = 0 /\ faults = 0 /\ crashes = 0
    /\ life = "none" /\ blind = FALSE
    /\ cut = FALSE /\ stolen = FALSE /\ nested = FALSE

Fault == faults < MaxFaults /\ faults' = faults + 1

\* The watcher (or the next sweep) enqueues what has changed on disk.
Notice ==
    queue' = [q \in Path |->
                IF Content(disk', q) = Content(disk, q) THEN queue[q]
                ELSE IF Content(disk', q) = 0 THEN "deleted" ELSE "changed"]

Settled == \A q \in Path : queue[q] = "none" /\ job[q].pc = "idle"

\* Complete copies of the document in a directory.
Copies(p) ==
    disk[p].inside \cup
    (IF disk[p].index # 0 /\ disk[p].topic # 0
     THEN {<<disk[p].index, disk[p].topic>>} ELSE {})

\* shutil.move: into the target when that is a directory already.
Moved(from, to) ==
    LET filled == [disk[to] EXCEPT !.inside = @ \cup Copies(from)]
    IN [disk EXCEPT ![from] = NoDir,
                    ![to] = IF disk[to].there THEN filled ELSE disk[from]]

At(pc) == req.pc = pc
Goto(pc) == req' = [req EXCEPT !.pc = pc]
Serve(pc) == Goto(pc) /\ UNCHANGED <<rows, job, counts, history>>
Answer(lives) == req' = NoReq /\ life' = lives /\ UNCHANGED <<blind, cut, stolen, nested>>

-----------------------------------------------------------------------------
(* Requests *)

Begin(op, pc, d, v, p) ==
    /\ At("idle") /\ requests < MaxRequests
    /\ requests' = requests + 1
    /\ req' = [pc |-> pc, op |-> op, dir |-> d, ver |-> v, at |-> p, backup |-> None]
    /\ UNCHANGED <<disk, rows, queue, job, faults, crashes, life, cut, stolen, nested>>

\* POST /documents: the id is new.
Create(d, v) == requests = 0 /\ Begin("create", "write", d, v, None) /\ UNCHANGED blind

Lone == \A p, r \in Place : disk[p].there /\ disk[r].there => p = r

\* PUT: 404 without a row.
Replace(d, v) ==
    /\ doc # NoRow
    /\ Begin("replace", "backup", d, v, doc.at)
    /\ blind' = (blind \/ ~Settled \/ ~Lone)

\* DELETE: without a row there is nothing to do.
Delete ==
    /\ doc # NoRow
    /\ Begin("delete", "remove", None, 0, doc.at)
    /\ UNCHANGED blind

\* PATCH: the row says where and what the document is, or else a scan of the files.
\* Nothing to do for what it is already; a category is in the topic's digest too.
\* A row may name a directory that is gone: the patch then fails at its first file
\* (FileNotFoundError) and has changed nothing, which is a stuttering step.
Patch(d, v) ==
    \E p \in Place :
        /\ requests > 0
        /\ disk[p].index # 0
        /\ IF doc # NoRow THEN p = doc.at /\ v # doc.ver ELSE v # disk[p].index
        /\ \/ Begin("retitle", "rewrite", p.dir, v, p)
           \/ d # p.dir /\ Begin("recategorize", "rewrite", d, v, p)
        /\ UNCHANGED blind

\* _backup_doc_dir
BackUp ==
    /\ At("backup")
    /\ IF disk[req.at].there
       THEN /\ disk' = Moved(req.at, Backup(req.at))
            /\ req' = [req EXCEPT !.pc = "write", !.backup = Backup(req.at)]
       ELSE UNCHANGED disk /\ Goto("write")
    /\ Notice
    /\ UNCHANGED <<rows, job, counts, history>>

\* KnowledgeWriter.write, after the extraction: the directory is removed and made
\* again, index.md comes first.
WriteIndex ==
    /\ At("write")
    /\ disk' = [disk EXCEPT ![Visible(req.dir)] = [NewDir EXCEPT !.index = req.ver]]
    /\ Notice
    /\ Serve("topic")

WriteTopic ==
    /\ At("topic")
    /\ disk' = [disk EXCEPT ![Visible(req.dir)].topic = req.ver]
    /\ Notice
    /\ Serve("finish")

\* _write_original_file, _drop_backup
Finish ==
    /\ At("finish")
    /\ disk' = IF req.backup = None THEN disk ELSE [disk EXCEPT ![req.backup] = NoDir]
    /\ Notice
    /\ Answer("alive")
    /\ UNCHANGED <<rows, job, counts>>

\* The extraction is empty or fails; a file cannot be written.
RequestFails ==
    /\ req.pc \in {"write", "topic", "finish"}
    /\ Fault
    /\ IF req.op = "create" THEN Answer("none") ELSE Goto("restore") /\ UNCHANGED history
    /\ UNCHANGED <<disk, rows, queue, job, requests, crashes>>

\* Mutant: a failed replacement drops the backup.
RestoreNot ==
    /\ At("restore")
    /\ disk' = IF req.backup = None THEN disk ELSE [disk EXCEPT ![req.backup] = NoDir]
    /\ Notice
    /\ Answer(life)
    /\ UNCHANGED <<rows, job, counts>>

\* _restore_backup
Restore ==
    /\ At("restore")
    /\ disk' = IF req.backup = None \/ ~disk[req.backup].there THEN disk
               ELSE Moved(req.backup, req.at)
    /\ Notice
    /\ Answer(IF life = "alive" THEN "kept" ELSE life)
    /\ UNCHANGED <<rows, job, counts>>

\* delete_document: rmtree.
Remove ==
    /\ At("remove")
    /\ disk' = [disk EXCEPT ![req.at] = NoDir]
    /\ Notice
    /\ Answer("deleted")
    /\ UNCHANGED <<rows, job, counts>>

\* _update_index_frontmatter
Rewrite ==
    /\ At("rewrite")
    /\ disk' = [disk EXCEPT ![req.at].index = req.ver]
    /\ Notice
    /\ Serve(IF req.op = "retitle" THEN "upsert" ELSE "move")

\* _move_doc_directory: a backup stays a backup.
Move ==
    LET to == [req.at EXCEPT !.dir = req.dir] IN
    /\ At("move")
    /\ disk' = Moved(req.at, to)
    /\ req' = [req EXCEPT !.pc = "topics", !.at = to]
    /\ Notice
    /\ nested' = (nested \/ disk[to].there)
    /\ UNCHANGED <<rows, job, counts, life, blind, cut, stolen>>

\* _update_topics_category
RewriteTopics ==
    /\ At("topics")
    /\ disk' = [disk EXCEPT ![req.at].topic = IF @ = 0 THEN 0 ELSE req.ver]
    /\ Notice
    /\ Serve("upsert")

Upsert ==
    /\ At("upsert")
    /\ doc' = [at |-> req.at, ver |-> req.ver]
    /\ req' = NoReq
    /\ UNCHANGED <<disk, lance, sql, queue, job, counts, history>>

-----------------------------------------------------------------------------
(* The cascade's handlers *)

\* drain_once: a batch of all that is pending.
Claim ==
    /\ \A q \in Path : job[q].pc = "idle"
    /\ \E q \in Path : queue[q] # "none"
    /\ job' = [q \in Path |->
                 IF queue[q] = "none" THEN Idle
                 ELSE [pc |-> IF queue[q] = "changed" THEN "start" ELSE "delete",
                       change |-> queue[q], ver |-> 0]]
    /\ queue' = [q \in Path |-> "none"]
    /\ UNCHANGED <<disk, rows, req, counts, history>>

Step(q, pc) == job' = [job EXCEPT ![q].pc = pc]
Done(q) == job' = [job EXCEPT ![q] = Idle]

\* The document's handler: what it reads it writes, and what is changed meanwhile is
\* enqueued again.
Document(q) ==
    /\ job[q].pc = "start" /\ q[2] = "index" /\ Content(disk, q) # 0
    /\ doc' = [at |-> q[1], ver |-> Content(disk, q)]
    /\ Done(q)
    /\ UNCHANGED <<disk, lance, sql, queue, req, counts, history>>

\* FileNotFoundError is a deletion.
Gone(q) ==
    /\ job[q].pc = "start" /\ Content(disk, q) = 0
    /\ Step(q, "delete")
    /\ UNCHANGED <<disk, rows, queue, req, counts, history>>

\* The topic's handler: a file with the digest of the LanceDB row is skipped,
\* whichever path the row is of.
Skip(q) ==
    /\ job[q].pc = "start" /\ q[2] = "topic" /\ Content(disk, q) # 0
    /\ lance # NoRow /\ lance.ver = Content(disk, q)
    /\ Done(q)
    /\ stolen' = (stolen \/ lance.at # q[1])
    /\ UNCHANGED <<disk, rows, queue, req, counts, life, blind, cut, nested>>

Read(q) ==
    /\ job[q].pc = "start" /\ q[2] = "topic" /\ Content(disk, q) # 0
    /\ lance = NoRow \/ lance.ver # Content(disk, q)
    /\ job' = [job EXCEPT ![q].pc = "read", ![q].ver = Content(disk, q)]
    /\ UNCHANGED <<disk, rows, queue, req, counts, history>>

\* The row of a directory that has the topic, taken over by a copy of it elsewhere.
Steals(p) == lance.at \notin {None, p} /\ Content(disk, <<lance.at, "topic">>) # 0

UpsertLance(q) ==
    /\ job[q].pc = "read" /\ q[2] = "topic"
    /\ lance' = [at |-> q[1], ver |-> job[q].ver]
    /\ Step(q, "half")
    /\ stolen' = (stolen \/ Steals(q[1]))
    /\ UNCHANGED <<disk, doc, sql, queue, req, counts, life, blind, cut, nested>>

UpsertSql(q) ==
    /\ job[q].pc = "half"
    /\ sql' = [at |-> q[1], ver |-> job[q].ver]
    /\ Done(q)
    /\ UNCHANGED <<disk, doc, lance, queue, req, counts, history>>

\* Mutant: a deletion goes by the document, not by the path.
WithoutDoc(row, q) == NoRow

\* delete_by_md_path
Without(row, q) == IF row.at = q[1] THEN NoRow ELSE row

\* Mutant: a topic's deletion leaves the LanceDB row.
DeleteRowsOfSql(q) ==
    /\ job[q].pc = "delete"
    /\ IF q[2] = "index" THEN doc' = Without(doc, q) /\ UNCHANGED <<lance, sql>>
       ELSE sql' = Without(sql, q) /\ UNCHANGED <<doc, lance>>
    /\ Done(q)
    /\ UNCHANGED <<disk, queue, req, counts, history>>

\* handle_deleted: only rows of the path, so its two deletes commute with the rest.
DeleteRows(q) ==
    /\ job[q].pc = "delete"
    /\ IF q[2] = "index" THEN doc' = Without(doc, q) /\ UNCHANGED <<lance, sql>>
       ELSE lance' = Without(lance, q) /\ sql' = Without(sql, q) /\ UNCHANGED doc
    /\ Done(q)
    /\ UNCHANGED <<disk, queue, req, counts, history>>

Again(q) == queue' = [queue EXCEPT ![q] = IF @ = "none" THEN job[q].change ELSE @]

\* LanceDB is busy (retryable) or a deletion fails (re-enqueued by the sweep).
HandlerFails(q) ==
    /\ job[q].pc \in {"read", "delete"}
    /\ Fault
    /\ Again(q)
    /\ Done(q)
    /\ UNCHANGED <<disk, rows, req, requests, crashes, history>>

\* SQLite fails in an upsert: not retryable.
HandlerGivesUp(q) ==
    /\ \/ job[q].pc = "half"
       \/ job[q].pc = "start" /\ q[2] = "index" /\ Content(disk, q) # 0
    /\ Fault
    /\ Done(q)
    /\ cut' = TRUE
    /\ UNCHANGED <<disk, rows, queue, req, requests, crashes, life, blind, stolen, nested>>

\* The server dies; recover_processing re-enqueues the batch.
Crash ==
    /\ crashes < MaxCrashes
    /\ crashes' = crashes + 1
    /\ req' = NoReq
    /\ job' = [q \in Path |-> Idle]
    /\ queue' = [q \in Path |->
                   IF job[q].pc # "idle" /\ queue[q] = "none" THEN job[q].change ELSE queue[q]]
    /\ cut' = (cut \/ \E q \in Path : job[q].pc = "half")
    /\ UNCHANGED <<disk, rows, requests, faults, life, blind, stolen, nested>>

-----------------------------------------------------------------------------
Request ==
    \/ \E d \in Dirs, v \in Version : Create(d, v) \/ Replace(d, v) \/ Patch(d, v)
    \/ Delete

Service ==
    \/ BackUp \/ WriteIndex \/ WriteTopic \/ Finish \/ Restore \/ Remove \/ Rewrite \/ Move
    \/ RewriteTopics \/ Upsert

Handler(q) ==
    \/ Document(q) \/ Gone(q) \/ Skip(q) \/ Read(q) \/ UpsertLance(q) \/ UpsertSql(q)
    \/ DeleteRows(q)

Next ==
    \/ Request \/ Service \/ RequestFails
    \/ Claim \/ \E q \in Path : Handler(q) \/ HandlerFails(q) \/ HandlerGivesUp(q)
    \/ Crash

Spec == Init /\ [][Next]_vars

-----------------------------------------------------------------------------
(* Properties *)

\* Every variable has its type.
TypeOK ==
    /\ disk \in [Place -> Dir]
    /\ {doc, lance, sql} \subseteq Row
    /\ queue \in [Path -> Change]
    /\ job \in [Path -> [pc : JobPc, change : Change, ver : 0..MaxVersion]]
    /\ req \in [pc : ReqPc, op : Op, dir : Dirs \cup {None}, ver : 0..MaxVersion,
                at : Place \cup {None}, backup : Place \cup {None}]
    /\ life \in {"none", "alive", "kept", "deleted"}
    /\ {requests, faults, crashes} \subseteq Nat /\ crashes \in 0..MaxCrashes
    /\ {blind, cut, stolen, nested} \subseteq BOOLEAN

Rest == At("idle") /\ Settled

Agrees(row, file) == row # NoRow => row.ver = Content(disk, <<row.at, file>>)

\* At rest a row says what its own file says: no hit of a file that is gone or was
\* changed, whatever moved, failed or crashed.  A document's row whose handler was cut,
\* or whose patch moved it into another directory, may be old, but its file is there;
\* the SQLite topic may be old when a handler was cut between LanceDB and SQLite, where
\* the digest makes every retry skip it, or found the topic under another directory.
RowsMirrorTheirFiles ==
    Rest => /\ Agrees(lance, "topic")
            /\ doc # NoRow => Content(disk, <<doc.at, "index">>) # 0
            /\ cut \/ nested \/ Agrees(doc, "index")
            /\ cut \/ stolen \/ Agrees(sql, "topic")

\* For LanceDB, which the search reads, the topic handler's retries are safe.  At rest it
\* has every topic file, also when a handler was cut between its two writes and every
\* retry skips what is left, or failed for good; SQLite may miss it then.  Unless a
\* handler took the LanceDB row of another directory for its own: a backup overwrote the
\* row of what replaced it, or the topic was found unchanged under the path it is about
\* to be deleted from.
CutTopicsAreSearchable ==
    \A p \in Place :
        Rest /\ ~stolen /\ disk[p].topic # 0 => lance.at = p

\* "Both writes are idempotent (upsert), so retries are safe." (handlers/
\* knowledge_topic.py:10-11), said of both tables.  A retry after a failure between the
\* two finds the digest in LanceDB and skips; and two handlers of one batch can write
\* their LanceDB rows in one order and their SQLite rows in the other.
RetriesAreSafe ==
    \A p \in Place :
        Rest /\ ~stolen /\ disk[p].topic # 0 => lance.at = p /\ sql.at = p

\* A document a client was told of is on disk, complete, in some directory, whatever
\* fails or crashes in a replacement or a patch, unless a replacement went by a row that
\* named the wrong place: it came before the cascade had caught up, or when an earlier
\* failure or crash had left files in a second directory.
NothingVanishes ==
    life \in {"alive", "kept"} /\ ~blind => \E p \in Place : Copies(p) # {}

\* "Replace a document atomically - old data preserved on failure."
\* (service/knowledge.py:549), for every replacement.  A replacement that fails after
\* index.md leaves that directory behind, the cascade's row may be of it by then, and
\* the next replacement backs up the leftover and overwrites the document.
OldDataPreserved ==
    life \in {"alive", "kept"} => \E p \in Place : Copies(p) # {}

\* "a failure during extraction leaves the database intact and the backup restore
\* brings the md directory back" (service/knowledge.py:555): at rest after a
\* replacement that failed before it wrote, with nothing else going wrong, all three
\* rows are of one directory.  They are not: the cascade has indexed the backup, takes
\* the restored files for unchanged, and deletes the rows with the backup.
FailedReplacementKeepsRows ==
    /\ Rest /\ life = "kept" /\ ~blind /\ ~cut /\ crashes = 0
    /\ \A p \in Place : disk[p].inside = {}
    => \E p \in Place : doc.at = p /\ lance.at = p /\ sql.at = p

=============================================================================
