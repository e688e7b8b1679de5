-------------------------- MODULE KnowledgeProofs --------------------------
(***************************************************************************)
(* For any directories and any number of requests, failures and crashes:   *)
(* at rest rows mirror their files, files are indexed, and a document that *)
(* a client was told of does not vanish.                                   *)
(***************************************************************************)
EXTENDS Knowledge, TLAPS

-----------------------------------------------------------------------------
(* The inductive invariant *)

Index(p) == <<p, "index">>
Topic(p) == <<p, "topic">>

\* A complete copy of the document is in d.
Whole(d) == d.inside # {} \/ (d.index # 0 /\ d.topic # 0)

\* There is no directory without index.md.
Formed(p) ==
    /\ disk[p].there <=> disk[p].index # 0
    /\ ~disk[p].there => disk[p] = NoDir

\* A backup of a backup takes a crash.
Bounded(p) ==
    disk[p].there => p.hidden <= crashes \/ (req.backup = p /\ p.hidden <= crashes + 1)

Writing == req.pc \in {"write", "topic", "finish"}
Patching == req.pc \in {"rewrite", "move", "topics", "upsert"}

\* What a request works with.
Asked ==
    /\ req.backup # None =>
         /\ Writing \/ req.pc = "restore"
         /\ req.op = "replace"
         /\ req.at \in Place /\ req.backup = Backup(req.at) /\ req.at.hidden <= crashes
    /\ req.pc = "backup" => req.op = "replace" /\ req.at \in Place
    /\ req.pc = "backup" \/ Writing => req.dir \in Dirs /\ req.ver \in Version
    /\ req.pc \in {"topic", "finish"} => disk[Visible(req.dir)].index = req.ver
    /\ req.pc = "finish" => disk[Visible(req.dir)].topic = req.ver
    /\ Patching => req.at \in Place /\ req.ver \in Version /\ disk[req.at].there
    /\ req.pc = "rewrite" => req.op \in {"retitle", "recategorize"}
    /\ req.pc = "move" \/ (req.pc = "rewrite" /\ req.op = "recategorize") =>
         req.dir \in Dirs /\ req.dir # req.at.dir
    /\ req.pc \in {"move", "topics", "upsert"} => nested \/ disk[req.at].index = req.ver
    /\ req.pc = "remove" => req.at \in Place

Told == life \in {"alive", "kept"} /\ ~blind

\* While a replacement writes, the copy is in its backup.
Kept ==
    /\ req.pc # "idle" => requests # 0
    /\ requests = 0 \/ (Writing /\ req.op = "create") => life = "none"
    /\ Told => \E p \in Place : Whole(disk[p])
    /\ Told /\ req.pc = "backup" => Whole(disk[req.at])
    /\ Told /\ (Writing \/ req.pc = "restore") => req.backup # None /\ Whole(disk[req.backup])

Orderly == (\A p \in Place : Formed(p) /\ Bounded(p)) /\ Asked /\ Kept

Waits(q, pcs) == queue[q] # "none" \/ job[q].pc \in pcs

\* What changed since a job looked is in the queue.
Batched(q) ==
    /\ queue[q] = "deleted" => Content(disk, q) = 0
    /\ job[q].pc # "idle" => job[q].change # "none"
    /\ job[q].change = "deleted" => job[q].pc = "delete"
    /\ job[q].pc \in {"read", "half"} =>
         q[2] = "topic" /\ job[q].ver # 0 /\ (job[q].ver = Content(disk, q) \/ queue[q] # "none")
    /\ job[q].pc = "delete" => Content(disk, q) = 0 \/ queue[q] # "none"

DocMirrors(p) ==
    doc.at = p =>
        /\ disk[p].index # 0 \/ Waits(Index(p), {"start", "delete"})
        /\ cut \/ nested \/ doc.ver = disk[p].index \/ Waits(Index(p), {"start", "delete"})

LanceMirrors(p) ==
    lance.at = p => lance.ver = disk[p].topic \/ Waits(Topic(p), {"start", "read", "delete"})

SqlMirrors(p) ==
    sql.at = p =>
        \/ cut \/ stolen
        \/ sql.ver = disk[p].topic \/ Waits(Topic(p), {"start", "read", "half", "delete"})

\* A topic found unchanged in LanceDB is unchanged in SQLite, but for the handler
\* between the two.
SameTopic(p) ==
    lance.at = p =>
        /\ job[Topic(p)].pc = "half" => lance.ver = job[Topic(p)].ver
        /\ cut \/ stolen \/ (sql.at = p /\ job[Topic(p)].pc # "half" => sql.ver = lance.ver)

Searchable(p) ==
    stolen \/ (disk[p].topic # 0 => lance.at = p \/ Waits(Topic(p), {"start", "read"}))

Filed(p) ==
    DocMirrors(p) /\ LanceMirrors(p) /\ SqlMirrors(p) /\ SameTopic(p) /\ Searchable(p)

Lagging == (\A q \in Path : Batched(q)) /\ (\A p \in Place : Filed(p))

IInv == TypeOK /\ Orderly /\ Lagging

-----------------------------------------------------------------------------
(* Directories and rows *)

LEMMA PlaceIs ==
    /\ NoDir \in Dir /\ ~Whole(NoDir)
    /\ None \notin Place
    /\ 0 \in 0..MaxVersion /\ Version \subseteq 0..MaxVersion /\ 0 \notin Version
    /\ \A d \in Dirs : Visible(d) \in Place /\ Visible(d).hidden = 0
    /\ \A p \in Place :
         /\ Index(p) \in Path /\ Topic(p) \in Path
         /\ Index(p)[1] = p /\ Index(p)[2] = "index" /\ Topic(p)[1] = p /\ Topic(p)[2] = "topic"
         /\ p.hidden \in 0..(MaxCrashes + 1) /\ p.hidden \in Nat /\ p.dir \in Dirs
  BY KnowledgeAssumption, NobodyAssumption
     DEF NoDir, Dir, Whole, Version, Visible, Place, Path, File, Index, Topic

LEMMA PathIs ==
    ASSUME NEW q \in Path
    PROVE  /\ q[1] \in Place /\ q[2] \in {"index", "topic"}
           /\ q[2] = "index" => q = Index(q[1])
           /\ q[2] = "topic" => q = Topic(q[1])
           /\ \A d \in [Place -> Dir] :
                /\ q[2] = "index" => Content(d, q) = d[q[1]].index
                /\ q[2] = "topic" => Content(d, q) = d[q[1]].topic
                /\ Content(d, q) \in 0..MaxVersion
  <1>1. /\ q[1] \in Place /\ q[2] \in {"index", "topic"} /\ q = <<q[1], q[2]>>
    BY DEF Path, File
  <1>2. ASSUME NEW d \in [Place -> Dir] PROVE d[q[1]].index \in 0..MaxVersion /\ d[q[1]].topic \in 0..MaxVersion
    BY <1>1 DEF Dir
  <1>3. QED
    BY <1>1, <1>2 DEF Content, Index, Topic

LEMMA ContentIs ==
    ASSUME NEW p \in Place, NEW d
    PROVE  Content(d, Index(p)) = d[p].index /\ Content(d, Topic(p)) = d[p].topic
  BY DEF Content, Index, Topic

LEMMA BackupIs ==
    ASSUME NEW p \in Place, p.hidden <= MaxCrashes
    PROVE  /\ Backup(p) \in Place /\ Backup(p) # p
           /\ Backup(p).hidden = p.hidden + 1 /\ Backup(p).hidden # 0
  <1>1. p \in [dir : Dirs, hidden : 0..(MaxCrashes + 1)] /\ MaxCrashes \in Nat
    BY KnowledgeAssumption DEF Place
  <1>2. p.hidden \in Nat /\ p.dir \in Dirs
    BY <1>1
  <1>3. Backup(p) = [dir |-> p.dir, hidden |-> p.hidden + 1]
    BY <1>1, <1>2 DEF Backup
  <1>4. QED
    BY <1>1, <1>2, <1>3 DEF Place

LEMMA CopiesIs ==
    ASSUME disk \in [Place -> Dir], NEW p \in Place
    PROVE  /\ Copies(p) \subseteq Version \X Version
           /\ Copies(p) # {} <=> Whole(disk[p])
  <1>1. /\ disk[p].index \in 0..MaxVersion /\ disk[p].topic \in 0..MaxVersion
        /\ disk[p].inside \subseteq Version \X Version
    BY DEF Dir
  <1>2. disk[p].index # 0 => disk[p].index \in Version
    BY <1>1, KnowledgeAssumption DEF Version
  <1>3. disk[p].topic # 0 => disk[p].topic \in Version
    BY <1>1, KnowledgeAssumption DEF Version
  <1> DEFINE own == IF disk[p].index # 0 /\ disk[p].topic # 0
                    THEN {<<disk[p].index, disk[p].topic>>} ELSE {}
  <1>4. own \subseteq Version \X Version
    BY <1>2, <1>3
  <1>5. own # {} <=> disk[p].index # 0 /\ disk[p].topic # 0
    OBVIOUS
  <1>6. Copies(p) = disk[p].inside \cup own
    BY DEF Copies
  <1> HIDE DEF own
  <1>7. QED
    BY <1>1, <1>4, <1>5, <1>6 DEF Whole

LEMMA InsideIs ==
    ASSUME NEW d \in Dir, NEW s \in SUBSET (Version \X Version)
    PROVE  /\ [d EXCEPT !.inside = s] \in Dir
           /\ [d EXCEPT !.inside = s].inside = s
           /\ [d EXCEPT !.inside = s].there = d.there
           /\ [d EXCEPT !.inside = s].index = d.index
           /\ [d EXCEPT !.inside = s].topic = d.topic
  BY DEF Dir

\* What a move leaves of a directory and makes of another.
LEMMA MovedIs ==
    ASSUME disk \in [Place -> Dir], NEW from \in Place, NEW to \in Place, from # to,
           NEW new, new = Moved(from, to)
    PROVE  /\ new \in [Place -> Dir]
           /\ new[from] = NoDir
           /\ \A p \in Place \ {from, to} : new[p] = disk[p]
           /\ ~disk[to].there => new[to] = disk[from]
           /\ disk[to].there => /\ new[to].there /\ new[to].index = disk[to].index
                                /\ new[to].topic = disk[to].topic
                                /\ disk[to].inside \subseteq new[to].inside
                                /\ Whole(disk[from]) => Whole(new[to])
  <1>1. disk[to] \in Dir /\ disk[from] \in Dir /\ NoDir \in Dir
    BY PlaceIs
  <1>2. Copies(from) \subseteq Version \X Version /\ (Copies(from) # {} <=> Whole(disk[from]))
    BY CopiesIs
  <1> DEFINE into == [disk[to] EXCEPT !.inside = disk[to].inside \cup Copies(from)]
  <1>3. disk[to].inside \cup Copies(from) \in SUBSET (Version \X Version)
    BY <1>1, <1>2 DEF Dir
  <1>4. /\ into \in Dir /\ into.there = disk[to].there /\ into.index = disk[to].index
        /\ into.topic = disk[to].topic /\ into.inside = disk[to].inside \cup Copies(from)
    BY <1>1, <1>3, InsideIs
  <1>6. new = [disk EXCEPT ![from] = NoDir,
                           ![to] = IF disk[to].there THEN into ELSE disk[from]]
    BY DEF Moved
  <1> HIDE DEF into
  <1>8. /\ new \in [Place -> Dir] /\ new[from] = NoDir
        /\ \A p \in Place \ {from, to} : new[p] = disk[p]
        /\ new[to] = IF disk[to].there THEN into ELSE disk[from]
    BY <1>1, <1>4, <1>6
  <1>9. Whole(disk[from]) => Whole(into)
    BY <1>2, <1>4 DEF Whole
  <1>10. QED
    BY <1>4, <1>8, <1>9

\* A new directory with its index.md; a file more or written anew.
LEMMA FileIs ==
    ASSUME NEW d \in Dir, NEW v \in 0..MaxVersion
    PROVE  /\ [d EXCEPT !.index = v] \in Dir /\ [d EXCEPT !.topic = v] \in Dir
           /\ [d EXCEPT !.index = v].index = v /\ [d EXCEPT !.topic = v].topic = v
           /\ [d EXCEPT !.index = v].topic = d.topic /\ [d EXCEPT !.topic = v].index = d.index
           /\ [d EXCEPT !.index = v].there = d.there /\ [d EXCEPT !.topic = v].there = d.there
           /\ [d EXCEPT !.index = v].inside = d.inside /\ [d EXCEPT !.topic = v].inside = d.inside
  BY DEF Dir

LEMMA NewDirIs ==
    NewDir \in Dir /\ NewDir.there /\ NewDir.topic = 0 /\ NewDir.inside = {}
  BY PlaceIs DEF Dir, NewDir, NoDir

LEMMA RowIs ==
    /\ NoRow \in Row /\ NoRow.at = None
    /\ \A p \in Place, v \in Version :
         /\ [at |-> p, ver |-> v] \in Row
         /\ [at |-> p, ver |-> v].at = p /\ [at |-> p, ver |-> v].ver = v
    /\ \A r \in Row : r # NoRow => r.at \in Place /\ r.at # None /\ r.ver \in Version
    /\ \A r \in Row : r.at = None <=> r = NoRow
  BY NobodyAssumption DEF Row, NoRow

JobType == [pc : JobPc, change : Change, ver : 0..MaxVersion]

LEMMA JobIs ==
    ASSUME TypeOK, NEW q \in Path
    PROVE  /\ job \in [Path -> JobType] /\ job[q] \in JobType
           /\ job[q].pc \in JobPc /\ job[q].change \in Change /\ job[q].ver \in 0..MaxVersion
           /\ queue[q] \in Change
           /\ Idle \in JobType /\ Idle.pc = "idle" /\ Idle.change = "none"
  BY PlaceIs DEF TypeOK, JobType, Idle, JobPc, Change

ReqType == [pc : ReqPc, op : Op, dir : Dirs \cup {None}, ver : 0..MaxVersion,
            at : Place \cup {None}, backup : Place \cup {None}]

LEMMA ReqIs ==
    ASSUME TypeOK
    PROVE  /\ req \in ReqType
           /\ NoReq \in ReqType /\ NoReq.pc = "idle" /\ NoReq.backup = None
           /\ crashes \in Nat /\ crashes <= MaxCrashes /\ MaxCrashes \in Nat
           /\ requests \in Nat /\ faults \in Nat
           /\ disk \in [Place -> Dir]
           /\ \A p \in Place : disk[p] \in Dir
  BY PlaceIs, KnowledgeAssumption DEF TypeOK, ReqType, NoReq, ReqPc, Op

\* A request that goes on with what it has.
LEMMA GotoIs ==
    ASSUME TypeOK, NEW pc \in ReqPc, Goto(pc)
    PROVE  /\ req' \in ReqType /\ req'.pc = pc /\ req'.op = req.op /\ req'.dir = req.dir
           /\ req'.ver = req.ver /\ req'.at = req.at /\ req'.backup = req.backup
  BY ReqIs DEF Goto, ReqType

-----------------------------------------------------------------------------
(* Steps of the directories: what the cascade has filed stays in order *)

Lives == {"none", "alive", "kept", "deleted"}

LEMMA Typed ==
    ASSUME TypeOK, disk' \in [Place -> Dir], queue' \in [Path -> Change], req' \in ReqType,
           UNCHANGED <<rows, job, cut, stolen>>, requests' \in Nat, faults' \in Nat,
           crashes' \in 0..MaxCrashes, life' \in Lives, blind' \in BOOLEAN, nested' \in BOOLEAN
    PROVE  TypeOK'
  BY DEF TypeOK, rows, ReqType, Lives

Noticed ==
    \A q \in Path :
        \/ Content(disk', q) = Content(disk, q) /\ queue'[q] = queue[q]
        \/ queue'[q] # "none" /\ (queue'[q] = "deleted" => Content(disk', q) = 0)

LEMMA NoticeIs ==
    ASSUME TypeOK, Notice \/ UNCHANGED <<disk, queue>>
    PROVE  Noticed /\ queue' \in [Path -> Change]
  <1>1. queue \in [Path -> Change]
    BY DEF TypeOK
  <1>2. CASE Notice
    <2>1. \A q \in Path :
            queue'[q] = IF Content(disk', q) = Content(disk, q) THEN queue[q]
                        ELSE IF Content(disk', q) = 0 THEN "deleted" ELSE "changed"
      BY <1>2 DEF Notice
    <2>2. Noticed
      BY <2>1 DEF Noticed
    <2>3. ASSUME NEW q \in Path PROVE queue'[q] \in Change
      BY <1>1, <2>1 DEF Change
    <2>4. QED
      BY <1>2, <2>2, <2>3 DEF Notice
  <1>3. CASE UNCHANGED <<disk, queue>>
    BY <1>1, <1>3 DEF Noticed
  <1>4. QED
    BY <1>2, <1>3

LEMMA LaggingStays ==
    ASSUME IInv, Noticed, UNCHANGED <<rows, job, cut, stolen>>, nested => nested'
    PROVE  Lagging'
  <1>1. ASSUME NEW q \in Path PROVE Batched(q)'
    <2>1. Batched(q)
      BY DEF IInv, Lagging
    <2>2. job'[q] = job[q]
      OBVIOUS
    <2>3. \/ Content(disk', q) = Content(disk, q) /\ queue'[q] = queue[q]
          \/ queue'[q] # "none" /\ (queue'[q] = "deleted" => Content(disk', q) = 0)
      BY DEF Noticed
    <2>4. QED
      BY <2>1, <2>2, <2>3 DEF Batched
  <1>2. ASSUME NEW p \in Place PROVE Filed(p)'
    <2>1. Filed(p) /\ Index(p) \in Path /\ Topic(p) \in Path
      BY PlaceIs DEF IInv, Lagging
    <2>2. \/ disk'[p].index = disk[p].index /\ queue'[Index(p)] = queue[Index(p)]
          \/ queue'[Index(p)] # "none"
      BY <2>1, ContentIs DEF Noticed
    <2>3. \/ disk'[p].topic = disk[p].topic /\ queue'[Topic(p)] = queue[Topic(p)]
          \/ queue'[Topic(p)] # "none"
      BY <2>1, ContentIs DEF Noticed
    <2>4. doc' = doc /\ lance' = lance /\ sql' = sql /\ job' = job /\ cut' = cut /\ stolen' = stolen
      BY DEF rows
    <2>5. DocMirrors(p)'
      BY <2>1, <2>2, <2>4 DEF Filed, DocMirrors, Waits
    <2>6. LanceMirrors(p)'
      BY <2>1, <2>3, <2>4 DEF Filed, LanceMirrors, Waits
    <2>7. SqlMirrors(p)'
      BY <2>1, <2>3, <2>4 DEF Filed, SqlMirrors, Waits
    <2>8. SameTopic(p)'
      BY <2>1, <2>4 DEF Filed, SameTopic
    <2>9. Searchable(p)'
      BY <2>1, <2>2, <2>3, <2>4 DEF Filed, Searchable, Waits
    <2>10. QED
      BY <2>5, <2>6, <2>7, <2>8, <2>9 DEF Filed
  <1>3. QED
    BY <1>1, <1>2 DEF Lagging

LEMMA WholeIsThere ==
    ASSUME NEW p \in Place, Formed(p), Whole(disk[p])
    PROVE  disk[p].there
  BY PlaceIs DEF Formed

\* Out of a replacement there is no backup.
LEMMA NoBackup ==
    ASSUME IInv, ~Writing, req.pc # "restore"
    PROVE  req.backup = None /\ \A p \in Place : disk[p].there => p.hidden <= crashes
  <1>1. req.backup = None
    BY DEF IInv, Orderly, Asked
  <1>2. QED
    BY <1>1, PlaceIs DEF IInv, Orderly, Bounded

Sorted == \A p \in Place : Formed(p) /\ Bounded(p)

LEMMA Assembles ==
    ASSUME TypeOK', Sorted', Asked', Kept', Lagging'
    PROVE  IInv'
  BY DEF IInv, Orderly, Sorted

LEMMA Parts ==
    ASSUME IInv
    PROVE  TypeOK /\ Sorted /\ Asked /\ Kept /\ Lagging
  BY DEF IInv, Orderly, Sorted

LEMMA AnswerIs ==
    ASSUME TypeOK, NEW l \in Lives, Answer(l)
    PROVE  /\ req' = NoReq /\ req' \in ReqType /\ req'.pc = "idle" /\ req'.backup = None
           /\ ~Writing' /\ ~Patching' /\ life' = l /\ life' \in Lives
           /\ blind' = blind /\ cut' = cut /\ stolen' = stolen /\ nested' = nested
           /\ Asked'
  <1>1. req' = NoReq /\ req' \in ReqType /\ req'.pc = "idle" /\ req'.backup = None
    BY ReqIs DEF Answer
  <1>2. life' = l /\ blind' = blind /\ cut' = cut /\ stolen' = stolen /\ nested' = nested
    BY DEF Answer
  <1>3. ~Writing' /\ ~Patching'
    BY <1>1 DEF Writing, Patching
  <1>4. Asked'
    BY <1>1, <1>3 DEF Asked
  <1>5. QED
    BY <1>1, <1>2, <1>3, <1>4

-----------------------------------------------------------------------------
(* Requests *)

LEMMA BeginIs ==
    ASSUME IInv, NEW op \in Op, NEW pc \in ReqPc, NEW d \in Dirs \cup {None},
           NEW v \in 0..MaxVersion, NEW p \in Place \cup {None},
           Begin(op, pc, d, v, p), blind' \in BOOLEAN
    PROVE  /\ TypeOK' /\ Sorted' /\ Lagging'
           /\ req'.pc = pc /\ req'.op = op /\ req'.dir = d /\ req'.ver = v /\ req'.at = p
           /\ req'.backup = None
           /\ requests' # 0 /\ disk' = disk /\ life' = life /\ nested' = nested
  <1>1. /\ req.pc = "idle" /\ requests' = requests + 1
        /\ req' = [pc |-> pc, op |-> op, dir |-> d, ver |-> v, at |-> p, backup |-> None]
        /\ UNCHANGED <<disk, rows, queue, job, faults, crashes, life, cut, stolen, nested>>
    BY DEF Begin, At
  <1>2. req' \in ReqType
    BY <1>1 DEF ReqType
  <1>3. TypeOK /\ TypeOK'
    <2>1. TypeOK /\ requests' \in Nat
      BY <1>1, Parts, ReqIs
    <2>2. /\ disk' \in [Place -> Dir] /\ queue' \in [Path -> Change] /\ faults' \in Nat
          /\ crashes' \in 0..MaxCrashes /\ life' \in Lives /\ nested' \in BOOLEAN
      BY <1>1, <2>1 DEF TypeOK, Lives
    <2>3. QED
      BY <1>1, <1>2, <2>1, <2>2, Typed
  <1>4. Lagging'
    BY <1>1, <1>3, NoticeIs, LaggingStays
  <1>5. \A r \in Place : disk[r].there => r.hidden <= crashes
    BY <1>1, NoBackup DEF Writing
  <1>6. Sorted'
    BY <1>1, <1>5, Parts DEF Sorted, Formed, Bounded
  <1>7. requests' # 0
    BY <1>1, <1>3, ReqIs
  <1>8. QED
    BY <1>1, <1>3, <1>4, <1>6, <1>7

LEMMA VersionIs == \A v \in Version : v \in 0..MaxVersion /\ v # 0
  BY PlaceIs

LEMMA CreateKeeps ==
    ASSUME IInv, NEW d \in Dirs, NEW v \in Version, Create(d, v)
    PROVE  IInv'
  <1>1. Begin("create", "write", d, v, None) /\ requests = 0 /\ blind' = blind
    BY DEF Create
  <1>2. "create" \in Op /\ "write" \in ReqPc /\ blind \in BOOLEAN
    BY Parts DEF Op, ReqPc, TypeOK
  <1>3. /\ TypeOK' /\ Sorted' /\ Lagging'
        /\ req'.pc = "write" /\ req'.op = "create" /\ req'.dir = d /\ req'.ver = v
        /\ req'.backup = None /\ requests' # 0 /\ life' = life
    BY <1>1, <1>2, BeginIs, VersionIs
  <1>4. life = "none"
    BY <1>1, Parts DEF Kept
  <1>5. Asked'
    BY <1>3 DEF Asked, Writing, Patching
  <1>6. Kept'
    BY <1>3, <1>4 DEF Kept, Told
  <1>7. QED
    BY <1>3, <1>5, <1>6, Assembles

LEMMA ReplaceKeeps ==
    ASSUME IInv, NEW d \in Dirs, NEW v \in Version, Replace(d, v)
    PROVE  IInv'
  <1>1. /\ Begin("replace", "backup", d, v, doc.at) /\ doc # NoRow
        /\ blind' = (blind \/ ~Settled \/ ~Lone)
    BY DEF Replace
  <1>2. "replace" \in Op /\ "backup" \in ReqPc /\ blind' \in BOOLEAN
    BY <1>1, Parts DEF Op, ReqPc, TypeOK
  <1>3. doc.at \in Place
    BY <1>1, Parts, RowIs DEF TypeOK
  <1>4. /\ TypeOK' /\ Sorted' /\ Lagging'
        /\ req'.pc = "backup" /\ req'.op = "replace" /\ req'.dir = d /\ req'.ver = v
        /\ req'.at = doc.at /\ req'.backup = None
        /\ requests' # 0 /\ disk' = disk /\ life' = life
    BY <1>1, <1>2, <1>3, BeginIs, VersionIs
  <1>5. Asked'
    BY <1>3, <1>4 DEF Asked, Writing, Patching
  <1>6. ASSUME Told' PROVE Whole(disk[doc.at])
    <2>1. Told /\ Settled /\ Lone
      BY <1>1, <1>4, <1>6, <1>2 DEF Told
    <2>2. PICK p \in Place : Whole(disk[p])
      BY <2>1, Parts DEF Kept
    <2>3. disk[p].there
      BY <2>2, Parts, WholeIsThere DEF Sorted
    <2>4. DocMirrors(doc.at) /\ Index(doc.at) \in Path
      BY <1>3, Parts, PlaceIs DEF Lagging, Filed
    <2>5. ~Waits(Index(doc.at), {"start", "delete"})
      BY <2>1, <2>4 DEF Settled, Waits
    <2>6. disk[doc.at].there
      BY <1>3, <2>4, <2>5, Parts DEF DocMirrors, Sorted, Formed
    <2>7. p = doc.at
      BY <1>3, <2>1, <2>3, <2>6 DEF Lone
    <2>8. QED
      BY <2>2, <2>7
  <1>7. Kept'
    BY <1>3, <1>4, <1>6 DEF Kept, Writing
  <1>8. QED
    BY <1>4, <1>5, <1>7, Assembles

LEMMA DeleteKeeps ==
    ASSUME IInv, Delete
    PROVE  IInv'
  <1>1. Begin("delete", "remove", None, 0, doc.at) /\ doc # NoRow /\ blind' = blind
    BY DEF Delete
  <1>2. "delete" \in Op /\ "remove" \in ReqPc /\ blind' \in BOOLEAN
    BY <1>1, Parts DEF Op, ReqPc, TypeOK
  <1>3. doc.at \in Place
    BY <1>1, Parts, RowIs DEF TypeOK
  <1>9. 0 \in 0..MaxVersion /\ None \in Dirs \cup {None} /\ doc.at \in Place \cup {None}
    BY <1>3, PlaceIs
  <1>4. /\ TypeOK' /\ Sorted' /\ Lagging'
        /\ req'.pc = "remove" /\ req'.at = doc.at /\ req'.backup = None
        /\ requests' # 0 /\ disk' = disk /\ life' = life
    BY <1>1, <1>2, <1>9, BeginIs
  <1>5. Asked'
    BY <1>3, <1>4 DEF Asked, Writing, Patching
  <1>6. Kept'
    BY <1>1, <1>4, Parts DEF Kept, Writing, Told
  <1>7. QED
    BY <1>4, <1>5, <1>6, Assembles

LEMMA PatchKeeps ==
    ASSUME IInv, NEW d \in Dirs, NEW v \in Version, Patch(d, v)
    PROVE  IInv'
  <1>1. PICK p \in Place :
          /\ disk[p].index # 0 /\ blind' = blind
          /\ \/ Begin("retitle", "rewrite", p.dir, v, p)
             \/ d # p.dir /\ Begin("recategorize", "rewrite", d, v, p)
    BY DEF Patch
  <1>2. /\ {"retitle", "recategorize"} \subseteq Op /\ "rewrite" \in ReqPc /\ blind' \in BOOLEAN
        /\ p.dir \in Dirs
    BY <1>1, Parts, PlaceIs DEF Op, ReqPc, TypeOK
  <1>3. /\ TypeOK' /\ Sorted' /\ Lagging'
        /\ req'.pc = "rewrite" /\ req'.ver = v /\ req'.at = p /\ req'.backup = None
        /\ \/ req'.op = "retitle"
           \/ req'.op = "recategorize" /\ req'.dir = d /\ d # p.dir
        /\ requests' # 0 /\ disk' = disk /\ life' = life
    <2>1. CASE Begin("retitle", "rewrite", p.dir, v, p)
      BY <1>2, <2>1, BeginIs, VersionIs
    <2>2. CASE d # p.dir /\ Begin("recategorize", "rewrite", d, v, p)
      BY <1>2, <2>2, BeginIs, VersionIs
    <2>3. QED
      BY <1>1, <2>1, <2>2
  <1>4. disk[p].there
    BY <1>1, Parts DEF Sorted, Formed
  <1>5. Asked'
    BY <1>3, <1>4 DEF Asked, Writing, Patching
  <1>6. Kept'
    BY <1>1, <1>3, Parts DEF Kept, Writing, Told
  <1>7. QED
    BY <1>3, <1>5, <1>6, Assembles

LEMMA BackUpKeeps ==
    ASSUME IInv, BackUp
    PROVE  IInv'
  <1>1. /\ req.pc = "backup" /\ Notice
        /\ UNCHANGED <<rows, job, counts, history>>
    BY DEF BackUp, At
  <1>2. /\ TypeOK /\ Asked /\ Kept /\ Sorted
        /\ req.op = "replace" /\ req.at \in Place /\ req.dir \in Dirs /\ req.ver \in Version
        /\ req \in ReqType /\ disk \in [Place -> Dir]
    BY <1>1, Parts, ReqIs DEF Asked
  <1>3. req.backup = None /\ \A p \in Place : disk[p].there => p.hidden <= crashes
    BY <1>1, NoBackup DEF Writing
  <1>4. /\ requests' = requests /\ faults' = faults /\ crashes' = crashes /\ life' = life
        /\ blind' = blind /\ nested' = nested /\ cut' = cut /\ stolen' = stolen
    BY <1>1 DEF counts, history
  <1>5. requests' \in Nat /\ faults' \in Nat /\ crashes' \in 0..MaxCrashes /\ life' \in Lives
        /\ blind' \in BOOLEAN /\ nested' \in BOOLEAN
    BY <1>2, <1>4, ReqIs DEF TypeOK, Lives
  <1>6. ASSUME disk' \in [Place -> Dir], req' \in ReqType PROVE TypeOK' /\ Lagging'
    BY <1>1, <1>2, <1>4, <1>5, <1>6, Typed, NoticeIs, LaggingStays
  <1>7. CASE disk[req.at].there
    <2> DEFINE b == Backup(req.at)
    <2>1. req.at.hidden <= crashes /\ req.at.hidden <= MaxCrashes /\ req.at.hidden \in Nat
      BY <1>2, <1>3, <1>7, ReqIs, PlaceIs
    <2>2. b \in Place /\ b # req.at /\ b.hidden = req.at.hidden + 1
      BY <1>2, <2>1, BackupIs
    <2>3. disk' = Moved(req.at, b) /\ req' = [req EXCEPT !.pc = "write", !.backup = b]
      BY <1>7 DEF BackUp
    <2>4. /\ req' \in ReqType /\ req'.pc = "write" /\ req'.op = "replace" /\ req'.dir = req.dir
          /\ req'.ver = req.ver /\ req'.at = req.at /\ req'.backup = b
      BY <1>2, <2>2, <2>3 DEF ReqType, ReqPc
    <2> HIDE DEF b
    <2>5. /\ disk' \in [Place -> Dir] /\ disk'[req.at] = NoDir
          /\ \A p \in Place \ {req.at, b} : disk'[p] = disk[p]
          /\ ~disk[b].there => disk'[b] = disk[req.at]
          /\ disk[b].there => disk'[b].there /\ disk'[b].index = disk[b].index
          /\ Whole(disk[req.at]) => Whole(disk'[b])
      BY <1>2, <2>2, <2>3, MovedIs
    <2>6. ASSUME NEW p \in Place PROVE Formed(p)' /\ Bounded(p)'
      <3>1. Formed(p) /\ Formed(b) /\ Formed(req.at)
        BY <1>2, <2>2 DEF Sorted
      <3>2. CASE p = req.at
        BY <2>5, <3>2 DEF Formed, Bounded, NoDir
      <3>3. CASE p = b
        BY <1>4, <2>1, <2>2, <2>4, <2>5, <3>1, <3>3, ReqIs, <1>2 DEF Formed, Bounded
      <3>4. CASE p \notin {req.at, b}
        BY <1>3, <1>4, <2>5, <3>1, <3>4 DEF Formed, Bounded
      <3>5. QED
        BY <3>2, <3>3, <3>4
    <2>7. Asked'
      BY <1>2, <1>4, <2>1, <2>4 DEF Asked, Writing, Patching, b
    <2>8. Kept'
      <3>1. Told' => Told /\ Whole(disk'[b])
        BY <1>1, <1>2, <1>4, <2>5 DEF Told, Kept
      <3>2. requests' # 0
        BY <1>1, <1>2, <1>4 DEF Kept
      <3>3. b # None
        BY <2>2, PlaceIs
      <3>4. QED
        BY <2>2, <2>4, <3>1, <3>2, <3>3 DEF Kept
    <2>9. QED
      BY <1>6, <2>4, <2>5, <2>6, <2>7, <2>8, Assembles DEF Sorted
  <1>8. CASE ~disk[req.at].there
    <2>1. disk' = disk /\ Goto("write")
      BY <1>8 DEF BackUp
    <2>2. /\ req' \in ReqType /\ req'.pc = "write" /\ req'.op = "replace" /\ req'.dir = req.dir
          /\ req'.ver = req.ver /\ req'.at = req.at /\ req'.backup = None
      BY <1>2, <1>3, <2>1, GotoIs DEF ReqPc
    <2>3. ~Told
      BY <1>1, <1>2, <1>8, WholeIsThere DEF Kept, Sorted
    <2>4. Sorted'
      BY <1>2, <1>3, <1>4, <2>1, <2>2 DEF Sorted, Formed, Bounded
    <2>5. Asked'
      BY <1>2, <1>4, <2>2 DEF Asked, Writing, Patching
    <2>6. Kept'
      BY <1>1, <1>2, <1>4, <2>2, <2>3 DEF Kept, Told, Writing
    <2>7. QED
      BY <1>2, <1>6, <2>1, <2>2, <2>4, <2>5, <2>6, Assembles
  <1>9. QED
    BY <1>7, <1>8

\* A step of a request that is served and goes on to pc.
LEMMA ServeIs ==
    ASSUME IInv, NEW pc \in ReqPc, Serve(pc), Notice, disk' \in [Place -> Dir]
    PROVE  /\ TypeOK' /\ Lagging'
           /\ req'.pc = pc /\ req'.op = req.op /\ req'.dir = req.dir
           /\ req'.ver = req.ver /\ req'.at = req.at /\ req'.backup = req.backup
           /\ requests' = requests /\ crashes' = crashes /\ life' = life
           /\ blind' = blind /\ nested' = nested /\ Told' = Told
  <1>1. Goto(pc) /\ UNCHANGED <<rows, job, counts, history>> /\ TypeOK
    BY Parts DEF Serve
  <1>2. /\ req' \in ReqType
        /\ req'.pc = pc /\ req'.op = req.op /\ req'.dir = req.dir
        /\ req'.ver = req.ver /\ req'.at = req.at /\ req'.backup = req.backup
    BY <1>1, GotoIs
  <1>3. /\ requests' = requests /\ faults' = faults /\ crashes' = crashes /\ life' = life
        /\ blind' = blind /\ nested' = nested /\ cut' = cut /\ stolen' = stolen
    BY <1>1 DEF counts, history
  <1>4. requests' \in Nat /\ faults' \in Nat /\ crashes' \in 0..MaxCrashes /\ life' \in Lives
        /\ blind' \in BOOLEAN /\ nested' \in BOOLEAN
    BY <1>1, <1>3, ReqIs DEF TypeOK, Lives
  <1>5. TypeOK' /\ Lagging'
    BY <1>1, <1>2, <1>3, <1>4, Typed, NoticeIs, LaggingStays
  <1>6. QED
    BY <1>2, <1>3, <1>5 DEF Told

\* The directory that is written is not the backup.
LEMMA WritingIs ==
    ASSUME IInv, Writing
    PROVE  /\ req.dir \in Dirs /\ req.ver \in Version /\ req.ver # 0 /\ req.ver \in 0..MaxVersion
           /\ Visible(req.dir) \in Place /\ Visible(req.dir).hidden = 0
           /\ req.backup # None => /\ req.backup \in Place /\ req.backup # Visible(req.dir)
                                   /\ req.backup # req.at
           /\ requests # 0
  <1>1. /\ req.dir \in Dirs /\ req.ver \in Version /\ requests # 0
        /\ Visible(req.dir) \in Place /\ Visible(req.dir).hidden = 0
    BY Parts, PlaceIs DEF Asked, Writing, Kept
  <1>2. ASSUME req.backup # None
        PROVE  /\ req.backup \in Place /\ req.backup # Visible(req.dir) /\ req.backup # req.at
    <2>1. req.at \in Place /\ req.backup = Backup(req.at) /\ req.at.hidden <= crashes
      BY <1>2, Parts DEF Asked
    <2>2. req.at.hidden <= MaxCrashes
      BY <2>1, Parts, ReqIs, PlaceIs
    <2>3. QED
      BY <1>1, <2>1, <2>2, BackupIs
  <1>3. QED
    BY <1>1, <1>2, VersionIs

LEMMA WriteIndexKeeps ==
    ASSUME IInv, WriteIndex
    PROVE  IInv'
  <1> DEFINE p == Visible(req.dir)
             new == [NewDir EXCEPT !.index = req.ver]
  <1>1. /\ req.pc = "write" /\ Notice /\ Serve("topic")
        /\ disk' = [disk EXCEPT ![p] = new]
    BY DEF WriteIndex, At
  <1>2. /\ TypeOK /\ Sorted /\ Asked /\ Kept /\ disk \in [Place -> Dir] /\ Writing
    BY <1>1, Parts, ReqIs DEF Writing
  <1>3. /\ p \in Place /\ p.hidden = 0 /\ req.dir \in Dirs /\ req.ver \in Version
        /\ req.ver # 0 /\ req.ver \in 0..MaxVersion /\ requests # 0
        /\ req.backup # None => req.backup \in Place /\ req.backup # p
    BY <1>2, WritingIs
  <1>4. new \in Dir /\ new.there /\ new.index = req.ver
    BY <1>3, NewDirIs, FileIs
  <1> HIDE DEF p, new
  <1>5. /\ disk' \in [Place -> Dir] /\ disk'[p] = new
        /\ \A r \in Place \ {p} : disk'[r] = disk[r]
    BY <1>1, <1>2, <1>3, <1>4
  <1>6. /\ TypeOK' /\ Lagging'
        /\ req'.pc = "topic" /\ req'.op = req.op /\ req'.dir = req.dir
        /\ req'.ver = req.ver /\ req'.at = req.at /\ req'.backup = req.backup
        /\ requests' = requests /\ crashes' = crashes /\ life' = life /\ Told' = Told
    BY <1>1, <1>5, ServeIs DEF ReqPc
  <1>7. ASSUME NEW r \in Place PROVE Formed(r)' /\ Bounded(r)'
    <2>1. CASE r = p
      BY <1>2, <1>3, <1>4, <1>5, <1>6, <2>1, ReqIs DEF Formed, Bounded
    <2>2. CASE r # p
      BY <1>2, <1>5, <1>6, <2>2 DEF Sorted, Formed, Bounded
    <2>3. QED
      BY <2>1, <2>2
  <1>8. Asked'
    BY <1>2, <1>1, <1>3, <1>4, <1>5, <1>6 DEF Asked, Writing, Patching, p
  <1>9. Kept'
    <2>1. Told' => req.backup # None /\ Whole(disk'[req.backup])
      BY <1>2, <1>3, <1>5, <1>6 DEF Kept
    <2>2. req.op = "create" => life' = "none"
      BY <1>2, <1>6 DEF Kept
    <2>3. QED
      BY <1>3, <1>6, <2>1, <2>2 DEF Kept
  <1>10. QED
    BY <1>6, <1>7, <1>8, <1>9, Assembles DEF Sorted

LEMMA WriteTopicKeeps ==
    ASSUME IInv, WriteTopic
    PROVE  IInv'
  <1> DEFINE p == Visible(req.dir)
             new == [disk[p] EXCEPT !.topic = req.ver]
  <1>1. /\ req.pc = "topic" /\ Notice /\ Serve("finish")
        /\ disk' = [disk EXCEPT ![p] = new]
    BY DEF WriteTopic, At
  <1>2. /\ TypeOK /\ Sorted /\ Asked /\ Kept /\ disk \in [Place -> Dir] /\ Writing
    BY <1>1, Parts, ReqIs DEF Writing
  <1>3. /\ p \in Place /\ p.hidden = 0 /\ req.dir \in Dirs /\ req.ver \in Version
        /\ req.ver # 0 /\ req.ver \in 0..MaxVersion /\ requests # 0
        /\ req.backup # None => req.backup \in Place /\ req.backup # p
        /\ disk[p].index = req.ver /\ disk[p] \in Dir
    BY <1>1, <1>2, WritingIs DEF Asked
  <1>4. new \in Dir /\ new.there = disk[p].there /\ new.index = req.ver /\ new.topic = req.ver
    BY <1>3, FileIs
  <1> HIDE DEF p, new
  <1>5. /\ disk' \in [Place -> Dir] /\ disk'[p] = new
        /\ \A r \in Place \ {p} : disk'[r] = disk[r]
    BY <1>1, <1>2, <1>3, <1>4
  <1>6. /\ TypeOK' /\ Lagging'
        /\ req'.pc = "finish" /\ req'.op = req.op /\ req'.dir = req.dir
        /\ req'.ver = req.ver /\ req'.at = req.at /\ req'.backup = req.backup
        /\ requests' = requests /\ crashes' = crashes /\ life' = life /\ Told' = Told
    BY <1>1, <1>5, ServeIs DEF ReqPc
  <1>7. ASSUME NEW r \in Place PROVE Formed(r)' /\ Bounded(r)'
    <2>1. CASE r = p
      BY <1>2, <1>3, <1>4, <1>5, <1>6, <2>1 DEF Sorted, Formed, Bounded
    <2>2. CASE r # p
      BY <1>2, <1>5, <1>6, <2>2 DEF Sorted, Formed, Bounded
    <2>3. QED
      BY <2>1, <2>2
  <1>8. Asked'
    BY <1>2, <1>1, <1>3, <1>4, <1>5, <1>6 DEF Asked, Writing, Patching, p
  <1>9. Kept'
    <2>1. Told' => req.backup # None /\ Whole(disk'[req.backup])
      BY <1>2, <1>3, <1>5, <1>6 DEF Kept
    <2>2. req.op = "create" => life' = "none"
      BY <1>2, <1>6 DEF Kept
    <2>3. QED
      BY <1>3, <1>6, <2>1, <2>2 DEF Kept
  <1>10. QED
    BY <1>6, <1>7, <1>8, <1>9, Assembles DEF Sorted

\* A step that answers a request.
LEMMA AnswerKeeps ==
    ASSUME IInv, NEW l \in Lives, Answer(l), Notice \/ UNCHANGED <<disk, queue>>,
           disk' \in [Place -> Dir],
           UNCHANGED <<rows, job, requests, crashes>>, faults' \in Nat, req.pc # "idle",
           \A p \in Place : /\ Formed(p)'
                            /\ disk'[p].there => p.hidden <= crashes,
           l \in {"alive", "kept"} /\ ~blind => \E p \in Place : Whole(disk'[p])
    PROVE  IInv'
  <1>1. /\ TypeOK /\ requests # 0 /\ requests \in Nat /\ crashes \in 0..MaxCrashes
        /\ blind \in BOOLEAN /\ nested \in BOOLEAN
    BY Parts, ReqIs DEF Kept, TypeOK
  <1>2. /\ req' \in ReqType /\ req'.pc = "idle" /\ req'.backup = None
        /\ ~Writing' /\ life' = l /\ life' \in Lives
        /\ blind' = blind /\ cut' = cut /\ stolen' = stolen /\ nested' = nested
        /\ Asked'
    BY <1>1, AnswerIs
  <1>3. Noticed /\ queue' \in [Path -> Change]
    BY <1>1, NoticeIs
  <1>4. TypeOK'
    BY <1>1, <1>2, <1>3, Typed
  <1>5. Lagging'
    BY <1>2, <1>3, LaggingStays
  <1>6. Sorted'
    BY <1>2 DEF Sorted, Bounded
  <1>7. Kept'
    BY <1>1, <1>2 DEF Kept, Told
  <1>8. QED
    BY <1>2, <1>4, <1>5, <1>6, <1>7, Assembles

LEMMA FinishKeeps ==
    ASSUME IInv, Finish
    PROVE  IInv'
  <1> DEFINE v == Visible(req.dir)
  <1>1. /\ req.pc = "finish" /\ Notice /\ Answer("alive") /\ UNCHANGED <<rows, job, counts>>
        /\ disk' = IF req.backup = None THEN disk ELSE [disk EXCEPT ![req.backup] = NoDir]
    BY DEF Finish, At
  <1>2. /\ TypeOK /\ Sorted /\ Asked /\ Kept /\ disk \in [Place -> Dir] /\ Writing
        /\ faults \in Nat /\ NoDir \in Dir
    BY <1>1, Parts, ReqIs, PlaceIs DEF Writing
  <1>3. /\ v \in Place /\ disk[v].index # 0 /\ disk[v].topic # 0
        /\ req.backup # None => req.backup \in Place /\ req.backup # v
    BY <1>1, <1>2, WritingIs DEF Asked
  <1> HIDE DEF v
  <1>4. /\ disk' \in [Place -> Dir] /\ disk'[v] = disk[v]
        /\ req.backup # None => disk'[req.backup] = NoDir
        /\ \A p \in Place : p # req.backup => disk'[p] = disk[p]
    BY <1>1, <1>2, <1>3
  <1>5. ASSUME NEW p \in Place
        PROVE  Formed(p)' /\ (disk'[p].there => p.hidden <= crashes)
    <2>1. CASE p = req.backup
      BY <1>4, <2>1, PlaceIs DEF Formed, NoDir
    <2>2. CASE p # req.backup
      BY <1>2, <1>4, <2>2 DEF Sorted, Formed, Bounded
    <2>3. QED
      BY <2>1, <2>2
  <1>6. Whole(disk'[v])
    BY <1>3, <1>4 DEF Whole
  <1>7. UNCHANGED <<rows, job, requests, crashes>> /\ faults' \in Nat /\ "alive" \in Lives
    BY <1>1, <1>2 DEF counts, Lives
  <1>8. QED
    BY <1>1, <1>3, <1>4, <1>5, <1>6, <1>7, AnswerKeeps

LEMMA RequestFailsKeeps ==
    ASSUME IInv, RequestFails
    PROVE  IInv'
  <1>1. /\ Writing /\ req.pc # "idle" /\ Fault
        /\ UNCHANGED <<disk, rows, queue, job, requests, crashes>>
        /\ IF req.op = "create" THEN Answer("none") ELSE Goto("restore") /\ UNCHANGED history
    BY DEF RequestFails, Writing
  <1>2. /\ TypeOK /\ Sorted /\ Asked /\ Kept /\ disk \in [Place -> Dir] /\ requests # 0
        /\ faults' \in Nat
    BY <1>1, Parts, ReqIs, WritingIs DEF Fault
  <1>3. CASE req.op = "create"
    <2>1. req.backup = None
      BY <1>2, <1>3 DEF Asked
    <2>2. \A p \in Place : Formed(p)' /\ (disk'[p].there => p.hidden <= crashes)
      BY <1>1, <1>2, <2>1, PlaceIs DEF Sorted, Formed, Bounded
    <2>3. Answer("none") /\ "none" \in Lives
      BY <1>1, <1>3 DEF Lives
    <2>4. disk' \in [Place -> Dir] /\ UNCHANGED <<disk, queue>> /\ UNCHANGED <<rows, job, requests, crashes>>
      BY <1>1, <1>2
    <2>5. QED
      BY <1>1, <1>2, <2>2, <2>3, <2>4, AnswerKeeps
  <1>4. CASE req.op # "create"
    <2>1. /\ Goto("restore") /\ life' = life /\ blind' = blind /\ nested' = nested
          /\ cut' = cut /\ stolen' = stolen /\ "restore" \in ReqPc
      BY <1>1, <1>4 DEF history, ReqPc
    <2>2. /\ req' \in ReqType
          /\ req'.pc = "restore" /\ req'.op = req.op /\ req'.dir = req.dir
          /\ req'.ver = req.ver /\ req'.at = req.at /\ req'.backup = req.backup
      BY <1>2, <2>1, GotoIs
    <2>3. TypeOK'
      <3>1. /\ requests' \in Nat /\ crashes' \in 0..MaxCrashes /\ life' \in Lives
            /\ blind' \in BOOLEAN /\ nested' \in BOOLEAN /\ disk' \in [Place -> Dir]
            /\ queue' \in [Path -> Change]
        BY <1>1, <1>2, <2>1, ReqIs DEF TypeOK, Lives
      <3>2. QED
        BY <1>1, <1>2, <2>1, <2>2, <3>1, Typed
    <2>4. Lagging'
      BY <1>1, <1>2, <2>1, NoticeIs, LaggingStays
    <2>5. Sorted'
      BY <1>1, <1>2, <2>2 DEF Sorted, Formed, Bounded
    <2>6. Asked'
      BY <1>2, <2>2, <1>1 DEF Asked, Writing, Patching
    <2>7. Kept'
      BY <1>1, <1>2, <2>1, <2>2 DEF Kept, Told, Writing
    <2>8. QED
      BY <2>3, <2>4, <2>5, <2>6, <2>7, Assembles
  <1>5. QED
    BY <1>3, <1>4

LEMMA RestoreKeeps ==
    ASSUME IInv, Restore
    PROVE  IInv'
  <1> DEFINE b == req.backup
             l == IF life = "alive" THEN "kept" ELSE life
  <1>1. /\ req.pc = "restore" /\ Notice /\ Answer(l) /\ UNCHANGED <<rows, job, counts>>
        /\ disk' = IF b = None \/ ~disk[b].there THEN disk ELSE Moved(b, req.at)
    BY DEF Restore, At
  <1>2. /\ TypeOK /\ Sorted /\ Asked /\ Kept /\ disk \in [Place -> Dir]
        /\ faults \in Nat /\ crashes \in Nat /\ ~Writing
    BY <1>1, Parts, ReqIs DEF Writing
  <1>3. l \in Lives /\ (l \in {"alive", "kept"} /\ ~blind => Told)
    BY <1>2 DEF Lives, TypeOK, Told
  <1>4. UNCHANGED <<rows, job, requests, crashes>> /\ faults' \in Nat
    BY <1>1, <1>2 DEF counts
  <1>5. CASE b = None \/ ~disk[b].there
    <2>1. disk' = disk
      BY <1>1, <1>5
    <2>2. ~Told
      <3>1. CASE b = None
        BY <1>1, <1>2, <3>1 DEF Kept
      <3>2. CASE b # None /\ ~disk[b].there
        <4>1. b \in Place
          BY <1>2, <3>2, ReqIs DEF ReqType
        <4>2. QED
          BY <1>1, <1>2, <3>2, <4>1, WholeIsThere DEF Kept, Sorted
      <3>3. QED
        BY <1>5, <3>1, <3>2
    <2>3. \A p \in Place : Formed(p)' /\ (disk'[p].there => p.hidden <= crashes)
      BY <1>2, <1>5, <2>1, PlaceIs DEF Sorted, Formed, Bounded
    <2> HIDE DEF b, l
    <2>4. QED
      BY <1>1, <1>2, <1>3, <1>4, <2>1, <2>2, <2>3, AnswerKeeps
  <1>6. CASE ~(b = None \/ ~disk[b].there)
    <2>1. /\ disk[b].there /\ b # None /\ req.at \in Place /\ req.at.hidden <= crashes
          /\ b = Backup(req.at)
      BY <1>2, <1>6 DEF Asked
    <2>2. b \in Place /\ b # req.at
      <3>1. req.at.hidden <= MaxCrashes
        BY <1>2, <2>1, ReqIs, PlaceIs
      <3>2. QED
        BY <2>1, <3>1, BackupIs
    <2>3. disk' = Moved(b, req.at)
      BY <1>1, <1>6
    <2> HIDE DEF b, l
    <2>4. /\ disk' \in [Place -> Dir] /\ disk'[b] = NoDir
          /\ \A p \in Place \ {req.at, b} : disk'[p] = disk[p]
          /\ ~disk[req.at].there => disk'[req.at] = disk[b]
          /\ disk[req.at].there =>
               /\ disk'[req.at].there /\ disk'[req.at].index = disk[req.at].index
               /\ Whole(disk[b]) => Whole(disk'[req.at])
      BY <1>2, <2>1, <2>2, <2>3, MovedIs
    <2>5. ASSUME NEW p \in Place
          PROVE  Formed(p)' /\ (disk'[p].there => p.hidden <= crashes)
      <3>1. Formed(p) /\ Formed(b) /\ Formed(req.at) /\ (p # b => Bounded(p))
        BY <1>2, <2>1, <2>2 DEF Sorted
      <3>2. CASE p = b
        BY <2>4, <3>2 DEF Formed, NoDir
      <3>3. CASE p = req.at
        BY <2>1, <2>4, <3>1, <3>3 DEF Formed
      <3>4. CASE p \notin {req.at, b}
        BY <2>1, <2>4, <3>1, <3>4 DEF Formed, Bounded, b
      <3>5. QED
        BY <3>2, <3>3, <3>4
    <2>6. Told => Whole(disk'[req.at])
      <3>1. Told => Whole(disk[b])
        BY <1>1, <1>2 DEF Kept, b
      <3>2. QED
        BY <2>4, <3>1
    <2>7. QED
      BY <1>1, <1>2, <1>3, <1>4, <2>1, <2>4, <2>5, <2>6, AnswerKeeps
  <1>7. QED
    BY <1>5, <1>6

LEMMA RemoveKeeps ==
    ASSUME IInv, Remove
    PROVE  IInv'
  <1>1. /\ req.pc = "remove" /\ Notice /\ Answer("deleted") /\ UNCHANGED <<rows, job, counts>>
        /\ disk' = [disk EXCEPT ![req.at] = NoDir]
    BY DEF Remove, At
  <1>2. /\ TypeOK /\ Sorted /\ Asked /\ disk \in [Place -> Dir] /\ faults \in Nat
        /\ NoDir \in Dir /\ ~Writing
    BY <1>1, Parts, ReqIs, PlaceIs DEF Writing
  <1>3. req.at \in Place /\ \A p \in Place : disk[p].there => p.hidden <= crashes
    BY <1>1, <1>2, NoBackup DEF Asked
  <1>4. /\ disk' \in [Place -> Dir] /\ disk'[req.at] = NoDir
        /\ \A p \in Place : p # req.at => disk'[p] = disk[p]
    BY <1>1, <1>2, <1>3
  <1>5. \A p \in Place : Formed(p)' /\ (disk'[p].there => p.hidden <= crashes)
    BY <1>2, <1>3, <1>4 DEF Sorted, Formed, NoDir
  <1>6. UNCHANGED <<rows, job, requests, crashes>> /\ faults' \in Nat /\ "deleted" \in Lives
    BY <1>1, <1>2 DEF counts, Lives
  <1>7. QED
    BY <1>1, <1>4, <1>5, <1>6, AnswerKeeps

\* What every step of a patch relies on.
LEMMA PatchingIs ==
    ASSUME IInv, Patching
    PROVE  /\ req.at \in Place /\ req.ver \in Version /\ req.ver # 0 /\ req.ver \in 0..MaxVersion
           /\ disk[req.at].there /\ disk[req.at] \in Dir /\ disk \in [Place -> Dir]
           /\ req.backup = None /\ \A p \in Place : disk[p].there => p.hidden <= crashes
           /\ requests # 0 /\ ~Writing
  <1>1. ~Writing /\ req.pc # "restore" /\ req.pc # "idle"
    BY DEF Patching, Writing
  <1>2. req.at \in Place /\ req.ver \in Version /\ disk[req.at].there /\ requests # 0
    BY <1>1, Parts DEF Asked, Kept
  <1>3. QED
    BY <1>1, <1>2, NoBackup, VersionIs, Parts, ReqIs

LEMMA RewriteKeeps ==
    ASSUME IInv, Rewrite
    PROVE  IInv'
  <1> DEFINE p == req.at
             new == [disk[p] EXCEPT !.index = req.ver]
             pc == IF req.op = "retitle" THEN "upsert" ELSE "move"
  <1>1. /\ req.pc = "rewrite" /\ Notice /\ Serve(pc) /\ disk' = [disk EXCEPT ![p] = new]
        /\ pc \in ReqPc
    BY DEF Rewrite, At, ReqPc
  <1>2. TypeOK /\ Sorted /\ Asked /\ Kept /\ Patching
    BY <1>1, Parts DEF Patching
  <1>3. /\ p \in Place /\ req.ver \in Version /\ req.ver # 0 /\ req.ver \in 0..MaxVersion
        /\ disk[p].there /\ disk[p] \in Dir /\ disk \in [Place -> Dir]
        /\ req.backup = None /\ \A r \in Place : disk[r].there => r.hidden <= crashes
        /\ requests # 0
    BY <1>2, PatchingIs
  <1>4. /\ new \in Dir /\ new.there /\ new.index = req.ver /\ new.topic = disk[p].topic
        /\ new.inside = disk[p].inside
    <2> DEFINE v == req.ver
               d == disk[p]
    <2>1. d \in Dir /\ v \in 0..MaxVersion /\ d.there
      BY <1>3
    <2> HIDE DEF v, d
    <2>2. LET made == [d EXCEPT !.index = v]
          IN  /\ made \in Dir /\ made.there /\ made.index = v /\ made.topic = d.topic
              /\ made.inside = d.inside
      BY <2>1, FileIs, ZenonT(40)
    <2>3. QED
      BY <2>2 DEF v, d
  <1>5. req.op = "retitle" \/ (req.op = "recategorize" /\ req.dir \in Dirs /\ req.dir # p.dir)
    BY <1>1, <1>2 DEF Asked
  <1>6. pc = "upsert" \/ (pc = "move" /\ req.dir \in Dirs /\ req.dir # p.dir)
    BY <1>5
  <1> HIDE DEF new, pc
  <1>7. /\ disk' \in [Place -> Dir] /\ disk'[p] = new
        /\ \A r \in Place \ {p} : disk'[r] = disk[r]
    BY <1>1, <1>3, <1>4
  <1>8. /\ TypeOK' /\ Lagging'
        /\ req'.pc = pc /\ req'.op = req.op /\ req'.dir = req.dir
        /\ req'.ver = req.ver /\ req'.at = p /\ req'.backup = None
        /\ requests' = requests /\ crashes' = crashes /\ life' = life /\ Told' = Told
    BY <1>1, <1>3, <1>7, ServeIs
  <1>9. Sorted'
    BY <1>2, <1>3, <1>4, <1>7, <1>8 DEF Sorted, Formed, Bounded
  <1>10. Asked'
    BY <1>3, <1>4, <1>6, <1>7, <1>8 DEF Asked, Writing, Patching
  <1>11. Kept'
    <2>1. \A r \in Place : Whole(disk[r]) => Whole(disk'[r])
      BY <1>3, <1>4, <1>7 DEF Whole
    <2>2. QED
      BY <1>2, <1>3, <1>6, <1>8, <2>1 DEF Kept, Writing
  <1>12. QED
    BY <1>8, <1>9, <1>10, <1>11, Assembles

LEMMA RewriteTopicsKeeps ==
    ASSUME IInv, RewriteTopics
    PROVE  IInv'
  <1> DEFINE p == req.at
             v == IF disk[p].topic = 0 THEN 0 ELSE req.ver
             new == [disk[p] EXCEPT !.topic = v]
  <1>1. /\ req.pc = "topics" /\ Notice /\ Serve("upsert") /\ disk' = [disk EXCEPT ![p] = new]
    BY DEF RewriteTopics, At
  <1>2. TypeOK /\ Sorted /\ Asked /\ Kept /\ Patching
    BY <1>1, Parts DEF Patching
  <1>3. /\ p \in Place /\ req.ver \in Version /\ req.ver # 0 /\ req.ver \in 0..MaxVersion
        /\ disk[p].there /\ disk[p] \in Dir /\ disk \in [Place -> Dir]
        /\ req.backup = None /\ \A r \in Place : disk[r].there => r.hidden <= crashes
        /\ requests # 0 /\ (nested \/ disk[p].index = req.ver)
    BY <1>1, <1>2, PatchingIs DEF Asked
  <1>4. v \in 0..MaxVersion /\ (disk[p].topic # 0 => v # 0)
    BY <1>3, PlaceIs
  <1>5. /\ new \in Dir /\ new.there /\ new.index = disk[p].index /\ new.topic = v
        /\ new.inside = disk[p].inside
    <2>1. disk[p] \in Dir /\ v \in 0..MaxVersion /\ disk[p].there
      BY <1>3, <1>4
    <2> HIDE DEF v
    <2>2. QED
      BY <2>1, FileIs, ZenonT(40)
  <1> HIDE DEF new, v
  <1>7. /\ disk' \in [Place -> Dir] /\ disk'[p] = new
        /\ \A r \in Place \ {p} : disk'[r] = disk[r]
    BY <1>1, <1>3, <1>5
  <1>8. /\ TypeOK' /\ Lagging'
        /\ req'.pc = "upsert" /\ req'.op = req.op /\ req'.dir = req.dir
        /\ req'.ver = req.ver /\ req'.at = p /\ req'.backup = None /\ nested' = nested
        /\ requests' = requests /\ crashes' = crashes /\ life' = life /\ Told' = Told
    BY <1>1, <1>3, <1>7, ServeIs DEF ReqPc
  <1>9. Sorted'
    BY <1>2, <1>3, <1>5, <1>7, <1>8 DEF Sorted, Formed, Bounded
  <1>10. Asked'
    BY <1>3, <1>5, <1>7, <1>8 DEF Asked, Writing, Patching
  <1>11. Kept'
    <2>1. \A r \in Place : Whole(disk[r]) => Whole(disk'[r])
      BY <1>3, <1>4, <1>5, <1>7 DEF Whole
    <2>2. ~Writing' /\ req'.pc \notin {"backup", "restore", "idle"} /\ requests' # 0
      BY <1>3, <1>8 DEF Writing
    <2>3. Told' => \E r \in Place : Whole(disk'[r])
      BY <1>2, <1>8, <2>1 DEF Kept
    <2>4. QED
      BY <2>2, <2>3 DEF Kept
  <1>12. QED
    BY <1>8, <1>9, <1>10, <1>11, Assembles

LEMMA MoveKeeps ==
    ASSUME IInv, Move
    PROVE  IInv'
  <1> DEFINE p == req.at
             to == [req.at EXCEPT !.dir = req.dir]
  <1>1. /\ req.pc = "move" /\ Notice /\ disk' = Moved(p, to)
        /\ req' = [req EXCEPT !.pc = "topics", !.at = to]
        /\ nested' = (nested \/ disk[to].there)
        /\ UNCHANGED <<rows, job, counts, life, blind, cut, stolen>>
    BY DEF Move, At
  <1>2. TypeOK /\ Sorted /\ Asked /\ Kept /\ Patching
    BY <1>1, Parts DEF Patching
  <1>3. /\ p \in Place /\ req.ver \in Version
        /\ disk[p].there /\ disk \in [Place -> Dir]
        /\ req.backup = None /\ \A r \in Place : disk[r].there => r.hidden <= crashes
        /\ requests # 0
    BY <1>2, PatchingIs
  <1>4. req.dir \in Dirs /\ req.dir # p.dir /\ (nested \/ disk[p].index = req.ver)
    BY <1>1, <1>2 DEF Asked
  <1>5. to \in Place /\ to # p /\ to.hidden = p.hidden
    BY <1>3, <1>4 DEF Place
  <1>6. /\ req' \in ReqType /\ req'.pc = "topics" /\ req'.op = req.op /\ req'.dir = req.dir
        /\ req'.ver = req.ver /\ req'.at = to /\ req'.backup = None
    <2>1. req \in ReqType
      BY <1>2, ReqIs
    <2> HIDE DEF to
    <2>2. QED
      BY <1>1, <1>3, <1>5, <2>1 DEF ReqType, ReqPc
  <1> HIDE DEF to, p
  <1>7. /\ disk' \in [Place -> Dir] /\ disk'[p] = NoDir
        /\ \A r \in Place \ {p, to} : disk'[r] = disk[r]
        /\ ~disk[to].there => disk'[to] = disk[p]
        /\ disk[to].there => /\ disk'[to].there /\ disk'[to].index = disk[to].index
                             /\ disk'[to].topic = disk[to].topic
                             /\ disk[to].inside \subseteq disk'[to].inside
                             /\ Whole(disk[p]) => Whole(disk'[to])
    BY <1>1, <1>3, <1>5, MovedIs
  <1>8. /\ requests' = requests /\ faults' = faults /\ crashes' = crashes /\ life' = life
        /\ blind' = blind /\ cut' = cut /\ stolen' = stolen /\ nested' \in BOOLEAN
        /\ (nested => nested') /\ (disk[to].there => nested')
    BY <1>1, <1>2 DEF counts, TypeOK
  <1>9. TypeOK' /\ Lagging'
    <2>1. /\ requests' \in Nat /\ faults' \in Nat /\ crashes' \in 0..MaxCrashes /\ life' \in Lives
          /\ blind' \in BOOLEAN
      BY <1>2, <1>8, ReqIs DEF TypeOK, Lives
    <2>2. QED
      BY <1>1, <1>2, <1>6, <1>7, <1>8, <2>1, Typed, NoticeIs, LaggingStays
  <1>10. ASSUME NEW r \in Place PROVE Formed(r)' /\ Bounded(r)'
    <2>1. Formed(r) /\ Formed(p) /\ Formed(to)
      BY <1>2, <1>3, <1>5 DEF Sorted
    <2>2. CASE r = p
      BY <1>7, <2>2 DEF Formed, Bounded, NoDir
    <2>3. CASE r = to
      BY <1>3, <1>5, <1>7, <1>8, <2>1, <2>3 DEF Formed, Bounded
    <2>4. CASE r \notin {p, to}
      BY <1>3, <1>7, <1>8, <2>1, <2>4 DEF Formed, Bounded
    <2>5. QED
      BY <2>2, <2>3, <2>4
  <1>11. Asked'
    <2>1. disk'[to].there
      BY <1>3, <1>7
    <2>2. nested' \/ disk'[to].index = req.ver
      <3>1. CASE ~disk[to].there
        BY <1>4, <1>7, <1>8, <3>1 DEF p
      <3>2. QED
        BY <1>8, <3>1
    <2>3. QED
      BY <1>3, <1>5, <1>6, <2>1, <2>2 DEF Asked, Writing, Patching
  <1>12. Kept'
    <2>1. ASSUME NEW r \in Place, Whole(disk[r]) PROVE \E t \in Place : Whole(disk'[t])
      <3>1. CASE r = p
        BY <1>5, <1>7, <2>1, <3>1
      <3>2. CASE r = to
        <4>1. disk[to].there
          BY <1>2, <1>5, <2>1, <3>2, WholeIsThere DEF Sorted
        <4>2. Whole(disk'[to])
          BY <1>7, <2>1, <3>2, <4>1 DEF Whole
        <4>3. QED
          BY <1>5, <4>2
      <3>3. CASE r \notin {p, to}
        BY <1>7, <2>1, <3>3
      <3>4. QED
        BY <3>1, <3>2, <3>3
    <2>2. Told' => Told
      BY <1>8 DEF Told
    <2>3. Told' => \E r \in Place : Whole(disk'[r])
      BY <1>2, <2>1, <2>2 DEF Kept
    <2>4. ~Writing' /\ req'.pc \notin {"backup", "restore", "idle"} /\ requests' # 0
      BY <1>3, <1>6, <1>8 DEF Writing
    <2>5. QED
      BY <2>3, <2>4 DEF Kept
  <1>13. QED
    BY <1>9, <1>10, <1>11, <1>12, Assembles DEF Sorted

LEMMA UpsertKeeps ==
    ASSUME IInv, Upsert
    PROVE  IInv'
  <1> DEFINE p == req.at
  <1>1. /\ req.pc = "upsert" /\ doc' = [at |-> p, ver |-> req.ver] /\ req' = NoReq
        /\ UNCHANGED <<disk, lance, sql, queue, job, counts, life, blind, cut, stolen, nested>>
    BY DEF Upsert, At, history
  <1>2. TypeOK /\ Sorted /\ Asked /\ Kept /\ Lagging /\ Patching
    BY <1>1, Parts DEF Patching
  <1>3. /\ p \in Place /\ req.ver \in Version /\ disk[p].there
        /\ req.backup = None /\ \A r \in Place : disk[r].there => r.hidden <= crashes
        /\ requests # 0
    BY <1>2, PatchingIs
  <1>4. disk[p].index # 0 /\ (nested \/ disk[p].index = req.ver)
    BY <1>1, <1>2, <1>3 DEF Asked, Sorted, Formed
  <1>5. /\ req' \in ReqType /\ req'.pc = "idle" /\ req'.backup = None
        /\ ~Writing' /\ ~Patching'
    BY <1>1, <1>2, ReqIs DEF Writing, Patching
  <1>6. doc' \in Row /\ doc'.at = p /\ doc'.ver = req.ver
    BY <1>1, <1>3, RowIs
  <1> HIDE DEF p
  <1>7. /\ requests' = requests /\ faults' = faults /\ crashes' = crashes
        /\ stolen' \in BOOLEAN /\ (stolen => stolen')
    BY <1>1, <1>2 DEF counts, TypeOK
  <1>8. TypeOK'
    BY <1>1, <1>2, <1>5, <1>6, <1>7 DEF TypeOK, ReqType
  <1>9. Sorted'
    BY <1>1, <1>2, <1>3, <1>5, <1>7 DEF Sorted, Formed, Bounded
  <1>10. Asked'
    BY <1>5 DEF Asked
  <1>11. Kept'
    BY <1>1, <1>2, <1>3, <1>5, <1>7 DEF Kept, Told
  <1>12. ASSUME NEW q \in Path PROVE Batched(q)'
    BY <1>1, <1>2 DEF Lagging, Batched
  <1>13. ASSUME NEW r \in Place PROVE Filed(r)'
    <2>1. Filed(r)
      BY <1>2 DEF Lagging
    <2>2. DocMirrors(r)'
      BY <1>1, <1>4, <1>6 DEF DocMirrors
    <2>3. LanceMirrors(r)' /\ SqlMirrors(r)' /\ SameTopic(r)'
      BY <1>1, <1>7, <2>1 DEF Filed, LanceMirrors, SqlMirrors, SameTopic, Waits
    <2>4. Searchable(r)'
      BY <1>1, <2>1 DEF Filed, Searchable, Waits
    <2>5. QED
      BY <2>2, <2>3, <2>4 DEF Filed
  <1>14. QED
    BY <1>8, <1>9, <1>10, <1>11, <1>12, <1>13, Assembles DEF Lagging

-----------------------------------------------------------------------------
(* The cascade *)

\* What a handler leaves alone.
Aside == UNCHANGED <<disk, req, requests, crashes, life, blind, nested>>

LEMMA AsideKeeps ==
    ASSUME IInv, Aside, TypeOK', Lagging'
    PROVE  IInv'
  <1>1. Sorted'
    BY Parts DEF Aside, Sorted, Formed, Bounded
  <1>2. Asked'
    BY Parts DEF Aside, Asked, Writing, Patching
  <1>3. Kept'
    BY Parts DEF Aside, Kept, Told, Writing
  <1>4. QED
    BY <1>1, <1>2, <1>3, Assembles

LEMMA ClaimKeeps ==
    ASSUME IInv, Claim
    PROVE  IInv'
  <1>1. /\ \A q \in Path : job[q].pc = "idle"
        /\ job' = [q \in Path |->
                     IF queue[q] = "none" THEN Idle
                     ELSE [pc |-> IF queue[q] = "changed" THEN "start" ELSE "delete",
                           change |-> queue[q], ver |-> 0]]
        /\ queue' = [q \in Path |-> "none"]
        /\ UNCHANGED <<disk, rows, req, counts, history>>
    BY DEF Claim
  <1>2. TypeOK /\ Lagging
    BY Parts
  <1>3. ASSUME NEW q \in Path
        PROVE  /\ job'[q] \in JobType /\ queue'[q] = "none" /\ queue[q] \in Change
               /\ queue[q] = "none" => job'[q].pc = "idle" /\ job'[q].change = "none"
               /\ queue[q] = "changed" => job'[q].pc = "start" /\ job'[q].change = "changed"
               /\ queue[q] = "deleted" => job'[q].pc = "delete" /\ job'[q].change = "deleted"
    <2>1. queue[q] \in Change /\ Idle \in JobType /\ Idle.pc = "idle" /\ Idle.change = "none"
      BY <1>2, JobIs
    <2>2. job'[q] = IF queue[q] = "none" THEN Idle
                    ELSE [pc |-> IF queue[q] = "changed" THEN "start" ELSE "delete",
                          change |-> queue[q], ver |-> 0]
      BY <1>1
    <2>3. QED
      BY <1>1, <2>1, <2>2, PlaceIs DEF JobType, JobPc, Change
  <1>4. Aside /\ rows' = rows /\ faults' = faults /\ cut' = cut /\ stolen' = stolen
    BY <1>1 DEF Aside, counts, history
  <1>5. TypeOK'
    <2>1. job' \in [Path -> JobType] /\ queue' \in [Path -> Change]
      BY <1>1, <1>3 DEF Change
    <2>2. QED
      BY <1>2, <1>4, <2>1 DEF TypeOK, Aside, rows, JobType
  <1>6. ASSUME NEW q \in Path PROVE Batched(q)'
    <2>1. Batched(q)
      BY <1>2 DEF Lagging
    <2>2. QED
      BY <1>3, <1>4, <2>1 DEF Batched, Aside, Change
  <1>7. ASSUME NEW p \in Place PROVE Filed(p)'
    <2>1. Filed(p) /\ Index(p) \in Path /\ Topic(p) \in Path
      BY <1>2, PlaceIs DEF Lagging
    <2>2. /\ job[Index(p)].pc = "idle" /\ job[Topic(p)].pc = "idle"
          /\ queue[Index(p)] = "none" \/ job'[Index(p)].pc \in {"start", "delete"}
          /\ queue[Topic(p)] = "none" \/ job'[Topic(p)].pc \in {"start", "delete"}
          /\ job'[Topic(p)].pc # "half"
      BY <1>1, <1>3, <2>1, ZenonT(40) DEF Change
    <2>3. /\ doc' = doc /\ lance' = lance /\ sql' = sql /\ disk' = disk /\ cut' = cut
          /\ stolen' = stolen /\ nested' = nested
      BY <1>4 DEF Aside, rows
    <2>4. DocMirrors(p)'
      BY <2>1, <2>2, <2>3 DEF Filed, DocMirrors, Waits
    <2>5. LanceMirrors(p)'
      BY <2>1, <2>2, <2>3 DEF Filed, LanceMirrors, Waits
    <2>6. SqlMirrors(p)'
      BY <2>1, <2>2, <2>3 DEF Filed, SqlMirrors, Waits
    <2>7. SameTopic(p)'
      BY <2>1, <2>2, <2>3 DEF Filed, SameTopic
    <2>8. Searchable(p)'
      <3>1. /\ queue[Index(p)] # "none" => disk[p].index = 0 \/ job'[Index(p)].pc = "start"
            /\ queue[Topic(p)] # "none" => disk[p].topic = 0 \/ job'[Topic(p)].pc = "start"
        <4>1. Batched(Index(p)) /\ Batched(Topic(p))
          BY <1>2, <2>1 DEF Lagging
        <4>2. QED
          BY <1>3, <2>1, <4>1, ContentIs DEF Batched, Change
      <3>2. QED
        BY <2>1, <2>2, <2>3, <3>1 DEF Filed, Searchable, Waits
    <2>9. QED
      BY <2>4, <2>5, <2>6, <2>7, <2>8 DEF Filed
  <1>8. QED
    BY <1>4, <1>5, <1>6, <1>7, AsideKeeps DEF Lagging

\* One handler's step: its job becomes j, its path may be queued again.
LEMMA HandlerIs ==
    ASSUME IInv, NEW q \in Path, NEW j \in JobType, job' = [job EXCEPT ![q] = j],
           NEW w \in Change, queue' = [queue EXCEPT ![q] = w],
           Aside, {doc', lance', sql'} \subseteq Row, cut' \in BOOLEAN, stolen' \in BOOLEAN,
           faults' \in Nat
    PROVE  /\ TypeOK' /\ job'[q] = j /\ queue'[q] = w
           /\ \A r \in Path \ {q} : job'[r] = job[r] /\ queue'[r] = queue[r]
           /\ \A r \in Path \ {q} : Batched(r)'
  <1>1. TypeOK /\ job \in [Path -> JobType] /\ queue \in [Path -> Change] /\ Lagging
    BY Parts, JobIs DEF TypeOK
  <1>2. /\ job' \in [Path -> JobType] /\ queue' \in [Path -> Change]
        /\ job'[q] = j /\ queue'[q] = w
        /\ \A r \in Path \ {q} : job'[r] = job[r] /\ queue'[r] = queue[r]
    BY <1>1
  <1>3. TypeOK'
    BY <1>1, <1>2 DEF TypeOK, Aside, JobType
  <1>4. ASSUME NEW r \in Path \ {q} PROVE Batched(r)'
    BY <1>1, <1>2 DEF Lagging, Batched, Aside
  <1>5. QED
    BY <1>2, <1>3, <1>4

\* Another path's rows, when they are not written.
LEMMA ElsewhereIs ==
    ASSUME IInv, NEW p \in Place, Aside, cut => cut', stolen => stolen',
           job'[Index(p)] = job[Index(p)], queue'[Index(p)] = queue[Index(p)],
           job'[Topic(p)] = job[Topic(p)], queue'[Topic(p)] = queue[Topic(p)],
           doc' = doc \/ doc'.at # p, lance' = lance \/ lance'.at # p,
           sql' = sql \/ sql'.at # p,
           \/ stolen'
           \/ lance' = lance \/ lance.at # p \/ disk[p].topic = 0
    PROVE  Filed(p)'
  <1>1. Filed(p) /\ disk' = disk /\ nested' = nested
    BY Parts DEF Lagging, Aside
  <1>2. DocMirrors(p)'
    BY <1>1 DEF Filed, DocMirrors, Waits
  <1>3. LanceMirrors(p)'
    BY <1>1 DEF Filed, LanceMirrors, Waits
  <1>4. SqlMirrors(p)'
    BY <1>1 DEF Filed, SqlMirrors, Waits
  <1>5. SameTopic(p)'
    BY <1>1 DEF Filed, SameTopic
  <1>6. Searchable(p)'
    BY <1>1 DEF Filed, Searchable, Waits
  <1>7. QED
    BY <1>2, <1>3, <1>4, <1>5, <1>6 DEF Filed

\* The other file of the directory a handler is at.
LEMMA SteppedIs ==
    ASSUME IInv, NEW q \in Path, NEW r \in Place, r # q[1]
    PROVE  Index(r) \in Path \ {q} /\ Topic(r) \in Path \ {q}
  BY PlaceIs

LEMMA StealsIs ==
    ASSUME NEW p \in Place, lance.at \in Place, lance.at # p, ~Steals(p)
    PROVE  disk[lance.at].topic = 0
  BY PlaceIs DEF Steals, Content

LEMMA DocumentKeeps ==
    ASSUME IInv, NEW q \in Path, Document(q)
    PROVE  IInv'
  <1> DEFINE p == q[1]
  <1>1. /\ job[q].pc = "start" /\ q[2] = "index" /\ Content(disk, q) # 0
        /\ doc' = [at |-> p, ver |-> Content(disk, q)] /\ job' = [job EXCEPT ![q] = Idle]
        /\ UNCHANGED <<disk, lance, sql, queue, req, counts, life, blind, cut, stolen, nested>>
    BY DEF Document, Done, history
  <1>2. /\ TypeOK /\ Lagging /\ p \in Place /\ q = Index(p) /\ Content(disk, q) = disk[p].index
        /\ disk[p].index \in Version /\ Topic(p) \in Path \ {q} /\ Idle \in JobType
        /\ Idle.pc = "idle" /\ Idle.change = "none" /\ queue[q] \in Change
    <2>1. TypeOK /\ disk \in [Place -> Dir]
      BY Parts, ReqIs
    <2>2. p \in Place /\ q = Index(p) /\ Content(disk, q) = disk[p].index
          /\ Content(disk, q) \in 0..MaxVersion
      BY <1>1, <2>1, PathIs
    <2>3. disk[p].index \in Version
      BY <1>1, <2>2, KnowledgeAssumption DEF Version
    <2>4. QED
      BY <1>1, <2>1, <2>2, <2>3, Parts, PlaceIs, JobIs
  <1> HIDE DEF p
  <1>3. doc' \in Row /\ doc'.at = p /\ doc'.ver = disk[p].index
    BY <1>1, <1>2, RowIs
  <1>4. Aside /\ cut' = cut /\ lance' = lance /\ sql' = sql /\ (stolen => stolen')
    BY <1>1 DEF Aside, counts
  <1>5. queue' = [queue EXCEPT ![q] = queue[q]]
    BY <1>1, <1>2 DEF TypeOK
  <1>6. {doc', lance', sql'} \subseteq Row /\ cut' \in BOOLEAN /\ stolen' \in BOOLEAN /\ faults' \in Nat
    BY <1>1, <1>2, <1>3 DEF TypeOK, counts
  <1>7. /\ TypeOK' /\ job'[q] = Idle /\ queue'[q] = queue[q]
        /\ \A r \in Path \ {q} : job'[r] = job[r] /\ queue'[r] = queue[r]
        /\ \A r \in Path \ {q} : Batched(r)'
    BY <1>1, <1>2, <1>4, <1>5, <1>6, HandlerIs
  <1>8. Batched(q)'
    BY <1>1, <1>2, <1>7 DEF Lagging, Batched
  <1>9. Filed(p)'
    <2>1. Filed(p)
      BY <1>2 DEF Lagging
    <2>2. DocMirrors(p)'
      BY <1>1, <1>2, <1>3 DEF DocMirrors
    <2>3. LanceMirrors(p)' /\ SqlMirrors(p)' /\ SameTopic(p)'
      BY <1>1, <1>2, <1>4, <1>7, <2>1 DEF Filed, LanceMirrors, SqlMirrors, SameTopic, Waits
    <2>4. Searchable(p)'
      BY <1>1, <1>2, <1>3, <1>4, <1>7, <2>1 DEF Filed, Searchable, Waits
    <2>5. QED
      BY <2>2, <2>3, <2>4 DEF Filed
  <1>10. ASSUME NEW r \in Place, r # p PROVE Filed(r)'
    <2>1. Index(r) \in Path \ {q} /\ Topic(r) \in Path \ {q}
      BY <1>10, SteppedIs DEF p
    <2>2. QED
      BY <1>3, <1>4, <1>7, <1>10, <2>1, ElsewhereIs
  <1>11. QED
    BY <1>4, <1>7, <1>8, <1>9, <1>10, AsideKeeps DEF Lagging

\* A handler that writes no row.
LEMMA UnwrittenKeeps ==
    ASSUME IInv, NEW q \in Path, NEW j \in JobType, job' = [job EXCEPT ![q] = j],
           NEW w \in Change, queue' = [queue EXCEPT ![q] = w],
           Aside, UNCHANGED rows, cut' \in BOOLEAN, stolen' \in BOOLEAN, faults' \in Nat,
           cut => cut', stolen => stolen',
           Batched(q)', Filed(q[1])'
    PROVE  IInv'
  <1>1. doc' = doc /\ lance' = lance /\ sql' = sql /\ {doc', lance', sql'} \subseteq Row
    BY Parts DEF rows, TypeOK
  <1>2. /\ TypeOK'
        /\ \A r \in Path \ {q} : job'[r] = job[r] /\ queue'[r] = queue[r]
        /\ \A r \in Path \ {q} : Batched(r)'
    BY <1>1, HandlerIs
  <1>3. ASSUME NEW r \in Place, r # q[1] PROVE Filed(r)'
    BY <1>1, <1>2, <1>3, SteppedIs, ElsewhereIs
  <1>4. QED
    BY <1>2, <1>3, AsideKeeps DEF Lagging

\* What a path, its job and its queue entry are.
LEMMA HandledIs ==
    ASSUME IInv, NEW q \in Path
    PROVE  /\ TypeOK /\ Lagging /\ q[1] \in Place /\ Batched(q) /\ Filed(q[1])
           /\ q[2] \in {"index", "topic"}
           /\ q[2] = "index" => q = Index(q[1]) /\ Content(disk, q) = disk[q[1]].index
           /\ q[2] = "topic" => q = Topic(q[1]) /\ Content(disk, q) = disk[q[1]].topic
           /\ Content(disk, q) \in 0..MaxVersion
           /\ Index(q[1]) \in Path /\ Topic(q[1]) \in Path /\ Index(q[1]) # Topic(q[1])
           /\ job[q] \in JobType /\ queue[q] \in Change /\ queue[q] = [queue EXCEPT ![q] = @][q]
           /\ queue = [queue EXCEPT ![q] = queue[q]]
           /\ Idle \in JobType /\ Idle.pc = "idle" /\ Idle.change = "none"
           /\ faults \in Nat /\ cut \in BOOLEAN /\ stolen \in BOOLEAN
           /\ disk[q[1]].index \in 0..MaxVersion /\ disk[q[1]].topic \in 0..MaxVersion
  <1>1. TypeOK /\ Lagging /\ disk \in [Place -> Dir] /\ queue \in [Path -> Change]
        /\ faults \in Nat /\ cut \in BOOLEAN /\ stolen \in BOOLEAN
    BY Parts, ReqIs DEF TypeOK
  <1>2. q[1] \in Place /\ Batched(q) /\ Filed(q[1]) /\ q[2] \in {"index", "topic"}
    BY <1>1, PathIs DEF Lagging
  <1>3. /\ q[2] = "index" => q = Index(q[1]) /\ Content(disk, q) = disk[q[1]].index
        /\ q[2] = "topic" => q = Topic(q[1]) /\ Content(disk, q) = disk[q[1]].topic
        /\ Content(disk, q) \in 0..MaxVersion
    BY <1>1, PathIs
  <1>4. /\ Index(q[1]) \in Path /\ Topic(q[1]) \in Path /\ Index(q[1]) # Topic(q[1])
        /\ disk[q[1]].index \in 0..MaxVersion /\ disk[q[1]].topic \in 0..MaxVersion
    BY <1>1, <1>2, PlaceIs DEF Dir
  <1>5. queue = [queue EXCEPT ![q] = queue[q]]
    BY <1>1
  <1>6. QED
    BY <1>1, <1>2, <1>3, <1>4, <1>5, JobIs

LEMMA GoneKeeps ==
    ASSUME IInv, NEW q \in Path, Gone(q)
    PROVE  IInv'
  <1> DEFINE j == [job[q] EXCEPT !.pc = "delete"]
  <1>1. /\ job[q].pc = "start" /\ Content(disk, q) = 0
        /\ job' = [job EXCEPT ![q].pc = "delete"]
        /\ UNCHANGED <<disk, rows, queue, req, counts, history>>
    BY DEF Gone, Step
  <1>2. /\ TypeOK /\ Lagging /\ q[1] \in Place /\ Batched(q) /\ Filed(q[1])
        /\ q = Index(q[1]) \/ q = Topic(q[1])
        /\ q = Index(q[1]) => Content(disk, q) = disk[q[1]].index
        /\ q = Topic(q[1]) => Content(disk, q) = disk[q[1]].topic
        /\ Index(q[1]) \in Path /\ Topic(q[1]) \in Path /\ Index(q[1]) # Topic(q[1])
        /\ job[q] \in JobType /\ queue[q] \in Change /\ queue = [queue EXCEPT ![q] = queue[q]]
        /\ faults \in Nat /\ cut \in BOOLEAN /\ stolen \in BOOLEAN
    BY HandledIs, ContentIs
  <1>3. j \in JobType /\ j.pc = "delete" /\ j.change = job[q].change
    BY <1>2 DEF JobType, JobPc
  <1>4. job' = [job EXCEPT ![q] = j]
    BY <1>1, <1>2, JobIs
  <1> HIDE DEF j
  <1>5. Aside /\ cut' = cut /\ stolen' = stolen /\ faults' = faults /\ nested' = nested
    BY <1>1 DEF Aside, counts, history
  <1>6. /\ job'[q] = j /\ queue' = queue /\ disk' = disk
        /\ \A r \in Path \ {q} : job'[r] = job[r]
    BY <1>1, <1>2, <1>4, JobIs
  <1>7. Batched(q)'
    BY <1>1, <1>2, <1>3, <1>6 DEF Batched
  <1>8. Filed(q[1])'
    <2>1. doc' = doc /\ lance' = lance /\ sql' = sql
      BY <1>1 DEF rows
    <2>2. DocMirrors(q[1])'
      BY <1>1, <1>2, <1>3, <1>5, <1>6, <2>1 DEF Filed, DocMirrors, Waits
    <2>3. LanceMirrors(q[1])'
      BY <1>1, <1>2, <1>3, <1>5, <1>6, <2>1 DEF Filed, LanceMirrors, Waits
    <2>4. SqlMirrors(q[1])'
      BY <1>1, <1>2, <1>3, <1>5, <1>6, <2>1 DEF Filed, SqlMirrors, Waits
    <2>5. SameTopic(q[1])'
      BY <1>1, <1>2, <1>3, <1>5, <1>6, <2>1 DEF Filed, SameTopic
    <2>6. Searchable(q[1])'
      BY <1>1, <1>2, <1>3, <1>5, <1>6, <2>1 DEF Filed, Searchable, Waits
    <2>7. QED
      BY <2>2, <2>3, <2>4, <2>5, <2>6 DEF Filed
  <1>9. QED
    BY <1>1, <1>2, <1>3, <1>4, <1>5, <1>7, <1>8, UnwrittenKeeps

\* The topic's handler, by what a step leaves in its job.
LEMMA TopicIs ==
    ASSUME IInv, NEW q \in Path, q[2] = "topic"
    PROVE  /\ TypeOK /\ Lagging /\ q[1] \in Place /\ Batched(q) /\ Filed(q[1])
           /\ q = Topic(q[1]) /\ Content(disk, q) = disk[q[1]].topic
           /\ disk[q[1]].topic \in 0..MaxVersion
           /\ (disk[q[1]].topic # 0 => disk[q[1]].topic \in Version)
           /\ Index(q[1]) \in Path /\ Index(q[1]) # q
           /\ job[q] \in JobType /\ queue[q] \in Change /\ queue = [queue EXCEPT ![q] = queue[q]]
           /\ job \in [Path -> JobType]
           /\ Idle \in JobType /\ Idle.pc = "idle" /\ Idle.change = "none"
           /\ faults \in Nat /\ cut \in BOOLEAN /\ stolen \in BOOLEAN
           /\ {doc, lance, sql} \subseteq Row
  <1>1. disk[q[1]].topic # 0 => disk[q[1]].topic \in Version
    <2> DEFINE n == disk[q[1]].topic
    <2>1. n \in 0..MaxVersion
      BY HandledIs
    <2> HIDE DEF n
    <2>2. n # 0 => n \in Version
      BY <2>1, KnowledgeAssumption DEF Version
    <2>3. QED
      BY <2>2 DEF n
  <1>2. job \in [Path -> JobType] /\ {doc, lance, sql} \subseteq Row
    BY Parts, JobIs DEF TypeOK
  <1>3. QED
    BY <1>1, <1>2, HandledIs

LEMMA SkipKeeps ==
    ASSUME IInv, NEW q \in Path, Skip(q)
    PROVE  IInv'
  <1> DEFINE p == q[1]
  <1>1. /\ job[q].pc = "start" /\ q[2] = "topic" /\ Content(disk, q) # 0
        /\ lance # NoRow /\ lance.ver = Content(disk, q)
        /\ job' = [job EXCEPT ![q] = Idle]
        /\ stolen' = (stolen \/ lance.at # p)
        /\ UNCHANGED <<disk, rows, queue, req, counts, life, blind, cut, nested>>
    BY DEF Skip, Done
  <1>2. /\ TypeOK /\ Lagging /\ p \in Place /\ Batched(q) /\ Filed(p)
        /\ q = Topic(p) /\ Content(disk, q) = disk[p].topic
        /\ Index(p) \in Path /\ Index(p) # q
        /\ queue[q] \in Change /\ queue = [queue EXCEPT ![q] = queue[q]] /\ job \in [Path -> JobType]
        /\ Idle \in JobType /\ Idle.pc = "idle" /\ Idle.change = "none"
        /\ faults \in Nat /\ cut \in BOOLEAN /\ stolen \in BOOLEAN
    BY <1>1, TopicIs
  <1> HIDE DEF p
  <1>3. /\ Aside /\ cut' = cut /\ stolen' \in BOOLEAN /\ (stolen => stolen') /\ faults' = faults
        /\ nested' = nested
    BY <1>1, <1>2 DEF Aside, counts
  <1>4. /\ job'[q] = Idle /\ queue' = queue /\ disk' = disk
        /\ \A r \in Path \ {q} : job'[r] = job[r]
    BY <1>1, <1>2
  <1>5. Batched(q)'
    BY <1>2, <1>4 DEF Batched
  <1>6. Filed(p)'
    <2>1. doc' = doc /\ lance' = lance /\ sql' = sql
      BY <1>1 DEF rows
    <2>2. DocMirrors(p)'
      BY <1>2, <1>3, <1>4, <2>1 DEF Filed, DocMirrors, Waits
    <2>3. LanceMirrors(p)'
      BY <1>1, <1>2, <1>4, <2>1 DEF LanceMirrors
    <2>4. SqlMirrors(p)'
      <3>1. ASSUME ~cut, ~stolen' PROVE sql.at = p => sql.ver = disk[p].topic
        BY <1>1, <1>2, <3>1 DEF Filed, SameTopic
      <3>2. QED
        BY <1>3, <1>4, <2>1, <3>1 DEF SqlMirrors
    <2>5. SameTopic(p)'
      BY <1>1, <1>2, <1>3, <1>4, <2>1 DEF Filed, SameTopic
    <2>6. Searchable(p)'
      BY <1>1, <2>1 DEF Searchable
    <2>7. QED
      BY <2>2, <2>3, <2>4, <2>5, <2>6 DEF Filed
  <1>7. /\ cut' \in BOOLEAN /\ (cut => cut') /\ faults' \in Nat /\ UNCHANGED rows
        /\ queue' = [queue EXCEPT ![q] = queue[q]] /\ queue[q] \in Change
        /\ job' = [job EXCEPT ![q] = Idle] /\ Idle \in JobType
    BY <1>1, <1>2, <1>3
  <1>8. QED
    BY <1>3, <1>5, <1>6, <1>7, UnwrittenKeeps DEF p

LEMMA ReadKeeps ==
    ASSUME IInv, NEW q \in Path, Read(q)
    PROVE  IInv'
  <1> DEFINE p == q[1]
             j == [job[q] EXCEPT !.pc = "read", !.ver = Content(disk, q)]
  <1>1. /\ job[q].pc = "start" /\ q[2] = "topic" /\ Content(disk, q) # 0
        /\ job' = [job EXCEPT ![q].pc = "read", ![q].ver = Content(disk, q)]
        /\ UNCHANGED <<disk, rows, queue, req, counts, history>>
    BY DEF Read
  <1>2. /\ TypeOK /\ Lagging /\ p \in Place /\ Batched(q) /\ Filed(p)
        /\ q = Topic(p) /\ Content(disk, q) = disk[p].topic /\ disk[p].topic \in 0..MaxVersion
        /\ Index(p) \in Path /\ Index(p) # q /\ job[q] \in JobType
        /\ queue[q] \in Change /\ queue = [queue EXCEPT ![q] = queue[q]] /\ job \in [Path -> JobType]
        /\ faults \in Nat /\ cut \in BOOLEAN /\ stolen \in BOOLEAN
    BY <1>1, TopicIs
  <1> HIDE DEF p
  <1>3. Aside /\ cut' = cut /\ stolen' = stolen /\ faults' = faults /\ nested' = nested
    BY <1>1 DEF Aside, counts, history
  <1>4. /\ j \in JobType /\ j.pc = "read" /\ j.change = job[q].change /\ j.ver = disk[p].topic
        /\ job' = [job EXCEPT ![q] = j]
    <2>1. j \in JobType /\ j.pc = "read" /\ j.change = job[q].change /\ j.ver = disk[p].topic
      BY <1>2 DEF JobType, JobPc
    <2>2. job' = [job EXCEPT ![q] = j]
      BY <1>1, <1>2
    <2>3. QED
      BY <2>1, <2>2
  <1> HIDE DEF j
  <1>5. /\ job'[q] = j /\ queue' = queue /\ disk' = disk
        /\ \A r \in Path \ {q} : job'[r] = job[r]
    BY <1>1, <1>2, <1>4
  <1>6. Batched(q)'
    BY <1>1, <1>2, <1>4, <1>5 DEF Batched
  <1>7. Filed(p)'
    <2>1. doc' = doc /\ lance' = lance /\ sql' = sql
      BY <1>1 DEF rows
    <2>2. DocMirrors(p)'
      BY <1>2, <1>3, <1>5, <2>1 DEF Filed, DocMirrors, Waits
    <2>3. LanceMirrors(p)'
      BY <1>2, <1>4, <1>5, <2>1 DEF LanceMirrors, Waits
    <2>4. SqlMirrors(p)'
      BY <1>2, <1>4, <1>5, <2>1 DEF SqlMirrors, Waits
    <2>5. SameTopic(p)'
      BY <1>1, <1>2, <1>3, <1>4, <1>5, <2>1 DEF Filed, SameTopic
    <2>6. Searchable(p)'
      BY <1>2, <1>3, <1>4, <1>5, <2>1 DEF Filed, Searchable, Waits
    <2>7. QED
      BY <2>2, <2>3, <2>4, <2>5, <2>6 DEF Filed
  <1>8. QED
    BY <1>1, <1>2, <1>3, <1>4, <1>6, <1>7, UnwrittenKeeps DEF p

LEMMA UpsertLanceKeeps ==
    ASSUME IInv, NEW q \in Path, UpsertLance(q)
    PROVE  IInv'
  <1> DEFINE p == q[1]
             j == [job[q] EXCEPT !.pc = "half"]
  <1>1. /\ job[q].pc = "read" /\ q[2] = "topic"
        /\ lance' = [at |-> p, ver |-> job[q].ver]
        /\ job' = [job EXCEPT ![q].pc = "half"]
        /\ stolen' = (stolen \/ Steals(p))
        /\ UNCHANGED <<disk, doc, sql, queue, req, counts, life, blind, cut, nested>>
    BY DEF UpsertLance, Step
  <1>2. /\ TypeOK /\ Lagging /\ p \in Place /\ Batched(q) /\ Filed(p)
        /\ q = Topic(p) /\ Content(disk, q) = disk[p].topic /\ disk[p].topic \in 0..MaxVersion
        /\ Index(p) \in Path /\ Index(p) # q /\ job[q] \in JobType
        /\ queue[q] \in Change /\ queue = [queue EXCEPT ![q] = queue[q]] /\ job \in [Path -> JobType]
        /\ faults \in Nat /\ cut \in BOOLEAN /\ stolen \in BOOLEAN /\ {doc, lance, sql} \subseteq Row
    BY <1>1, TopicIs
  <1> HIDE DEF p
  <1>3. /\ Aside /\ cut' = cut /\ stolen' \in BOOLEAN /\ (stolen => stolen') /\ faults' = faults
        /\ nested' = nested
    BY <1>1, <1>2 DEF Aside, counts
  <1>4. /\ j \in JobType /\ j.pc = "half" /\ j.change = job[q].change /\ j.ver = job[q].ver
        /\ job' = [job EXCEPT ![q] = j]
    <2>1. j \in JobType /\ j.pc = "half" /\ j.change = job[q].change /\ j.ver = job[q].ver
      BY <1>2 DEF JobType, JobPc
    <2>2. job' = [job EXCEPT ![q] = j]
      BY <1>1, <1>2
    <2>3. QED
      BY <2>1, <2>2
  <1> HIDE DEF j
  <1>5. /\ job[q].ver # 0 /\ job[q].ver \in Version
        /\ job[q].ver = disk[p].topic \/ queue[q] # "none"
    <2>1. job[q].ver \in 0..MaxVersion /\ job[q].ver # 0
          /\ (job[q].ver = disk[p].topic \/ queue[q] # "none")
      BY <1>1, <1>2 DEF Batched, JobType
    <2>2. QED
      BY <2>1, KnowledgeAssumption DEF Version
  <1>6. lance' \in Row /\ lance'.at = p /\ lance'.ver = job[q].ver
    BY <1>1, <1>2, <1>5, RowIs
  <1>7. {doc', lance', sql'} \subseteq Row /\ cut' \in BOOLEAN /\ faults' \in Nat
    BY <1>1, <1>2, <1>3, <1>6
  <1>8. /\ TypeOK' /\ job'[q] = j /\ queue'[q] = queue[q] /\ queue' = queue /\ disk' = disk
        /\ doc' = doc /\ sql' = sql
        /\ \A r \in Path \ {q} : job'[r] = job[r] /\ queue'[r] = queue[r]
        /\ \A r \in Path \ {q} : Batched(r)'
    <2>1. /\ j \in JobType /\ job' = [job EXCEPT ![q] = j] /\ queue[q] \in Change
          /\ queue' = [queue EXCEPT ![q] = queue[q]]
      BY <1>1, <1>2, <1>4
    <2>2. Aside /\ stolen' \in BOOLEAN
      BY <1>3
    <2>3. /\ TypeOK' /\ job'[q] = j /\ queue'[q] = queue[q]
          /\ \A r \in Path \ {q} : job'[r] = job[r] /\ queue'[r] = queue[r]
          /\ \A r \in Path \ {q} : Batched(r)'
      BY <1>7, <2>1, <2>2, HandlerIs
    <2>4. queue' = queue /\ disk' = disk /\ doc' = doc /\ sql' = sql
      BY <1>1
    <2>5. QED
      BY <2>3, <2>4
  <1>9. Batched(q)'
    BY <1>1, <1>2, <1>4, <1>5, <1>8 DEF Batched
  <1>10. Filed(p)'
    <2>1. DocMirrors(p)'
      BY <1>2, <1>3, <1>8 DEF Filed, DocMirrors, Waits
    <2>2. LanceMirrors(p)'
      BY <1>2, <1>5, <1>6, <1>8 DEF LanceMirrors, Waits
    <2>3. SqlMirrors(p)'
      BY <1>2, <1>4, <1>8 DEF SqlMirrors, Waits
    <2>4. SameTopic(p)'
      BY <1>2, <1>4, <1>6, <1>8 DEF SameTopic
    <2>5. Searchable(p)'
      BY <1>2, <1>3, <1>4, <1>6, <1>8 DEF Filed, Searchable, Waits
    <2>6. QED
      BY <2>1, <2>2, <2>3, <2>4, <2>5 DEF Filed
  <1>11. ASSUME NEW r \in Place, r # p PROVE Filed(r)'
    <2>1. Index(r) \in Path \ {q} /\ Topic(r) \in Path \ {q}
      BY <1>11, SteppedIs DEF p
    <2>2. stolen' \/ lance.at # r \/ disk[r].topic = 0
      BY <1>1, <1>2, <1>11, StealsIs
    <2>3. QED
      BY <1>3, <1>6, <1>8, <1>11, <2>1, <2>2, ElsewhereIs
  <1>12. QED
    BY <1>3, <1>8, <1>9, <1>10, <1>11, AsideKeeps DEF Lagging

LEMMA UpsertSqlKeeps ==
    ASSUME IInv, NEW q \in Path, UpsertSql(q)
    PROVE  IInv'
  <1> DEFINE p == q[1]
  <1>1. /\ job[q].pc = "half"
        /\ sql' = [at |-> p, ver |-> job[q].ver]
        /\ job' = [job EXCEPT ![q] = Idle]
        /\ UNCHANGED <<disk, doc, lance, queue, req, counts, life, blind, cut, stolen, nested>>
    BY DEF UpsertSql, Done, history
  <1>2. /\ TypeOK /\ Lagging /\ p \in Place /\ Batched(q) /\ Filed(p) /\ q[2] = "topic"
        /\ q = Topic(p) /\ Content(disk, q) = disk[p].topic /\ disk[p].topic \in 0..MaxVersion
        /\ Index(p) \in Path /\ Index(p) # q /\ job[q] \in JobType
        /\ queue[q] \in Change /\ queue = [queue EXCEPT ![q] = queue[q]] /\ job \in [Path -> JobType]
        /\ Idle \in JobType /\ Idle.pc = "idle" /\ Idle.change = "none"
        /\ faults \in Nat /\ cut \in BOOLEAN /\ stolen \in BOOLEAN /\ {doc, lance, sql} \subseteq Row
    <2>1. q[2] = "topic"
      BY <1>1, HandledIs DEF Batched
    <2>2. QED
      BY <2>1, TopicIs
  <1> HIDE DEF p
  <1>3. /\ Aside /\ cut' = cut /\ stolen' \in BOOLEAN /\ (stolen => stolen') /\ faults' = faults
        /\ nested' = nested
    BY <1>1, <1>2 DEF Aside, counts
  <1>5. /\ job[q].ver # 0 /\ job[q].ver \in Version
        /\ job[q].ver = disk[p].topic \/ queue[q] # "none"
    <2>1. job[q].ver \in 0..MaxVersion /\ job[q].ver # 0
          /\ (job[q].ver = disk[p].topic \/ queue[q] # "none")
      BY <1>1, <1>2 DEF Batched, JobType
    <2>2. QED
      BY <2>1, KnowledgeAssumption DEF Version
  <1>6. sql' \in Row /\ sql'.at = p /\ sql'.ver = job[q].ver
    BY <1>1, <1>2, <1>5, RowIs
  <1>7. {doc', lance', sql'} \subseteq Row /\ cut' \in BOOLEAN /\ faults' \in Nat
    BY <1>1, <1>2, <1>3, <1>6
  <1>8. /\ TypeOK' /\ job'[q] = Idle /\ queue'[q] = queue[q] /\ queue' = queue /\ disk' = disk
        /\ doc' = doc /\ lance' = lance
        /\ \A r \in Path \ {q} : job'[r] = job[r] /\ queue'[r] = queue[r]
        /\ \A r \in Path \ {q} : Batched(r)'
    BY <1>1, <1>2, <1>3, <1>7, HandlerIs
  <1>9. Batched(q)'
    BY <1>1, <1>2, <1>8 DEF Batched
  <1>10. Filed(p)'
    <2>1. DocMirrors(p)'
      BY <1>2, <1>3, <1>8 DEF Filed, DocMirrors, Waits
    <2>2. LanceMirrors(p)'
      BY <1>1, <1>2, <1>8 DEF Filed, LanceMirrors, Waits
    <2>3. SqlMirrors(p)'
      BY <1>2, <1>5, <1>6, <1>8 DEF SqlMirrors, Waits
    <2>4. SameTopic(p)'
      BY <1>1, <1>2, <1>6, <1>8 DEF Filed, SameTopic
    <2>5. Searchable(p)'
      BY <1>1, <1>2, <1>3, <1>6, <1>8 DEF Filed, Searchable, Waits
    <2>6. QED
      BY <2>1, <2>2, <2>3, <2>4, <2>5 DEF Filed
  <1>11. ASSUME NEW r \in Place, r # p PROVE Filed(r)'
    <2>1. Index(r) \in Path \ {q} /\ Topic(r) \in Path \ {q}
      BY <1>11, SteppedIs DEF p
    <2>2. QED
      BY <1>3, <1>6, <1>8, <1>11, <2>1, ElsewhereIs
  <1>12. QED
    BY <1>3, <1>8, <1>9, <1>10, <1>11, AsideKeeps DEF Lagging

LEMMA DeleteRowsKeeps ==
    ASSUME IInv, NEW q \in Path, DeleteRows(q)
    PROVE  IInv'
  <1> DEFINE p == q[1]
  <1>1. /\ job[q].pc = "delete" /\ job' = [job EXCEPT ![q] = Idle]
        /\ IF q[2] = "index" THEN doc' = Without(doc, q) /\ UNCHANGED <<lance, sql>>
           ELSE lance' = Without(lance, q) /\ sql' = Without(sql, q) /\ UNCHANGED doc
        /\ UNCHANGED <<disk, queue, req, counts, history>>
    BY DEF DeleteRows, Done
  <1>2. /\ TypeOK /\ Lagging /\ p \in Place /\ Batched(q) /\ Filed(p)
        /\ q[2] \in {"index", "topic"}
        /\ q[2] = "index" => q = Index(p) /\ Content(disk, q) = disk[p].index
        /\ q[2] = "topic" => q = Topic(p) /\ Content(disk, q) = disk[p].topic
        /\ Index(p) \in Path /\ Topic(p) \in Path /\ Index(p) # Topic(p)
        /\ queue[q] \in Change /\ queue = [queue EXCEPT ![q] = queue[q]]
        /\ Idle \in JobType /\ Idle.pc = "idle" /\ Idle.change = "none"
        /\ faults \in Nat /\ cut \in BOOLEAN /\ stolen \in BOOLEAN
    BY HandledIs
  <1> HIDE DEF p
  <1>3. /\ Aside /\ cut' = cut /\ stolen' = stolen /\ faults' = faults /\ nested' = nested
        /\ cut' \in BOOLEAN /\ stolen' \in BOOLEAN /\ faults' \in Nat
    BY <1>1, <1>2 DEF Aside, counts, history
  <1>4. /\ doc' \in {doc, NoRow} /\ lance' \in {lance, NoRow} /\ sql' \in {sql, NoRow}
        /\ q[2] = "index" => lance' = lance /\ sql' = sql /\ doc'.at # p
        /\ q[2] = "topic" => doc' = doc /\ lance'.at # p /\ sql'.at # p
        /\ \A r \in Place : r # p =>
             /\ doc' = doc \/ doc.at # r
             /\ lance' = lance \/ lance.at # r
             /\ sql' = sql \/ sql.at # r
    <2>1. NoRow.at # p
      BY <1>2, RowIs, PlaceIs
    <2>2. /\ Without(doc, q) = IF doc.at = p THEN NoRow ELSE doc
          /\ Without(lance, q) = IF lance.at = p THEN NoRow ELSE lance
          /\ Without(sql, q) = IF sql.at = p THEN NoRow ELSE sql
      BY DEF Without, p
    <2>3. CASE q[2] = "index"
      BY <1>1, <2>1, <2>2, <2>3
    <2>4. CASE q[2] # "index"
      BY <1>1, <2>1, <2>2, <2>4
    <2>5. QED
      BY <2>3, <2>4
  <1>5. {doc', lance', sql'} \subseteq Row
    <2>1. {doc, lance, sql} \subseteq Row /\ NoRow \in Row
      BY <1>2, RowIs DEF TypeOK
    <2>2. QED
      BY <1>4, <2>1
  <1>6. /\ TypeOK' /\ job'[q] = Idle /\ queue'[q] = queue[q]
        /\ \A r \in Path \ {q} : job'[r] = job[r] /\ queue'[r] = queue[r]
        /\ \A r \in Path \ {q} : Batched(r)'
    <2>1. job' = [job EXCEPT ![q] = Idle] /\ queue' = [queue EXCEPT ![q] = queue[q]]
      BY <1>1, <1>2
    <2>2. QED
      BY <1>2, <1>3, <1>5, <2>1, HandlerIs
  <1>7. queue' = queue /\ disk' = disk
    BY <1>1
  <1>8. Batched(q)'
    BY <1>2, <1>6, <1>7 DEF Batched
  <1>9. Filed(p)'
    <2>1. CASE q[2] = "index"
      <3>1. /\ lance' = lance /\ sql' = sql /\ doc'.at # p /\ q = Index(p)
            /\ job'[Topic(p)] = job[Topic(p)]
            /\ disk[p].index = 0 \/ queue[q] # "none"
        BY <1>1, <1>2, <1>4, <1>6, <2>1 DEF Batched
      <3>2. DocMirrors(p)'
        BY <3>1 DEF DocMirrors
      <3>3. LanceMirrors(p)' /\ SqlMirrors(p)'
        BY <1>2, <1>3, <1>7, <3>1 DEF Filed, LanceMirrors, SqlMirrors, Waits
      <3>4. SameTopic(p)'
        BY <1>2, <1>3, <1>7, <3>1 DEF Filed, SameTopic
      <3>5. Searchable(p)'
        BY <1>2, <1>3, <1>7, <3>1 DEF Filed, Searchable, Waits
      <3>6. QED
        BY <3>2, <3>3, <3>4, <3>5 DEF Filed
    <2>2. CASE q[2] = "topic"
      <3>1. /\ doc' = doc /\ lance'.at # p /\ sql'.at # p /\ q = Topic(p)
            /\ job'[Index(p)] = job[Index(p)]
            /\ disk[p].topic = 0 \/ queue[q] # "none"
        BY <1>1, <1>2, <1>4, <1>6, <2>2 DEF Batched
      <3>2. DocMirrors(p)'
        BY <1>2, <1>3, <1>7, <3>1 DEF Filed, DocMirrors, Waits
      <3>3. LanceMirrors(p)' /\ SqlMirrors(p)' /\ SameTopic(p)'
        BY <3>1 DEF LanceMirrors, SqlMirrors, SameTopic
      <3>5. Searchable(p)'
        BY <1>2, <1>3, <1>7, <3>1 DEF Filed, Searchable, Waits
      <3>6. QED
        BY <3>2, <3>3, <3>5 DEF Filed
    <2>3. QED
      BY <1>2, <2>1, <2>2
  <1>10. ASSUME NEW r \in Place, r # p PROVE Filed(r)'
    <2>1. Index(r) \in Path \ {q} /\ Topic(r) \in Path \ {q}
      BY <1>10, SteppedIs DEF p
    <2>2. /\ doc' = doc \/ doc'.at # r
          /\ lance' = lance \/ lance'.at # r
          /\ sql' = sql \/ sql'.at # r
      <3>1. NoRow.at # r
        BY RowIs, PlaceIs
      <3>2. QED
        BY <1>4, <3>1
    <2>3. /\ doc' = doc \/ doc.at # r
          /\ lance' = lance \/ lance.at # r
          /\ sql' = sql \/ sql.at # r
      BY <1>4, <1>10
    <2>4. /\ job'[Index(r)] = job[Index(r)] /\ queue'[Index(r)] = queue[Index(r)]
          /\ job'[Topic(r)] = job[Topic(r)] /\ queue'[Topic(r)] = queue[Topic(r)]
      BY <1>6, <2>1
    <2>5. /\ Aside /\ (cut => cut') /\ (stolen => stolen')
          /\ \/ stolen'
             \/ lance' = lance \/ lance.at # r \/ disk[r].topic = 0
      BY <1>3, <2>3
    <2>6. QED
      BY <1>10, <2>2, <2>4, <2>5, ElsewhereIs
  <1>11. QED
    BY <1>3, <1>6, <1>8, <1>9, <1>10, AsideKeeps DEF Lagging

\* A job that ends without its row: its path is queued again, or the step is noted.
LEMMA EndsKeeps ==
    ASSUME IInv, NEW q \in Path, job' = [job EXCEPT ![q] = Idle],
           NEW w \in Change, queue' = [queue EXCEPT ![q] = w], w = "deleted" => Content(disk, q) = 0,
           w # "none" \/ (/\ queue[q] = "none" /\ cut'
                          /\ \/ job[q].pc = "half"
                             \/ q[2] = "index" /\ Content(disk, q) # 0)
                      \/ (job[q].pc = "half" /\ cut'),
           Aside, UNCHANGED rows, stolen' = stolen, cut => cut', cut' \in BOOLEAN, faults' \in Nat,
           queue[q] # "none" => w # "none",
           job[q].pc # "half" \/ cut'
    PROVE  IInv'
  <1> DEFINE p == q[1]
  <1>1. /\ TypeOK /\ Lagging /\ p \in Place /\ Batched(q) /\ Filed(p)
        /\ q[2] \in {"index", "topic"}
        /\ q[2] = "index" => q = Index(p) /\ Content(disk, q) = disk[p].index
        /\ q[2] = "topic" => q = Topic(p) /\ Content(disk, q) = disk[p].topic
        /\ Index(p) \in Path /\ Topic(p) \in Path /\ Index(p) # Topic(p)
        /\ Idle \in JobType /\ Idle.pc = "idle" /\ Idle.change = "none"
        /\ stolen \in BOOLEAN
    BY HandledIs
  <1> HIDE DEF p
  <1>2. /\ job'[q] = Idle /\ queue'[q] = w
        /\ \A r \in Path \ {q} : job'[r] = job[r] /\ queue'[r] = queue[r]
    BY <1>1, JobIs DEF TypeOK
  <1>3. disk' = disk /\ nested' = nested /\ doc' = doc /\ lance' = lance /\ sql' = sql
    BY DEF Aside, rows
  <1>4. Batched(q)'
    BY <1>1, <1>2, <1>3 DEF Batched
  <1>5. Filed(p)'
    <2>1. CASE q[2] = "index"
      <3>1. /\ q = Index(p) /\ job'[Topic(p)] = job[Topic(p)] /\ queue'[Topic(p)] = queue[Topic(p)]
            /\ Content(disk, q) = disk[p].index /\ job[q].pc # "half"
        BY <1>1, <1>2, <2>1 DEF Batched
      <3>2. w # "none" \/ (cut' /\ disk[p].index # 0)
        BY <3>1
      <3>3. DocMirrors(p)'
        BY <1>2, <1>3, <3>1, <3>2 DEF DocMirrors, Waits
      <3>4. LanceMirrors(p)' /\ SqlMirrors(p)'
        BY <1>1, <1>3, <3>1 DEF Filed, LanceMirrors, SqlMirrors, Waits
      <3>5. SameTopic(p)'
        BY <1>1, <1>3, <3>1 DEF Filed, SameTopic
      <3>6. Searchable(p)'
        BY <1>1, <1>2, <1>3, <3>1, <3>2 DEF Filed, Searchable, Waits
      <3>7. QED
        BY <3>3, <3>4, <3>5, <3>6 DEF Filed
    <2>2. CASE q[2] = "topic"
      <3>1. /\ q = Topic(p) /\ job'[Index(p)] = job[Index(p)] /\ queue'[Index(p)] = queue[Index(p)]
        BY <1>1, <1>2, <2>2
      <3>2. w # "none" \/ (cut' /\ job[q].pc = "half")
        BY <2>2
      <3>3. DocMirrors(p)'
        BY <1>1, <1>3, <3>1 DEF Filed, DocMirrors, Waits
      <3>4. LanceMirrors(p)'
        BY <1>1, <1>2, <1>3, <3>1, <3>2 DEF Filed, LanceMirrors, Waits
      <3>5. SqlMirrors(p)'
        BY <1>1, <1>2, <1>3, <3>1, <3>2 DEF Filed, SqlMirrors, Waits
      <3>6. SameTopic(p)'
        BY <1>1, <1>2, <1>3, <3>1, <3>2 DEF Filed, SameTopic
      <3>7. Searchable(p)'
        BY <1>1, <1>2, <1>3, <3>1, <3>2 DEF Filed, Searchable, Waits
      <3>8. QED
        BY <3>3, <3>4, <3>5, <3>6, <3>7 DEF Filed
    <2>3. QED
      BY <1>1, <2>1, <2>2
  <1>6. stolen' \in BOOLEAN /\ (stolen => stolen')
    BY <1>1
  <1>7. QED
    BY <1>1, <1>4, <1>5, <1>6, UnwrittenKeeps DEF p

LEMMA HandlerFailsKeeps ==
    ASSUME IInv, NEW q \in Path, HandlerFails(q)
    PROVE  IInv'
  <1> DEFINE w == IF queue[q] = "none" THEN job[q].change ELSE queue[q]
  <1>1. /\ job[q].pc \in {"read", "delete"} /\ Fault
        /\ queue' = [queue EXCEPT ![q] = w] /\ job' = [job EXCEPT ![q] = Idle]
        /\ UNCHANGED <<disk, rows, req, requests, crashes, history>>
    BY DEF HandlerFails, Again, Done
  <1>2. /\ TypeOK /\ Batched(q) /\ queue[q] \in Change /\ faults \in Nat
        /\ cut \in BOOLEAN /\ stolen \in BOOLEAN
    BY HandledIs
  <1>21. job[q].change \in Change
    BY <1>2, JobIs
  <1>22. faults' = faults + 1
    BY <1>1 DEF Fault
  <1>23. faults' \in Nat
    BY <1>2, <1>22
  <1>3. w \in Change /\ w # "none" /\ (w = "deleted" => Content(disk, q) = 0)
        /\ (queue[q] # "none" => w # "none")
    BY <1>1, <1>2, <1>21 DEF Batched
  <1>4. /\ Aside /\ rows' = rows /\ stolen' = stolen /\ (cut => cut') /\ cut' \in BOOLEAN
        /\ queue' = [queue EXCEPT ![q] = w] /\ job' = [job EXCEPT ![q] = Idle]
        /\ (job[q].pc # "half" \/ cut')
    BY <1>1, <1>2 DEF Aside, history
  <1> HIDE DEF w
  <1>5. QED
    BY <1>23, <1>3, <1>4, EndsKeeps

LEMMA HandlerGivesUpKeeps ==
    ASSUME IInv, NEW q \in Path, HandlerGivesUp(q)
    PROVE  IInv'
  <1> DEFINE w == queue[q]
  <1>1. /\ \/ job[q].pc = "half"
           \/ job[q].pc = "start" /\ q[2] = "index" /\ Content(disk, q) # 0
        /\ Fault /\ job' = [job EXCEPT ![q] = Idle] /\ cut' = TRUE
        /\ UNCHANGED <<disk, rows, queue, req, requests, crashes, life, blind, stolen, nested>>
    BY DEF HandlerGivesUp, Done
  <1>2. /\ TypeOK /\ Batched(q) /\ w \in Change /\ queue = [queue EXCEPT ![q] = w]
        /\ faults \in Nat
    BY HandledIs
  <1>21. faults' = faults + 1
    BY <1>1 DEF Fault
  <1>22. faults' \in Nat
    BY <1>2, <1>21
  <1>3. (w = "deleted" => Content(disk, q) = 0) /\ queue' = [queue EXCEPT ![q] = w]
    BY <1>1, <1>2 DEF Batched
  <1>4. Aside /\ rows' = rows /\ stolen' = stolen /\ (cut => cut') /\ cut' \in BOOLEAN
    BY <1>1 DEF Aside
  <1>5. w # "none" \/ (/\ w = "none" /\ cut'
                       /\ \/ job[q].pc = "half"
                          \/ q[2] = "index" /\ Content(disk, q) # 0)
    BY <1>1
  <1>6. cut' /\ job' = [job EXCEPT ![q] = Idle]
    BY <1>1
  <1>7. QED
    BY <1>2, <1>22, <1>3, <1>4, <1>5, <1>6, EndsKeeps


-----------------------------------------------------------------------------
(* Crashes *)

LEMMA CrashKeeps ==
    ASSUME IInv, Crash
    PROVE  IInv'
  <1>1. /\ crashes < MaxCrashes /\ crashes' = crashes + 1
        /\ req' = NoReq
        /\ job' = [q \in Path |-> Idle]
        /\ queue' = [q \in Path |->
                       IF job[q].pc # "idle" /\ queue[q] = "none" THEN job[q].change ELSE queue[q]]
        /\ cut' = (cut \/ \E q \in Path : job[q].pc = "half")
        /\ disk' = disk /\ UNCHANGED rows /\ requests' = requests /\ faults' = faults
        /\ life' = life /\ blind' = blind /\ stolen' = stolen /\ nested' = nested
    BY DEF Crash
  <1>2. TypeOK /\ Sorted /\ Asked /\ Kept /\ Lagging
    BY Parts
  <1>3. doc' = doc /\ lance' = lance /\ sql' = sql
    BY <1>1 DEF rows
  <1>4. /\ crashes \in Nat /\ MaxCrashes \in Nat /\ req' \in ReqType
        /\ req'.pc = "idle" /\ req'.backup = None
    BY <1>1, <1>2, ReqIs
  <1>5. crashes' \in Nat /\ crashes' \in 0..MaxCrashes
    BY <1>1, <1>4
  <1>6. (cut => cut') /\ cut' \in BOOLEAN /\ \A q \in Path : job[q].pc = "half" => cut'
    BY <1>1
  <1>7. ASSUME NEW q \in Path
        PROVE  /\ job'[q] = Idle /\ job'[q] \in JobType /\ job'[q].pc = "idle" /\ job'[q].change = "none"
               /\ queue'[q] \in Change
               /\ queue[q] # "none" => queue'[q] = queue[q]
               /\ queue[q] = "none" /\ job[q].pc # "idle" => queue'[q] = job[q].change
               /\ queue[q] = "none" /\ job[q].pc = "idle" => queue'[q] = "none"
    BY <1>1, <1>2, JobIs
  <1>8. job' \in [Path -> JobType] /\ queue' \in [Path -> Change]
    BY <1>1, <1>7
  <1>9. TypeOK'
    <2>1. /\ disk' \in [Place -> Dir] /\ {doc', lance', sql'} \subseteq Row
          /\ requests' \in Nat /\ faults' \in Nat
          /\ life' \in {"none", "alive", "kept", "deleted"}
          /\ {blind', stolen', nested'} \subseteq BOOLEAN
      BY <1>1, <1>2, <1>3 DEF TypeOK
    <2>2. QED
      BY <1>4, <1>5, <1>6, <1>8, <2>1 DEF TypeOK, JobType, ReqType
  <1>10. ASSUME NEW p \in Place PROVE Formed(p)' /\ Bounded(p)'
    <2>1. Formed(p) /\ Bounded(p) /\ p.hidden \in Nat
      BY <1>2, PlaceIs DEF Sorted
    <2>2. Formed(p)'
      BY <1>1, <2>1 DEF Formed
    <2>3. Bounded(p)'
      BY <1>1, <1>4, <2>1 DEF Bounded
    <2>4. QED
      BY <2>2, <2>3
  <1>11. ~Writing' /\ ~Patching'
    BY <1>4 DEF Writing, Patching
  <1>12. Asked'
    BY <1>4, <1>11 DEF Asked
  <1>13. Kept'
    BY <1>1, <1>2, <1>4, <1>11 DEF Kept, Told
  <1>14. ASSUME NEW q \in Path PROVE Batched(q)' /\ (job[q].pc # "idle" => queue'[q] # "none")
    <2>1. Batched(q)
      BY <1>2 DEF Lagging
    <2>2. Content(disk', q) = Content(disk, q)
      BY <1>1
    <2>3. QED
      BY <1>7, <2>1, <2>2 DEF Batched
  <1>15. ASSUME NEW p \in Place PROVE Filed(p)'
    <2>1. Filed(p) /\ Index(p) \in Path /\ Topic(p) \in Path
      BY <1>2, PlaceIs DEF Lagging
    <2>2. \A q \in {Index(p), Topic(p)} :
            /\ queue[q] # "none" \/ job[q].pc # "idle" => queue'[q] # "none"
            /\ job'[q].pc = "idle"
            /\ job[q].pc = "half" => cut'
      BY <1>6, <1>7, <1>14, <2>1
    <2>3. DocMirrors(p)'
      BY <1>1, <1>3, <1>6, <2>1, <2>2 DEF Filed, DocMirrors, Waits
    <2>4. LanceMirrors(p)'
      BY <1>1, <1>3, <1>6, <2>1, <2>2 DEF Filed, LanceMirrors, Waits
    <2>5. SqlMirrors(p)'
      BY <1>1, <1>3, <1>6, <2>1, <2>2 DEF Filed, SqlMirrors, Waits
    <2>6. SameTopic(p)'
      BY <1>1, <1>3, <1>6, <2>1, <2>2 DEF Filed, SameTopic
    <2>7. Searchable(p)'
      BY <1>1, <1>3, <1>6, <2>1, <2>2 DEF Filed, Searchable, Waits
    <2>8. QED
      BY <2>3, <2>4, <2>5, <2>6, <2>7 DEF Filed
  <1>16. Sorted' /\ Lagging'
    BY <1>10, <1>14, <1>15 DEF Sorted, Lagging
  <1>17. QED
    BY <1>9, <1>12, <1>13, <1>16, Assembles

-----------------------------------------------------------------------------
(* The invariant, and what it says at rest *)

LEMMA Starting == Init => IInv
  <1> SUFFICES ASSUME Init PROVE IInv
    OBVIOUS
  <1>1. /\ disk = [p \in Place |-> NoDir]
        /\ doc = NoRow /\ lance = NoRow /\ sql = NoRow
        /\ queue = [q \in Path |-> "none"] /\ job = [q \in Path |-> Idle]
        /\ req = NoReq /\ requests = 0 /\ faults = 0 /\ crashes = 0
        /\ life = "none" /\ blind = FALSE /\ cut = FALSE /\ stolen = FALSE /\ nested = FALSE
    BY DEF Init
  <1>2. Idle \in JobType /\ Idle.pc = "idle" /\ Idle.change = "none" /\ NoDir \in Dir /\ NoRow \in Row
    BY PlaceIs, RowIs DEF JobType, Idle, JobPc, Change
  <1>3. NoReq \in ReqType /\ NoReq.pc = "idle" /\ NoReq.backup = None
    BY PlaceIs DEF NoReq, ReqType, ReqPc, Op
  <1>4. 0 \in Nat /\ 0 \in 0..MaxCrashes /\ "none" \in Change
    BY KnowledgeAssumption DEF Change
  <1>5. TypeOK
    BY <1>1, <1>2, <1>3, <1>4 DEF TypeOK, JobType, ReqType
  <1>6. ~Writing /\ ~Patching
    BY <1>1, <1>3 DEF Writing, Patching
  <1>7. \A p \in Place : Formed(p) /\ Bounded(p)
    BY <1>1 DEF Formed, Bounded, NoDir
  <1>8. Asked
    BY <1>1, <1>3, <1>6 DEF Asked
  <1>9. Kept
    BY <1>1, <1>3, <1>6 DEF Kept, Told
  <1>10. \A q \in Path : Batched(q)
    BY <1>1, <1>2 DEF Batched
  <1>11. ASSUME NEW p \in Place PROVE Filed(p)
    <2>1. doc.at # p /\ lance.at # p /\ sql.at # p
      BY <1>1, RowIs, PlaceIs
    <2>2. disk[p].index = 0 /\ disk[p].topic = 0
      BY <1>1 DEF NoDir
    <2>3. QED
      BY <2>1, <2>2 DEF Filed, DocMirrors, LanceMirrors, SqlMirrors, SameTopic, Searchable
  <1>12. QED
    BY <1>5, <1>7, <1>8, <1>9, <1>10, <1>11 DEF IInv, Orderly, Lagging

LEMMA Stuttering ==
    ASSUME IInv, UNCHANGED vars
    PROVE  IInv'
  <1>1. Aside /\ UNCHANGED <<rows, queue, job, faults, cut, stolen>>
    BY DEF vars, Aside, rows
  <1>2. TypeOK'
    BY <1>1, Parts DEF TypeOK, Aside, rows
  <1>3. Noticed
    BY <1>1 DEF Noticed, Aside
  <1>4. Lagging'
    BY <1>1, <1>3, LaggingStays DEF Aside
  <1>5. QED
    BY <1>1, <1>2, <1>4, AsideKeeps

LEMMA Stepping == IInv /\ [Next]_vars => IInv'
  <1> SUFFICES ASSUME IInv, [Next]_vars PROVE IInv'
    OBVIOUS
  <1>1. CASE Request
    BY <1>1, CreateKeeps, ReplaceKeeps, PatchKeeps, DeleteKeeps DEF Request
  <1>2. CASE Service
    BY <1>2, BackUpKeeps, WriteIndexKeeps, WriteTopicKeeps, FinishKeeps, RestoreKeeps,
       RemoveKeeps, RewriteKeeps, MoveKeeps, RewriteTopicsKeeps, UpsertKeeps DEF Service
  <1>3. CASE RequestFails
    BY <1>3, RequestFailsKeeps
  <1>4. CASE Claim
    BY <1>4, ClaimKeeps
  <1>5. CASE \E q \in Path : Handler(q)
    BY <1>5, DocumentKeeps, GoneKeeps, SkipKeeps, ReadKeeps, UpsertLanceKeeps, UpsertSqlKeeps,
       DeleteRowsKeeps DEF Handler
  <1>6. CASE \E q \in Path : HandlerFails(q)
    BY <1>6, HandlerFailsKeeps
  <1>7. CASE \E q \in Path : HandlerGivesUp(q)
    BY <1>7, HandlerGivesUpKeeps
  <1>8. CASE Crash
    BY <1>8, CrashKeeps
  <1>9. CASE UNCHANGED vars
    BY <1>9, Stuttering
  <1>10. QED
    BY <1>1, <1>2, <1>3, <1>4, <1>5, <1>6, <1>7, <1>8, <1>9 DEF Next

LEMMA Always == Spec => []IInv
  BY Starting, Stepping, PTL DEF Spec

\* Every variable has its type: what the handlers read of requests, rows and queues is
\* what was written there.
THEOREM TypeCorrect == Spec => []TypeOK
  <1>1. IInv => TypeOK
    BY DEF IInv
  <1>2. QED
    BY <1>1, Always, PTL

LEMMA AtRest ==
    ASSUME IInv, Rest
    PROVE  /\ \A p \in Place :
                /\ doc.at = p => disk[p].index # 0 /\ (cut \/ nested \/ doc.ver = disk[p].index)
                /\ lance.at = p => lance.ver = disk[p].topic
                /\ sql.at = p => cut \/ stolen \/ sql.ver = disk[p].topic
                /\ ~stolen /\ disk[p].topic # 0 => lance.at = p
           /\ \A row \in {doc, lance, sql} : row # NoRow => row.at \in Place
  <1>1. ASSUME NEW p \in Place
        PROVE  /\ Filed(p) /\ queue[Index(p)] = "none" /\ job[Index(p)].pc = "idle"
               /\ queue[Topic(p)] = "none" /\ job[Topic(p)].pc = "idle"
    BY PlaceIs, Parts DEF Lagging, Rest, Settled
  <1>2. ASSUME NEW p \in Place
        PROVE  /\ doc.at = p => disk[p].index # 0 /\ (cut \/ nested \/ doc.ver = disk[p].index)
               /\ lance.at = p => lance.ver = disk[p].topic
               /\ sql.at = p => cut \/ stolen \/ sql.ver = disk[p].topic
               /\ ~stolen /\ disk[p].topic # 0 => lance.at = p
    BY <1>1 DEF Filed, DocMirrors, LanceMirrors, SqlMirrors, Searchable, Waits
  <1>3. {doc, lance, sql} \subseteq Row
    BY Parts DEF TypeOK
  <1>4. QED
    BY <1>2, <1>3, RowIs

\* At rest no row shows what its file does not say, whatever was moved, replaced, failed
\* or crashed before.
THEOREM RowsCorrect == Spec => []RowsMirrorTheirFiles
  <1>1. ASSUME IInv PROVE RowsMirrorTheirFiles
    <2> SUFFICES ASSUME Rest
                 PROVE  /\ Agrees(lance, "topic")
                        /\ doc # NoRow => Content(disk, <<doc.at, "index">>) # 0
                        /\ cut \/ nested \/ Agrees(doc, "index")
                        /\ cut \/ stolen \/ Agrees(sql, "topic")
      BY DEF RowsMirrorTheirFiles
    <2>1. ASSUME NEW row \in {doc, lance, sql}, row # NoRow
          PROVE  /\ row.at \in Place
                 /\ Content(disk, <<row.at, "index">>) = disk[row.at].index
                 /\ Content(disk, <<row.at, "topic">>) = disk[row.at].topic
      BY <1>1, <2>1, AtRest, ContentIs DEF Index, Topic
    <2>2. Agrees(lance, "topic")
      BY <1>1, <2>1, AtRest DEF Agrees
    <2>3. doc # NoRow => Content(disk, <<doc.at, "index">>) # 0
      BY <1>1, <2>1, AtRest
    <2>4. cut \/ nested \/ Agrees(doc, "index")
      BY <1>1, <2>1, AtRest DEF Agrees
    <2>5. cut \/ stolen \/ Agrees(sql, "topic")
      BY <1>1, <2>1, AtRest DEF Agrees
    <2>6. QED
      BY <2>2, <2>3, <2>4, <2>5
  <1>2. QED
    BY <1>1, Always, PTL

\* At rest every topic file is in LanceDB under its own directory, also after a handler
\* that was cut between its two writes or gave up, unless one took the LanceDB row of
\* another directory for its own.
THEOREM SearchableCorrect == Spec => []CutTopicsAreSearchable
  <1>1. ASSUME IInv PROVE CutTopicsAreSearchable
    BY <1>1, AtRest DEF CutTopicsAreSearchable
  <1>2. QED
    BY <1>1, Always, PTL

\* A complete copy of a document that a client was told of is on disk at every moment,
\* whatever fails or crashes, unless a replacement went by a row of the wrong place.
THEOREM VanishesCorrect == Spec => []NothingVanishes
  <1>1. ASSUME IInv PROVE NothingVanishes
    <2>1. Told => \E p \in Place : Whole(disk[p])
      BY <1>1, Parts DEF Kept
    <2>2. \A p \in Place : Whole(disk[p]) => Copies(p) # {}
      BY <1>1, Parts, ReqIs, CopiesIs
    <2>3. QED
      BY <2>1, <2>2 DEF NothingVanishes, Told
  <1>2. QED
    BY <1>1, Always, PTL

=============================================================================
