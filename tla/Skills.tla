-------------------------------- MODULE Skills --------------------------------
(***************************************************************************)
(* From episodes and agent cases to clusters and skills, as runs of the    *)
(* offline engine: trigger_profile_clustering and trigger_skill_clustering *)
(* put a new item into a cluster, extract_agent_skill rewrites the SKILL.md*)
(* files of the cluster of a new case, and the cascade indexes the files   *)
(* later.  A run takes the partition lock of its strategy and owner (one   *)
(* owner of each kind here), fails and is retried from its beginning, or   *)
(* is cut by the end of its process.                                       *)
(*                                                                         *)
(* One process at a time holds the engine's lock (ome.db.lock): the server *)
(* or a phase of `cascade backfill` (module Backfill), and runs end with   *)
(* it.  A run whose RUNNING row outlives its process is "stale".  What the *)
(* LLM and the geometry decide is free.                                    *)
(***************************************************************************)
EXTENDS Naturals, FiniteSets, Sequences

CONSTANTS
    Episodes, Cases, \* what the pipelines extract
    Poor,            \* cases of a quality below the threshold 0.2
    Clusters, Names, \* cluster ids; directory names of skills
    None,
    MaxShown,        \* MAX_SKILLS_IN_PROMPT
    MaxOps,          \* bound: operations of one LLM answer
    MaxAttempts,     \* attempts of a run
    MaxRuns,         \* bound: runs at the same time
    MaxFaults        \* bound: failures, timeouts, cuts and crashes

ASSUME SkillsAssumption ==
    /\ Poor \subseteq Cases /\ Episodes \cap Cases = {}
    /\ None \notin Clusters \cup Names
    /\ {MaxShown, MaxAttempts, MaxRuns} \subseteq Nat \ {0}
    /\ {MaxOps, MaxFaults} \subseteq Nat

VARIABLES
    members,    \* cluster_member
    count,      \* cluster.count, 0: no such cluster
    skill,      \* SKILL.md files of the agent
    indexed,    \* cluster_id of the LanceDB rows of agent_skill
    run,
    engine,     \* who holds the engine's lock
    embeds,     \* the embedding capability of that process
    faults,
    redone,     \* history: items whose run started again after it had saved or beside a stale one
    lost,       \* history: items with a run that died or was cut
    asked       \* history: cases the extractor asked the LLM about

store == <<members, count, skill, indexed>>
process == <<engine, embeds>>
history == <<redone, lost, asked>>

-----------------------------------------------------------------------------
Items == Episodes \cup Cases
RunIds == 1..MaxRuns

\* Items that are clustered together, under the lock of one owner.
Kin(i) == IF i \in Cases THEN Cases ELSE Episodes

NoSkill == [cluster |-> None, cites |-> {}]
Exists(n) == skill[n] # NoSkill

NoRun == [pc |-> "none", kind |-> "group", item |-> None, cluster |-> None, full |-> FALSE,
          attempt |-> 0, ops |-> <<>>, wrote |-> {}, clash |-> FALSE]

SkillsInit ==
    /\ members = [c \in Clusters |-> {}]
    /\ count = [c \in Clusters |-> 0]
    /\ skill = [n \in Names |-> NoSkill]
    /\ indexed = [n \in Names |-> None]
    /\ run = [r \in RunIds |-> NoRun]
    /\ engine = "off" /\ embeds = FALSE
    /\ faults = 0
    /\ redone = {} /\ lost = {} /\ asked = {}

Fault == faults < MaxFaults /\ faults' = faults + 1

-----------------------------------------------------------------------------
(* The engine *)

Registered == CASE engine = "server" -> {"group", "teach"}
                [] engine = "phase2" -> {"group"}
                [] engine = "phase3" -> {"teach"}
                [] OTHER             -> {}

Active == {r \in RunIds : run[r].pc \notin {"none", "stale"}}
Free == {r \in RunIds : run[r].pc = "none"}

\* emit: a run of the strategy that listens, if the engine has it.
Enqueued(R, kind, i, c, full) ==
    IF kind \notin Registered THEN R
    ELSE LET new == CHOOSE r \in RunIds : R[r].pc = "none"
         IN  [R EXCEPT ![new] = [NoRun EXCEPT !.pc = "queued", !.kind = kind, !.item = i,
                                              !.cluster = c, !.full = full]]

\* A run that has begun leaves a RUNNING row; one that waits is forgotten.
Began(r) == run[r].pc \in {"saved", "write", "reap"}
CutRuns(begun) ==
    [r \in RunIds |-> IF r \notin Active THEN run[r]
                      ELSE IF r \in begun THEN [run[r] EXCEPT !.pc = "stale"] ELSE NoRun]

\* The end of a process or the shutdown of its engine.
Cut ==
    /\ \E begun \in SUBSET Active :
         /\ \A r \in Active : Began(r) => r \in begun
         /\ run' = CutRuns(begun)
    /\ lost' = lost \cup {run[r].item : r \in Active}
    /\ redone' = redone \cup {run[r].item : r \in Active}
    /\ engine' = "off"
    /\ UNCHANGED <<embeds, store, asked>>

\* start(), for the server with scan_and_resume: its stale runs begin again.
Opened(who, able, resumes) ==
    /\ engine = "off"
    /\ engine' = who /\ embeds' = able
    /\ run' = [r \in RunIds |->
                 IF resumes /\ run[r].pc = "stale"
                 THEN [run[r] EXCEPT !.pc = "queued", !.ops = <<>>, !.wrote = {},
                                     !.clash = FALSE]
                 ELSE run[r]]
    /\ UNCHANGED <<store, history>>

-----------------------------------------------------------------------------
(* The clustering strategies *)

\* The body guard of a process without embedding, and the quality gates: a synthetic
\* event of phase 3 has no body, and quality_score is then 0.0.
GatedOff(r) ==
    \/ ~embeds
    \/ run[r].kind = "group" /\ run[r].item \in Poor
    \/ run[r].kind = "teach" /\ (~run[r].full \/ run[r].item \in Poor)

Skip(r) ==
    /\ run[r].pc = "queued" /\ GatedOff(r)
    /\ run' = [run EXCEPT ![r] = NoRun]
    /\ UNCHANGED <<store, process, faults, history>>

\* Another run holds the partition lock of this one.
Locked(r) ==
    \E q \in Active \ {r} : /\ run[q].pc # "queued"
                            /\ run[q].kind = run[r].kind
                            /\ Kin(run[q].item) = Kin(run[r].item)

\* list_for_owner, cluster_by_llm or cluster_by_geometry, upsert_with_members.
Save(r, c) ==
    LET i == run[r].item IN
    /\ run[r].pc = "queued" /\ run[r].kind = "group" /\ ~GatedOff(r) /\ ~Locked(r)
    /\ members[c] \subseteq Kin(i)
    /\ members' = [members EXCEPT ![c] = @ \cup {i}]
    /\ count' = [count EXCEPT ![c] = @ + 1]
    /\ run' = [run EXCEPT ![r].pc = "saved", ![r].cluster = c]
    /\ UNCHANGED <<skill, indexed, process, faults, history>>

\* ctx.emit: SkillClusterUpdated with the case's body, for a case.
Emit(r) ==
    /\ run[r].pc = "saved"
    /\ run' = LET ended == [run EXCEPT ![r] = NoRun] IN
              IF run[r].item \in Cases
              THEN Enqueued(ended, "teach", run[r].item, run[r].cluster, TRUE)
              ELSE ended
    /\ UNCHANGED <<store, process, faults, history>>

-----------------------------------------------------------------------------
(* extract_agent_skill *)

\* list_by_cluster: the files, not the index.
FilesOf(c) == {n \in Names : Exists(n) /\ skill[n].cluster = c}

\* What the prompt shows: all of them, or the most relevant.
Selections(c) ==
    IF Cardinality(FilesOf(c)) <= MaxShown THEN {FilesOf(c)}
    ELSE {S \in SUBSET FilesOf(c) : Cardinality(S) = MaxShown}

\* An operation adds a skill or updates (and may rename) a shown one; the case joins
\* the sources of the skill it touches.
Cites(prior, i) == (IF prior = None THEN {} ELSE skill[prior].cites) \cup {i}
Op(i, shown) == {[prior |-> p, name |-> n, cites |-> Cites(p, i)] : p \in shown \cup {None}, n \in Names}

\* processed_indices: no skill is updated twice by one answer.
Answers(i, shown) ==
    {s \in UNION {[1..k -> Op(i, shown)] : k \in 0..MaxOps} :
        \A j, k \in DOMAIN s : j # k /\ s[j].prior = s[k].prior => s[j].prior = None}

\* The skills of the cluster are read and the LLM answers.
Ask(r) ==
    LET i == run[r].item IN
    /\ run[r].pc = "queued" /\ run[r].kind = "teach" /\ ~GatedOff(r) /\ ~Locked(r)
    /\ \E shown \in Selections(run[r].cluster) : \E ops \in Answers(i, shown) :
         run' = IF ops = <<>> THEN [run EXCEPT ![r] = NoRun]
                ELSE [run EXCEPT ![r].pc = "write", ![r].ops = ops]
    /\ asked' = asked \cup {i}
    /\ UNCHANGED <<store, process, faults, redone, lost>>

\* _persist_skill: the file of that name is replaced in full.
Write(r) ==
    LET op == Head(run[r].ops) IN
    /\ run[r].pc = "write"
    /\ skill' = [skill EXCEPT ![op.name] = [cluster |-> run[r].cluster, cites |-> op.cites]]
    /\ run' = [run EXCEPT ![r].ops = Tail(@), ![r].wrote = @ \cup {<<op.prior, op.name>>},
                          ![r].clash = @ \/ (Exists(op.name) /\ op.name # op.prior),
                          ![r].pc = IF Len(run[r].ops) = 1 THEN "reap" ELSE "write"]
    /\ UNCHANGED <<members, count, indexed, process, faults, history>>

\* Mutant: a skill that no operation renamed is reaped too.
RenamedOrUntouched(r) ==
    {p \in FilesOf(run[r].cluster) : \A w \in run[r].wrote : w[2] # p}

\* _reap_renamed_skills: directories that an update left for a new name, unless another
\* operation has just taken the name.
Renamed(r) ==
    {p \in Names : /\ Exists(p)
                   /\ \E w \in run[r].wrote : w[1] = p /\ w[2] # p
                   /\ \A w \in run[r].wrote : w[2] # p}

Reap(r) ==
    /\ run[r].pc = "reap"
    /\ \/ /\ \E p \in Renamed(r) : skill' = [skill EXCEPT ![p] = NoSkill]
          /\ UNCHANGED run
       \/ /\ Renamed(r) = {}
          /\ run' = [run EXCEPT ![r] = NoRun]
          /\ UNCHANGED skill
    /\ UNCHANGED <<members, count, indexed, process, faults, history>>

-----------------------------------------------------------------------------
(* Failures, and the cascade *)

\* The LLM, the embedder, SQLite, a file or the engine fails: the run begins again, the
\* last attempt goes to the dead letters.
RunFails(r) ==
    LET n == run[r].attempt + 1 IN
    /\ r \in Active /\ ~(run[r].pc = "queued" /\ GatedOff(r))
    /\ Fault
    /\ run' = [run EXCEPT ![r] =
                 IF n = MaxAttempts THEN NoRun
                 ELSE [@ EXCEPT !.pc = "queued", !.attempt = n, !.ops = <<>>, !.wrote = {},
                                !.clash = FALSE]]
    /\ lost' = IF n = MaxAttempts THEN lost \cup {run[r].item} ELSE lost
    /\ redone' = IF run[r].pc = "saved" THEN redone \cup {run[r].item} ELSE redone
    /\ UNCHANGED <<store, process, asked>>

\* The agent_skill handler, in the server or in `cascade sync`.
IndexSkill(n) ==
    /\ indexed[n] # skill[n].cluster
    /\ indexed' = [indexed EXCEPT ![n] = skill[n].cluster]
    /\ UNCHANGED <<members, count, skill, run, process, faults, history>>

Running(r) ==
    \/ Skip(r) \/ Emit(r) \/ Ask(r) \/ Write(r) \/ Reap(r) \/ RunFails(r)
    \/ \E c \in Clusters : Save(r, c)

-----------------------------------------------------------------------------
(* Correctness *)

RunType == [pc : {"none", "queued", "saved", "write", "reap", "stale"},
            kind : {"group", "teach"}, item : Items \cup {None},
            cluster : Clusters \cup {None}, full : BOOLEAN, attempt : 0..(MaxAttempts - 1),
            ops : Seq([prior : Names \cup {None}, name : Names, cites : SUBSET Cases]),
            wrote : SUBSET ((Names \cup {None}) \X Names), clash : BOOLEAN]

SkillType == [cluster : Clusters \cup {None}, cites : SUBSET Cases]

SkillsTypeOK ==
    /\ members \in [Clusters -> SUBSET Items]
    /\ \A c \in Clusters : members[c] \subseteq Episodes \/ members[c] \subseteq Cases
    /\ count \in [Clusters -> Nat]
    /\ skill \in [Names -> SkillType]
    /\ indexed \in [Names -> Clusters \cup {None}]
    /\ run \in [RunIds -> RunType]
    /\ engine \in {"off", "server", "phase2", "phase3"} /\ embeds \in BOOLEAN
    /\ faults \in 0..MaxFaults
    /\ redone \subseteq Items /\ lost \subseteq Items /\ asked \subseteq Cases

\* "Idempotent: rerunning the phase skips rows already attached to a cluster. Cluster
\* counts stop growing spuriously across reruns" (_backfill.py): an item is in one cluster
\* and counts once, unless its own run was repeated.
ClusteredOnce ==
    /\ \A c, d \in Clusters : members[c] \cap members[d] \subseteq redone \/ c = d
    /\ \A c \in Clusters : members[c] \cap redone = {} => count[c] = Cardinality(members[c])

\* A case that a skill of a cluster cites stays cited by one, through updates, renames
\* and the reaping of what they leave behind, at whatever point they are cut, unless the
\* answer names a file that it does not update.
Cited(c, i) == \E n \in Names : skill[n].cluster = c /\ i \in skill[n].cites
Clashing == \E r \in Active :
    \/ run[r].clash
    \/ /\ run[r].pc = "write"
       /\ LET op == Head(run[r].ops) IN Exists(op.name) /\ op.name # op.prior
LessonsStay ==
    [][\A c \in Clusters, i \in Cases : Cited(c, i) => Cited(c, i)' \/ Clashing]_skill
=============================================================================
