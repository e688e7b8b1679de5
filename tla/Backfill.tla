------------------------------- MODULE Backfill -------------------------------
(***************************************************************************)
(* `everos cascade backfill`: what a deployment that began without an      *)
(* embedding provider is missing once it has one.  Phase 1 embeds the rows *)
(* that have no vector, phase 2 replays the clustering of every item and   *)
(* phase 3 the skill extraction of every clustered case, each in an engine *)
(* of its own.  The server, its cascade, and `cascade sync` go on beside   *)
(* the command: only an engine holds the lock, and the command probes it.  *)
(***************************************************************************)
EXTENDS Skills

CONSTANTS
    Old,        \* items from before there was an embedding provider
    Edited,     \* bound: items whose entries are edited
    MaxVersion, \* bound: versions of an entry's text
    MaxStarts   \* bound: servers and commands started

ASSUME BackfillAssumption == Old \cup Edited \subseteq Items /\ MaxVersion \in Nat \ {0} /\ MaxStarts \in Nat

VARIABLES
    text,   \* version of the entry in its file, 0: none
    row,    \* LanceDB row of the item
    tier,   \* an embedding provider is configured
    starts,
    cli,    \* the command
    chased  \* history: items whose row was rewritten while phase 1 worked on it

bvars == <<text, row, tier, starts, cli, chased>>
vars == <<members, count, skill, indexed, run, engine, embeds, faults, redone, lost, asked,
          text, row, tier, starts, cli, chased>>
skills == <<store, run, process, faults, history>>

-----------------------------------------------------------------------------
NoRow == [text |-> 0, vec |-> 0, sub |-> 0]

\* Only episodes carry a subject, with a vector of its own.
HasSubject(i) == i \in Episodes

Phases == <<"vectors", "clusters", "skills">>
Selected == {Phases} \cup {<<Phases[k]>> : k \in 1..3}

\* found is what a scan read, files the skills at the probe that nobody has rewritten; sides are the embeddings of a
\* row the provider gave, met the items (of a cluster, in phase 3) to write or emit, left those
\* that remain, missed says that a sync failed for a file.
NoCli == [pc |-> "idle", able |-> FALSE, todo |-> <<>>, found |-> [i \in Items |-> NoRow],
          files |-> [n \in Names |-> NoSkill], sides |-> [i \in Items |-> {}],
          met |-> {}, left |-> {}, failed |-> FALSE, missed |-> FALSE, exit |-> "none"]

Init ==
    /\ SkillsInit
    /\ text = [i \in Items |-> IF i \in Old THEN 1 ELSE 0]
    /\ row = [i \in Items |-> [NoRow EXCEPT !.text = text[i]]]
    /\ tier \in BOOLEAN /\ starts = 0
    /\ cli = NoCli /\ chased = {}

Phase == Head(cli.todo)
Exit(code) == [NoCli EXCEPT !.exit = code]

\* The next phase, or the end: the exit code tells whether rows of phase 1 failed.
NextPhase(failed) ==
    IF Len(cli.todo) > 1
    THEN [cli EXCEPT !.pc = "probe", !.todo = Tail(@), !.met = {}, !.left = {},
                      !.failed = failed]
    ELSE IF failed THEN Exit("failures")
    ELSE [cli EXCEPT !.pc = "idle", !.left = {}, !.exit = "success"]

-----------------------------------------------------------------------------
(* The server, and the files *)

Start == starts < MaxStarts /\ starts' = starts + 1

Boot ==
    /\ Start
    /\ Opened("server", tier, TRUE)
    /\ UNCHANGED <<faults, text, row, tier, cli, chased>>

\* A shutdown whose drain times out, or a crash; an orderly one cuts nothing.
Halt ==
    /\ engine = "server"
    /\ IF Active = {} THEN UNCHANGED faults ELSE Fault
    /\ Cut
    /\ UNCHANGED bvars

\* The pipeline appends an entry and emits EpisodeExtracted or AgentCaseExtracted.
Extract(i) ==
    /\ engine = "server" /\ text[i] = 0 /\ Free # {}
    /\ text' = [text EXCEPT ![i] = 1]
    /\ run' = Enqueued(run, "group", i, None, TRUE)
    /\ UNCHANGED <<store, process, faults, history, row, tier, starts, cli, chased>>

Edit(i) ==
    /\ i \in Edited /\ text[i] \in 1..(MaxVersion - 1)
    /\ text' = [text EXCEPT ![i] = @ + 1]
    /\ UNCHANGED <<skills, row, tier, starts, cli, chased>>

\* Mutant: an edited entry keeps the vectors of its row.
IndexText(i) ==
    /\ row[i].text # text[i]
    /\ row' = [row EXCEPT ![i].text = text[i]]
    /\ UNCHANGED <<skills, text, tier, starts, cli, chased>>

\* The handler rebuilds a row whose text changed, in the server or in `cascade sync`, with
\* the vectors its process can make.
Index(i) ==
    LET able == IF engine = "server" THEN embeds ELSE tier
        v == IF able THEN text[i] ELSE 0
    IN  /\ row[i].text # text[i]
        /\ row' = [row EXCEPT ![i] = [text |-> text[i], vec |-> v,
                                      sub |-> IF HasSubject(i) THEN v ELSE 0]]
        /\ chased' = IF cli.pc \in {"confirm", "write"} /\ Phase = "vectors" /\ <<i, None>> \in cli.left
                     THEN chased \cup {i} ELSE chased
        /\ UNCHANGED <<skills, text, tier, starts, cli>>

-----------------------------------------------------------------------------
(* The command *)

Invoke(phases) ==
    /\ cli.pc = "idle" /\ Start
    /\ cli' = [NoCli EXCEPT !.pc = "probe", !.able = tier, !.todo = phases]
    /\ UNCHANGED <<skills, text, row, tier, chased>>

\* get_embedding_capability and _probe_ome_lock_available.
Probe ==
    /\ cli.pc = "probe"
    /\ cli' = IF ~cli.able THEN Exit("unconfigured")
              ELSE IF engine # "off" THEN Exit("locked")
              ELSE [cli EXCEPT !.pc = IF Phase = "skills" THEN "sync" ELSE "scan",
                               !.files = skill]
    /\ UNCHANGED <<skills, text, row, tier, starts, chased>>

\* _null_filter and _extract_row.
Needs(r, i) == (IF r.vec = 0 THEN {"vec"} ELSE {})
               \cup (IF HasSubject(i) /\ r.sub = 0 THEN {"sub"} ELSE {})

Clustered(i) == \E c \in Clusters : i \in members[c]

\* _scan_skill_source: a cluster with a row or a file of a skill is skipped as a whole.
Untaught == {c \in Clusters : /\ \A n \in Names : indexed[n] # c
                              /\ FilesOf(c) = {}}

Backlog ==
    CASE Phase = "vectors"  -> {i \in Items : row[i].text # 0 /\ Needs(row[i], i) # {}} \X {None}
      [] Phase = "clusters" -> {i \in Items : row[i].text # 0} \X {None}
      [] Phase = "skills"   -> {m \in Cases \X Untaught : m[1] \in members[m[2]]}

\* The prompt shows what the scan found; nothing found ends the phase.
Scan ==
    /\ cli.pc = "scan"
    /\ cli' = [(IF Backlog = {} THEN NextPhase(cli.failed)
                ELSE [cli EXCEPT !.pc = "confirm", !.left = Backlog])
                   EXCEPT !.found = row, !.met = Backlog]
    /\ UNCHANGED <<skills, text, row, tier, starts, chased>>

Decline ==
    /\ cli.pc = "confirm"
    /\ cli' = Exit("declined")
    /\ UNCHANGED <<skills, text, row, tier, starts, chased>>

\* Ctrl-C or a kill; an engine of the command stops with it.
Interrupt ==
    /\ cli.pc # "idle"
    /\ Fault
    /\ cli' = Exit("interrupted")
    /\ IF engine \in {"phase2", "phase3"} THEN Cut ELSE UNCHANGED <<store, run, process, history>>
    /\ UNCHANGED <<text, row, tier, starts, chased>>

-----------------------------------------------------------------------------
(* Phase 1 *)

\* _embed_primary_batch and _embed_subject_batch: both sides of the batch, and what a
\* side that fails for a row leaves out.
Embed ==
    /\ cli.pc = "confirm" /\ Phase = "vectors"
    /\ LET wanted == [i \in Items |-> IF <<i, None>> \in cli.left THEN Needs(cli.found[i], i) ELSE {}]
       IN  \/ /\ cli' = [cli EXCEPT !.pc = "write", !.sides = wanted]
              /\ UNCHANGED faults
           \/ \E i \in Items : \E side \in wanted[i] :
                /\ Fault
                /\ cli' = [cli EXCEPT !.pc = "write", !.sides = [wanted EXCEPT ![i] = @ \ {side}],
                                      !.failed = @ \/ side = "vec"]
    /\ UNCHANGED <<store, run, process, history, text, row, tier, starts, chased>>

\* Mutant: only the primary side counts.
PrimaryGap(i) == "vec" \in Needs(cli.found[i], i) \ cli.sides[i]

\* A row of which a side is still missing counts as failed.  A row without any update is
\* passed over first, and was counted by then only if its primary side failed.
SideGap(i) == cli.sides[i] # {} /\ cli.sides[i] # Needs(cli.found[i], i)

\* repo.update of the missing columns of one row, where id = ...: the vectors of the text
\* that was scanned.
UpdateRow(i) ==
    /\ cli.pc = "write" /\ <<i, None>> \in cli.left
    /\ \/ /\ row' = [row EXCEPT
                       ![i].vec = IF "vec" \in cli.sides[i] THEN cli.found[i].text ELSE @,
                       ![i].sub = IF "sub" \in cli.sides[i] THEN cli.found[i].text ELSE @]
          /\ cli' = [cli EXCEPT !.left = @ \ {<<i, None>>}, !.failed = @ \/ SideGap(i)]
          /\ UNCHANGED faults
       \/ /\ Fault /\ cli.sides[i] # {}
          /\ cli' = [cli EXCEPT !.left = @ \ {<<i, None>>}, !.failed = TRUE]
          /\ UNCHANGED row
    /\ UNCHANGED <<store, run, process, history, text, tier, starts, chased>>

VectorsDone ==
    /\ cli.pc = "write" /\ cli.left = {}
    /\ cli' = NextPhase(cli.failed)
    /\ UNCHANGED <<skills, text, row, tier, starts, chased>>

-----------------------------------------------------------------------------
(* Phases 2 and 3 *)

\* engine.start: a server may have taken the lock since the probe.
StartEngine ==
    /\ cli.pc = "confirm" /\ Phase # "vectors"
    /\ IF engine # "off"
       THEN cli' = Exit("locked") /\ UNCHANGED <<store, run, process, history>>
       ELSE /\ Opened(IF Phase = "clusters" THEN "phase2" ELSE "phase3", TRUE, FALSE)
            /\ cli' = [cli EXCEPT !.pc = "emit"]
    /\ UNCHANGED <<faults, text, row, tier, starts, chased>>

\* Mutant: without the look at find_cluster_id_for_member.
EmitAny(i) ==
    /\ cli.pc = "emit" /\ Phase = "clusters" /\ <<i, None>> \in cli.left
    /\ Free # {}
    /\ run' = Enqueued(run, "group", i, None, TRUE)
    /\ cli' = [cli EXCEPT !.left = @ \ {<<i, None>>}]
    /\ UNCHANGED <<store, process, faults, history, text, row, tier, starts, chased>>

\* _emit_synthetic_events: an item that is in a cluster by now is passed over.
EmitItem(i) ==
    /\ cli.pc = "emit" /\ Phase = "clusters" /\ <<i, None>> \in cli.left
    /\ i \in Cases => cli.left \cap (Episodes \X {None}) = {}
    /\ Clustered(i) \/ Free # {}
    /\ run' = IF Clustered(i) THEN run ELSE Enqueued(run, "group", i, None, TRUE)
    /\ cli' = [cli EXCEPT !.left = @ \ {<<i, None>>}]
    /\ UNCHANGED <<store, process, faults, history, text, row, tier, starts, chased>>

\* _skill_source_to_event: the case by its id, without the body.
EmitSource(i, c) ==
    /\ cli.pc = "emit" /\ Phase = "skills" /\ <<i, c>> \in cli.left
    /\ Free # {}
    /\ run' = Enqueued(run, "teach", i, c, FALSE)
    /\ cli' = [cli EXCEPT !.left = @ \ {<<i, c>>}]
    /\ UNCHANGED <<store, process, faults, history, text, row, tier, starts, chased>>

\* wait_idle and engine.stop; when the wait times out, the runs are cut and the phase
\* goes on all the same.
Drained ==
    /\ cli.pc = "emit" /\ cli.left = {}
    /\ IF Active = {} THEN UNCHANGED faults ELSE Fault
    /\ Cut
    /\ cli' = IF Phase = "skills" THEN [cli EXCEPT !.pc = "resync"] ELSE NextPhase(cli.failed)
    /\ UNCHANGED <<text, row, tier, starts, chased>>

\* _sync_new_skill_files, before the scan and after the drain: sync_once of the kind; a
\* file whose handler fails stays behind.
Sync ==
    /\ cli.pc \in {"sync", "resync"}
    /\ LET next == IF cli.pc = "sync" THEN [cli EXCEPT !.pc = "scan"] ELSE NextPhase(cli.failed) IN
       \/ /\ indexed' = [n \in Names |-> skill[n].cluster]
          /\ cli' = next
          /\ UNCHANGED faults
       \/ /\ Fault
          /\ cli' = [next EXCEPT !.missed = TRUE]
          /\ UNCHANGED indexed
    /\ UNCHANGED <<members, count, skill, run, process, history, text, row, tier, starts, chased>>

\* A step of a run, and the skills of the last probe that it leaves as they were.
Runs(r) ==
    /\ Running(r)
    /\ cli' = [cli EXCEPT !.files = [n \in Names |-> IF skill'[n] = skill[n] THEN @[n]
                                                     ELSE NoSkill]]
    /\ UNCHANGED <<text, row, tier, starts, chased>>

-----------------------------------------------------------------------------
Next ==
    \/ Boot \/ Halt
    \/ \E i \in Items : Extract(i) \/ Edit(i) \/ Index(i)
    \/ \E r \in RunIds : Runs(r)
    \/ \E n \in Names : IndexSkill(n) /\ UNCHANGED bvars
    \/ \E p \in Selected : Invoke(p)
    \/ Probe \/ Scan \/ Decline \/ Interrupt
    \/ Embed \/ VectorsDone \/ StartEngine \/ Drained \/ Sync
    \/ \E i \in Items : UpdateRow(i) \/ EmitItem(i) \/ \E c \in Clusters : EmitSource(i, c)

Spec == Init /\ [][Next]_vars

-----------------------------------------------------------------------------
(* Correctness *)

RowType == [text : 0..MaxVersion, vec : 0..MaxVersion, sub : 0..MaxVersion]

CliType == [pc : {"idle", "probe", "sync", "scan", "confirm", "write", "emit", "resync"},
            able : BOOLEAN, todo : Selected \cup {<<>>, <<"clusters", "skills">>},
            found : [Items -> RowType], files : [Names -> SkillType],
            sides : [Items -> SUBSET {"vec", "sub"}],
            met : SUBSET (Items \X (Clusters \cup {None})),
            left : SUBSET (Items \X (Clusters \cup {None})),
            failed : BOOLEAN, missed : BOOLEAN,
            exit : {"none", "success", "declined", "unconfigured", "locked", "failures",
                    "interrupted"}]

TypeOK ==
    /\ SkillsTypeOK
    /\ text \in [Items -> 0..MaxVersion] /\ row \in [Items -> RowType]
    /\ tier \in BOOLEAN /\ starts \in 0..MaxStarts /\ chased \subseteq Items
    /\ cli \in CliType /\ cli.left \subseteq cli.met

\* A vector in the index is one of the text beside it, but for rows that the cascade
\* rewrote between the scan of phase 1 and its update.
VectorsAreOfTheirText ==
    \A i \in Items \ chased : {row[i].vec, row[i].sub} \subseteq {0, row[i].text}

\* What exit code 0 promises of the last phase that ran.
Succeeded(phase) == cli.pc = "idle" /\ cli.exit = "success" /\ Phase = phase

\* Phase 1 leaves no row it saw without a vector ("automation must see a non-zero
\* rows_failed for the exit code to escalate"), but for a row that only lacked its
\* subject's.
VectorsComplete ==
    Succeeded("vectors") =>
        \A i \in Items : \/ row[i].text \notin {cli.found[i].text} \ {0}
                         \/ Needs(row[i], i) = {}
                         \/ Needs(cli.found[i], i) = {"sub"}

\* Phase 2 leaves every item it saw in a cluster, but for those of a poor quality and
\* those whose run failed for good or was cut.
ItemsComplete ==
    Succeeded("clusters") =>
        \A i \in Items \ (Poor \cup lost) : <<i, None>> \in cli.met => Clustered(i)

\* Phase 3 leaves every skill file it met in the index, also when there is no cluster
\* left to extract from: "Running sync unconditionally, before the scan, guarantees those
\* orphans get picked up".
OrphansFound ==
    Succeeded("skills") /\ ~cli.missed =>
        \A n \in Names : Exists(n) /\ skill[n] = cli.files[n] => indexed[n] = skill[n].cluster

ExitZeroMeansDone == VectorsComplete /\ ItemsComplete /\ OrphansFound

\* "extract agent skills from clustered cases": a case of a cluster without a skill that
\* phase 3 replays is put to the extractor, unless its run was lost.
PhaseThreeExtracts ==
    Succeeded("skills") => {m[1] : m \in cli.met} \subseteq Poor \cup lost \cup asked
===============================================================================
