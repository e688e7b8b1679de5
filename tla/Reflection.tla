------------------------------ MODULE Reflection ------------------------------
(***************************************************************************)
(* The episodes of one owner after they are written: the cascade indexes   *)
(* them, trigger_profile_clustering puts each into a cluster, and          *)
(* reflection (memory/reflection/orchestrator.py) replaces the members of  *)
(* a cluster by one merged episode: it reads members and rows, writes the  *)
(* merged entry, waits for its extraction, and then deprecates what it     *)
(* merged in the files, in LanceDB and in the cluster, one store after the *)
(* other.                                                                  *)
(*                                                                         *)
(* Clustering runs of an owner exclude each other by the partition lock    *)
(* "trigger_profile_clustering"; a reflection takes another lock, so the   *)
(* two interleave.  A cluster is nearest or not to a vector as it may be:  *)
(* the choice is free.  Reflection is one weekly run, cluster by cluster.  *)
(***************************************************************************)
EXTENDS Naturals, FiniteSets

CONSTANTS
    Episodes,        \* entries the pipeline writes
    Merged,          \* entries reflection can write
    Clusters,        \* ids
    None,
    MaxAttempts,     \* attempts of a clustering run, 1 + max_retries
    MaxReflections,  \* bound: clusters reflected on
    MaxFaults        \* bound: failures, timeouts and crashes

ASSUME ReflectionAssumption ==
    /\ Episodes \cap Merged = {} /\ None \notin Clusters
    /\ IsFiniteSet(Episodes \cup Merged)
    /\ MaxAttempts \in Nat \ {0}
    /\ {MaxReflections, MaxFaults} \subseteq Nat

VARIABLES
    text,       \* the episodes whose content an entry has; none: not written
    ended,      \* deprecated_entries of the files
    row,        \* rows of the LanceDB table episode
    members,    \* cluster_member
    count,      \* cluster.count, 0: no such cluster
    run,        \* the clustering run of each episode
    ref,        \* the reflection
    reflections, faults,
    left,       \* history: members deprecated that their reflection had not merged
    raced,      \* history: clusters where a clustering run fell into a reflection or the reverse
    redone,     \* history: episodes whose run was repeated after it had saved, and the clusters
    torn        \* history: a reflection ended between its first and its last write

vars == <<text, ended, row, members, count, run, ref, reflections, faults,
          left, raced, redone, torn>>
history == <<left, raced, redone, torn>>
counts == <<reflections, faults>>

-----------------------------------------------------------------------------
Entry == Episodes \cup Merged
RunPc == {"none", "queued", "listed", "saved", "done", "dead"}
RefPc == {"idle", "fetch", "merge", "wait", "resolve", "patch", "hide", "remove",
          "add", "metadata"}

NoRun == [pc |-> "none", attempt |-> 0, seen |-> [c \in Clusters |-> {}],
          size |-> [c \in Clusters |-> 0], saved |-> None]
NoRef == [pc |-> "idle", cluster |-> None, had |-> {}, read |-> {}, used |-> {},
          merged |-> None, out |-> {}]

Init ==
    /\ text = [x \in Entry |-> {}]
    /\ ended = {}
    /\ row = [x \in Entry |-> "none"]
    /\ members = [c \in Clusters |-> {}]
    /\ count = [c \in Clusters |-> 0]
    /\ run = [e \in Episodes |-> NoRun]
    /\ ref = NoRef
    /\ reflections = 0 /\ faults = 0
    /\ left = {} /\ raced = {} /\ redone = {} /\ torn = FALSE

Fault == faults < MaxFaults /\ faults' = faults + 1 /\ UNCHANGED reflections

-----------------------------------------------------------------------------
(* The pipeline and the cascade *)

\* An episode is written and EpisodeExtracted emitted.
Extract(e) ==
    /\ text[e] = {}
    /\ text' = [text EXCEPT ![e] = {e}]
    /\ run' = [run EXCEPT ![e].pc = "queued"]
    /\ UNCHANGED <<ended, row, members, count, ref, counts, history>>

\* The daily-log handler: a row for an entry that has none, then the deprecations of
\* the frontmatter.
Index(x) ==
    /\ text[x] # {}
    /\ row[x] = "none" \/ (row[x] = "live" /\ x \in ended)
    /\ row' = [row EXCEPT ![x] = IF x \in ended THEN "deprecated" ELSE "live"]
    /\ UNCHANGED <<text, ended, members, count, run, ref, counts, history>>

-----------------------------------------------------------------------------
(* trigger_profile_clustering *)

Locked == \E e \in Episodes : run[e].pc \in {"listed", "saved"}

\* Mutant: no partition lock.
ListUnlocked(e) ==
    /\ run[e].pc = "queued"
    /\ run' = [run EXCEPT ![e].pc = "listed", ![e].seen = members, ![e].size = count]
    /\ UNCHANGED <<text, ended, row, members, count, ref, counts, history>>

\* The lock, the embedding, list_for_owner.
List(e) ==
    /\ run[e].pc = "queued" /\ ~Locked
    /\ run' = [run EXCEPT ![e].pc = "listed", ![e].seen = members, ![e].size = count]
    /\ UNCHANGED <<text, ended, row, members, count, ref, counts, history>>

\* cluster_by_geometry finds a cluster among those listed, or one is minted;
\* upsert_with_members writes the count and adds the members that are not there.
Save(e, c) ==
    LET r == run[e] IN
    /\ r.pc = "listed"
    /\ r.size[c] > 0 \/ count[c] = 0
    /\ count' = [count EXCEPT ![c] = r.size[c] + 1]
    /\ members' = [members EXCEPT ![c] = @ \cup r.seen[c] \cup {e}]
    /\ run' = [run EXCEPT ![e].pc = "saved", ![e].saved = c]
    /\ raced' = raced \cup ({c} \cap {ref.cluster})
    /\ UNCHANGED <<text, ended, row, ref, counts, left, redone, torn>>

\* ctx.emit(ProfileClusterUpdated), the end of the run and of the lock.
Emit(e) ==
    /\ run[e].pc = "saved"
    /\ run' = [run EXCEPT ![e] = [NoRun EXCEPT !.pc = "done"]]
    /\ UNCHANGED <<text, ended, row, members, count, ref, counts, history>>

\* A failed attempt is retried from the start, the last one goes to the dead letters.
RunFails(e) ==
    LET n == run[e].attempt + 1 IN
    /\ run[e].pc \in {"listed", "saved"}
    /\ Fault
    /\ run' = [run EXCEPT ![e] = [NoRun EXCEPT !.attempt = n,
                                  !.pc = IF n < MaxAttempts THEN "queued" ELSE "dead"]]
    /\ redone' = IF run[e].saved = None THEN redone ELSE redone \cup {e, run[e].saved}
    /\ UNCHANGED <<text, ended, row, members, count, ref, left, raced, torn>>

-----------------------------------------------------------------------------
(* Reflection on one cluster *)

Next1(pc) == ref' = [ref EXCEPT !.pc = pc]
Started == ref.pc \in {"hide", "remove", "add", "metadata"}

\* _select_candidates, get_members_with_type
Reflect(c) ==
    /\ ref.pc = "idle" /\ reflections < MaxReflections
    /\ Cardinality(members[c]) >= 2
    /\ reflections' = reflections + 1
    /\ ref' = [NoRef EXCEPT !.pc = "fetch", !.cluster = c, !.had = members[c]]
    /\ UNCHANGED <<text, ended, row, members, count, run, faults, history>>

\* find_by_owner_entries: the members that have rows, deprecated or not.
Fetch ==
    LET found == {x \in ref.had : row[x] # "none"} IN
    /\ ref.pc = "fetch"
    /\ ref' = IF found = {} THEN NoRef ELSE [ref EXCEPT !.pc = "merge", !.read = found]
    /\ UNCHANGED <<text, ended, row, members, count, run, counts, history>>

\* areflect, _write_merged_episode and the event for its extraction: everything read is
\* merged, or what is new and the first merged episode of the cluster.
WriteMerged(m) ==
    LET old == ref.read \cap Merged
        new == ref.read \ Merged
    IN
    /\ ref.pc = "merge" /\ text[m] = {}
    /\ \E first \in IF old = {} THEN {{}} ELSE {{o} : o \in old} :
         /\ text' = [text EXCEPT ![m] = UNION {text[x] : x \in new \cup first}]
         /\ ref' = [ref EXCEPT !.pc = "wait", !.merged = m, !.used = new \cup first]
    /\ UNCHANGED <<ended, row, members, count, run, counts, history>>

\* wait_for_event
Extracted ==
    /\ ref.pc = "wait"
    /\ Next1("resolve")
    /\ UNCHANGED <<text, ended, row, members, count, run, counts, history>>

\* Mutant: whatever is in the cluster by now.
ResolveAll ==
    /\ ref.pc = "resolve"
    /\ ref' = [ref EXCEPT !.pc = "patch", !.out = members[ref.cluster]]
    /\ UNCHANGED <<text, ended, row, members, count, run, counts, history>>

\* _resolve_deprecation_targets: members in both snapshots.
Resolve ==
    LET both == ref.had \cap members[ref.cluster] IN
    /\ ref.pc = "resolve"
    /\ ref' = IF both = {} THEN NoRef ELSE [ref EXCEPT !.pc = "patch", !.out = both]
    /\ UNCHANGED <<text, ended, row, members, count, run, counts, history>>

\* _patch_md_frontmatter: only for the rows it has read.
Patch ==
    /\ ref.pc = "patch"
    /\ ended' = ended \cup (ref.out \cap ref.read)
    /\ left' = left \cup ((ref.out \cap ref.read) \ ref.used)
    /\ Next1("hide")
    /\ UNCHANGED <<text, row, members, count, run, counts, raced, redone, torn>>

\* _deprecate_lance_episodes: every row there is by now.
Hide ==
    LET gone == {x \in ref.out : row[x] # "none"} IN
    /\ ref.pc = "hide"
    /\ row' = [x \in Entry |-> IF x \in gone THEN "deprecated" ELSE row[x]]
    /\ left' = left \cup ((gone \cap ref.had) \ ref.used)
    /\ Next1("remove")
    /\ UNCHANGED <<text, ended, members, count, run, counts, raced, redone, torn>>

Beside == raced' = raced \cup {c \in {ref.cluster} : \E e \in Episodes : run[e].pc = "listed"}

\* Mutant: it forgets the merged entries of earlier reflections.
RemoveEpisodes ==
    /\ ref.pc = "remove"
    /\ members' = [members EXCEPT ![ref.cluster] = @ \ (ref.out \cap Episodes)]
    /\ Next1("add") /\ Beside
    /\ UNCHANGED <<text, ended, row, count, run, counts, left, redone, torn>>

\* _update_cluster_after_merge: three transactions.
Remove ==
    /\ ref.pc = "remove"
    /\ members' = [members EXCEPT ![ref.cluster] = @ \ ref.out]
    /\ Next1("add") /\ Beside
    /\ UNCHANGED <<text, ended, row, count, run, counts, left, redone, torn>>

Add ==
    /\ ref.pc = "add"
    /\ members' = [members EXCEPT ![ref.cluster] = @ \cup {ref.merged}]
    /\ Next1("metadata") /\ Beside
    /\ UNCHANGED <<text, ended, row, count, run, counts, left, redone, torn>>

Metadata ==
    /\ ref.pc = "metadata"
    /\ count' = [count EXCEPT ![ref.cluster] = 1]
    /\ ref' = NoRef
    /\ Beside
    /\ UNCHANGED <<text, ended, row, members, run, counts, left, redone, torn>>

\* The LLM, the extraction's deadline or a store fails: the cluster is left as it is.
ReflectionFails ==
    /\ ref.pc # "idle"
    /\ Fault
    /\ ref' = NoRef
    /\ torn' = (torn \/ Started)
    /\ UNCHANGED <<text, ended, row, members, count, run, left, raced, redone>>

\* The process dies; the engine's recovery starts the clustering runs again that have a
\* run record, those before it or between two attempts are lost.
Crash ==
    /\ Fault
    /\ \E lost \in SUBSET {e \in Episodes : run[e].pc = "queued"} :
         run' = [e \in Episodes |->
                   IF e \in lost THEN [NoRun EXCEPT !.pc = "dead"]
                   ELSE IF run[e].pc \in {"listed", "saved"} THEN [NoRun EXCEPT !.pc = "queued"]
                   ELSE run[e]]
    /\ redone' = redone \cup UNION {{e, run[e].saved} : e \in {d \in Episodes : run[d].saved # None}}
    /\ ref' = NoRef
    /\ torn' = (torn \/ Started)
    /\ UNCHANGED <<text, ended, row, members, count, left, raced>>

-----------------------------------------------------------------------------
Clustering(e) == List(e) \/ (\E c \in Clusters : Save(e, c)) \/ Emit(e) \/ RunFails(e)

Reflecting ==
    \/ Fetch \/ (\E m \in Merged : WriteMerged(m)) \/ Extracted \/ Resolve \/ Patch
    \/ Hide \/ Remove \/ Add \/ Metadata \/ ReflectionFails

Next ==
    \/ \E e \in Episodes : Extract(e) \/ Clustering(e)
    \/ \E x \in Entry : Index(x)
    \/ \E c \in Clusters : Reflect(c)
    \/ Reflecting
    \/ Crash

Spec == Init /\ [][Next]_vars

-----------------------------------------------------------------------------
(* Properties *)

TypeOK ==
    /\ text \in [Entry -> SUBSET Episodes]
    /\ ended \subseteq Entry
    /\ row \in [Entry -> {"none", "live", "deprecated"}]
    /\ members \in [Clusters -> SUBSET Entry]
    /\ count \in [Clusters -> Nat]
    /\ run \in [Episodes -> [pc : RunPc, attempt : 0..MaxAttempts,
                             seen : [Clusters -> SUBSET Entry],
                             size : [Clusters -> Nat], saved : Clusters \cup {None}]]
    /\ ref \in [pc : RefPc, cluster : Clusters \cup {None}, had : SUBSET Entry,
                read : SUBSET Entry, used : SUBSET Entry, merged : Merged \cup {None}, out : SUBSET Entry]
    /\ ref.used \subseteq ref.read /\ ref.read \subseteq ref.had
    /\ reflections \in 0..MaxReflections /\ faults \in 0..MaxFaults
    /\ left \subseteq Entry /\ raced \subseteq Clusters
    /\ redone \subseteq Episodes \cup Clusters
    /\ torn \in BOOLEAN

Hidden(x) == x \in ended \/ row[x] = "deprecated"
Live(e) == {x \in Entry : e \in text[x] /\ ~Hidden(x)}

\* What was written stays to be found: a deprecated episode's content is in an entry that
\* is not deprecated, however clustering, indexing, failures and crashes fall.  Excepted
\* are members that are deprecated with a merge that did not have them: their row came
\* between its two snapshots, or they are its second merged episode.
NothingForgotten ==
    \A e \in Episodes : text[e] # {} /\ left = {} => Live(e) # {}

\* orchestrator.py, _resolve_deprecation_targets: "Set of member IDs safe to deprecate".
MembersAreSafeToDeprecate ==
    \A e \in Episodes : text[e] # {} => Live(e) # {}

Rest == ref.pc = "idle" /\ \A e \in Episodes : run[e].pc \in {"none", "queued", "done", "dead"}

\* At rest a cluster counts its members, unless a run was repeated after it had saved,
\* or a run and a reflection were at it together, or a reflection was cut short.
CountsItsMembers ==
    Rest /\ ~torn =>
        \A c \in Clusters \ (raced \cup redone) : count[c] = Cardinality(members[c])

\* "idempotent under OME's at-least-once retry semantics" (repos/cluster.py:314-315): a
\* run repeated after its upsert does not change what the cluster counts.
RetriesCountOnce ==
    Rest /\ ~torn => \A c \in Clusters \ raced : count[c] = Cardinality(members[c])

\* At rest what is deprecated is in no cluster, with the same exceptions.
DeprecatedLeave ==
    Rest /\ ~torn => \A c \in Clusters \ raced : \A x \in members[c] \ redone : ~Hidden(x)

=============================================================================
