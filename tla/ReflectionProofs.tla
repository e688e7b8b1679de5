-------------------------- MODULE ReflectionProofs --------------------------
(***************************************************************************)
(* For any episodes, clusters and merged entries, any number of attempts,  *)
(* reflections and faults: what reflection deprecates is found in what it  *)
(* merged, a cluster nothing raced on counts its members, and what is      *)
(* deprecated leaves it.                                                   *)
(***************************************************************************)
EXTENDS Reflection, FiniteSetTheorems, TLAPS

-----------------------------------------------------------------------------
(* The inductive invariant *)

Written == {x \in Entry : text[x] # {}}
Busy(e) == run[e].pc \in {"listed", "saved"}
Listed(e) == run[e].pc = "listed"

\* An episode's runs begin when it is written, one at a time in the partition.
Runs(e) ==
    /\ text[e] = {} => run[e] = NoRun
    /\ run[e].pc = "saved" <=> run[e].saved # None
    /\ run[e].pc \in {"queued", "listed", "saved"} => run[e].attempt < MaxAttempts
    /\ \A d \in Episodes : Busy(e) /\ Busy(d) => e = d

\* Only what is written is indexed, deprecated or a member.
Known ==
    /\ \A x \in Entry : Hidden(x) \/ row[x] # "none" => x \in Written
    /\ \A c \in Clusters : members[c] \subseteq Written
    /\ \A e \in Episodes, c \in Clusters : Listed(e) => run[e].seen[c] \subseteq Written
    /\ ref.had \subseteq Written

\* The merged entry is new, stays in view and has what was merged.
Merging ==
    /\ ref.pc # "idle" => ref.cluster \in Clusters
    /\ ref.pc \in {"fetch", "merge"} => ref.used = {}
    /\ ref.pc = "merge" => ref.read # {}
    /\ ref.pc \in {"wait", "resolve", "patch", "hide", "remove", "add", "metadata"} =>
         /\ ref.merged \in Merged /\ ref.merged \in Written /\ ref.merged \notin ref.had
         /\ ~Hidden(ref.merged)
         /\ \A x \in ref.used : text[x] \subseteq text[ref.merged]
    /\ ref.pc \in {"wait", "resolve", "patch", "hide", "remove", "add"} =>
         /\ \A c \in Clusters : ref.merged \notin members[c]
         /\ \A e \in Episodes, c \in Clusters : Listed(e) => ref.merged \notin run[e].seen[c]
    /\ ref.pc \in {"patch", "hide", "remove"} => ref.out \subseteq ref.had \cap members[ref.cluster]

\* An episode is a member where its run has put it, or has been put before.
Homes ==
    /\ \A c \in Clusters, e \in Episodes : e \in members[c] =>
         \/ run[e].pc = "saved" /\ run[e].saved = c
         \/ run[e].pc = "done"
         \/ e \in redone /\ c \in redone
    /\ \A d, e \in Episodes, c \in Clusters : Listed(d) /\ e \in run[d].seen[c] =>
         run[e].pc = "done" \/ (e \in redone /\ c \in redone)

\* So it is in one cluster; and it is deprecated only as a member.
Alone ==
    /\ \A b, c \in Clusters : b # c => members[b] \cap members[c] \subseteq redone
    /\ \A e \in Episodes, b, c \in Clusters :
         Listed(e) /\ b # c => run[e].seen[b] \cap members[c] \subseteq redone
    /\ \A e \in Episodes : Hidden(e) => run[e].pc \in {"saved", "done"} \/ e \in redone

Here(c, pcs) == ref.cluster = c /\ ref.pc \in pcs

\* What runs and reflection know of a cluster that they did not share is still so.
Apart(c) ==
    /\ \A e \in Episodes : Listed(e) => run[e].seen[c] = members[c] /\ run[e].size[c] = count[c]
    /\ Here(c, {"fetch", "merge", "wait", "resolve", "patch", "hide", "remove"}) =>
         members[c] = ref.had
    /\ Here(c, {"patch", "hide", "remove"}) => ref.out = ref.had
    /\ Here(c, {"add"}) => members[c] = {}
    /\ Here(c, {"metadata"}) => members[c] = {ref.merged}

Counts(c) ==
    torn \/ c \in redone \/ Here(c, {"add", "metadata"}) \/ count[c] = Cardinality(members[c])

Shows(c) ==
    torn \/ Here(c, {"hide", "remove"}) \/ \A x \in members[c] \ redone : ~Hidden(x)

Clustered == \A c \in Clusters \ raced : Apart(c) /\ Counts(c) /\ Shows(c)

IInv ==
    /\ TypeOK /\ (\A e \in Episodes : Runs(e)) /\ Known /\ Merging /\ Homes /\ Alone
    /\ Clustered /\ NothingForgotten

-----------------------------------------------------------------------------
(* Types *)

RunType == [pc : RunPc, attempt : 0..MaxAttempts, seen : [Clusters -> SUBSET Entry],
            size : [Clusters -> Nat], saved : Clusters \cup {None}]
RefType == [pc : RefPc, cluster : Clusters \cup {None}, had : SUBSET Entry, read : SUBSET Entry,
            used : SUBSET Entry, merged : Merged \cup {None}, out : SUBSET Entry]

LEMMA EntryIs ==
    /\ Episodes \subseteq Entry /\ Merged \subseteq Entry
    /\ \A e \in Episodes : e \notin Merged
    /\ IsFiniteSet(Entry) /\ None \notin Clusters
    /\ MaxAttempts \in Nat /\ 0 < MaxAttempts /\ 0 \in 0..MaxAttempts
    /\ MaxFaults \in Nat /\ MaxReflections \in Nat
  BY ReflectionAssumption DEF Entry

LEMMA NoRunIs ==
    /\ NoRun \in RunType /\ NoRun.pc = "none" /\ NoRun.attempt = 0 /\ NoRun.saved = None
    /\ \A p \in RunPc, n \in 0..MaxAttempts :
         /\ [NoRun EXCEPT !.attempt = n, !.pc = p] \in RunType
         /\ [NoRun EXCEPT !.attempt = n, !.pc = p].pc = p
         /\ [NoRun EXCEPT !.attempt = n, !.pc = p].attempt = n
         /\ [NoRun EXCEPT !.attempt = n, !.pc = p].saved = None
    /\ \A p \in RunPc :
         /\ [NoRun EXCEPT !.pc = p] \in RunType
         /\ [NoRun EXCEPT !.pc = p].pc = p
         /\ [NoRun EXCEPT !.pc = p].attempt = 0
         /\ [NoRun EXCEPT !.pc = p].saved = None
  BY EntryIs DEF NoRun, RunType, RunPc

LEMMA NoRefIs ==
    NoRef \in RefType /\ NoRef.pc = "idle" /\ NoRef.cluster = None /\ NoRef.had = {}
    /\ NoRef.read = {} /\ NoRef.used = {} /\ NoRef.out = {}
  BY DEF NoRef, RefType, RefPc

LEMMA Parts ==
    ASSUME IInv
    PROVE  /\ TypeOK /\ Known /\ Merging /\ Homes /\ Alone /\ Clustered /\ NothingForgotten
           /\ run \in [Episodes -> RunType] /\ ref \in RefType
           /\ members \in [Clusters -> SUBSET Entry] /\ count \in [Clusters -> Nat]
           /\ \A e \in Episodes : Runs(e) /\ run[e] \in RunType
           /\ \A c \in Clusters : members[c] \subseteq Entry /\ count[c] \in Nat
  BY DEF IInv, TypeOK, RunType, RefType

LEMMA Assembles ==
    ASSUME TypeOK', \A e \in Episodes : Runs(e)', Known', Merging', Homes', Alone', Clustered',
           NothingForgotten'
    PROVE  IInv'
  BY DEF IInv

LEMMA Types ==
    ASSUME run' \in [Episodes -> RunType], ref' \in RefType,
           ref'.used \subseteq ref'.read, ref'.read \subseteq ref'.had,
           text' \in [Entry -> SUBSET Episodes], ended' \subseteq Entry,
           row' \in [Entry -> {"none", "live", "deprecated"}],
           members' \in [Clusters -> SUBSET Entry], count' \in [Clusters -> Nat],
           left' \subseteq Entry, raced' \subseteq Clusters, redone' \subseteq Episodes \cup Clusters,
           torn' \in BOOLEAN, reflections' \in 0..MaxReflections, faults' \in 0..MaxFaults
    PROVE  TypeOK'
  BY DEF TypeOK, RunType, RefType

LEMMA MembersFinite ==
    ASSUME IInv, NEW c \in Clusters
    PROVE  IsFiniteSet(members[c])
  BY Parts, EntryIs, FS_Subset

-----------------------------------------------------------------------------
(* Steps of the runs alone, and ends of a reflection *)

\* What a run does with itself.
Turns(e) ==
    \/ run'[e] = run[e]
    \/ /\ text[e] # {}
       /\ run'[e].pc = "saved" <=> run'[e].saved # None
       /\ run'[e].pc \in {"queued", "listed", "saved"} => run'[e].attempt < MaxAttempts
       /\ run'[e].pc = "listed" => run'[e].seen = members /\ run'[e].size = count
       /\ run[e].pc = "done" => run'[e].pc = "done"
       /\ run[e].pc = "saved" =>
            run'[e].pc = "done" \/ (e \in redone' /\ run[e].saved \in redone')

\* The rows may change, what is hidden may not.
LEMMA UnseenKeeps ==
    ASSUME IInv, UNCHANGED <<text, ended, members, count, left, raced>>,
           row' \in [Entry -> {"none", "live", "deprecated"}],
           \A x \in Entry : Hidden(x)' = Hidden(x) /\ (row'[x] # "none" => x \in Written),
           run' \in [Episodes -> RunType],
           (ref' = ref /\ torn' = torn) \/ (ref' = NoRef /\ torn' = (torn \/ Started)),
           redone \subseteq redone', redone' \subseteq Episodes \cup Clusters,
           reflections' \in 0..MaxReflections, faults' \in 0..MaxFaults,
           \A e \in Episodes : Turns(e),
           \A d, e \in Episodes : Busy(d)' /\ Busy(e)' => d = e
    PROVE  IInv'
  <1>1. /\ TypeOK /\ Known /\ Merging /\ Homes /\ Alone /\ Clustered /\ NothingForgotten
        /\ ref \in RefType /\ \A e \in Episodes : Runs(e)
        /\ \A c \in Clusters : members[c] \subseteq Entry
    BY Parts
  <1>2. /\ text' = text /\ ended' = ended /\ members' = members /\ count' = count
        /\ left' = left /\ raced' = raced
        /\ ref' = ref \/ ref' = NoRef
        /\ \A x \in Entry : Hidden(x)' = Hidden(x)
    OBVIOUS
  <1>3. TypeOK'
    <2>1. ref' \in RefType /\ ref'.used \subseteq ref'.read /\ ref'.read \subseteq ref'.had
      BY <1>1, <1>2, NoRefIs DEF TypeOK
    <2>2. torn' \in BOOLEAN
      BY <1>1 DEF TypeOK
    <2>3. QED
      BY <1>1, <1>2, <2>1, <2>2, Types DEF TypeOK
  <1>4. ASSUME NEW e \in Episodes PROVE Runs(e)'
    <2>1. Runs(e) /\ Turns(e)
      BY <1>1
    <2>2. \A d \in Episodes : Busy(e)' /\ Busy(d)' => e = d
      OBVIOUS
    <2>3. QED
      BY <1>2, <2>1, <2>2 DEF Runs, Turns
  <1>5. \A e \in Episodes : Listed(e)' =>
          \A c \in Clusters : run'[e].seen[c] = members[c] \/ (Listed(e) /\ run'[e] = run[e])
    BY DEF Turns, Listed
  <1>6. Known'
    <2>1. \A x \in Entry : Hidden(x)' \/ row'[x] # "none" => x \in Written'
      BY <1>1, <1>2 DEF Known, Written
    <2>2. \A c \in Clusters : members'[c] \subseteq Written'
      BY <1>1, <1>2 DEF Known, Written
    <2>3. \A e \in Episodes, c \in Clusters : Listed(e)' => run'[e].seen[c] \subseteq Written'
      BY <1>1, <1>2, <1>5 DEF Known, Written
    <2>4. ref'.had \subseteq Written'
      BY <1>1, <1>2, NoRefIs DEF Known, Written
    <2>5. QED
      BY <2>1, <2>2, <2>3, <2>4 DEF Known
  <1>7. Merging'
    <2>1. CASE ref' = NoRef
      BY <2>1, NoRefIs DEF Merging
    <2>2. CASE ref' = ref
      <3>1. ref.pc \in {"wait", "resolve", "patch", "hide", "remove", "add"} =>
              \A e \in Episodes, c \in Clusters : Listed(e)' => ref.merged \notin run'[e].seen[c]
        BY <1>1, <1>5 DEF Merging
      <3>2. ref.pc \in {"wait", "resolve", "patch", "hide", "remove", "add", "metadata"} =>
              /\ ref.merged \in Merged /\ ref.merged \in Written' /\ ref.merged \notin ref.had
              /\ ~Hidden(ref.merged)' /\ \A x \in ref.used : text'[x] \subseteq text'[ref.merged]
        BY <1>1, <1>2, <2>2, EntryIs DEF Merging, Written
      <3>3. ref.pc \in {"wait", "resolve", "patch", "hide", "remove", "add"} =>
              \A c \in Clusters : ref.merged \notin members'[c]
        BY <1>1, <1>2 DEF Merging
      <3>4. /\ ref.pc \in {"patch", "hide", "remove"} =>
                 ref.out \subseteq ref.had \cap members'[ref.cluster]
            /\ ref.pc # "idle" => ref.cluster \in Clusters
            /\ ref.pc \in {"fetch", "merge"} => ref.used = {}
            /\ ref.pc = "merge" => ref.read # {}
        BY <1>1, <1>2 DEF Merging
      <3>5. QED
        BY <2>2, <3>1, <3>2, <3>3, <3>4 DEF Merging, Hidden
    <2>3. QED
      BY <1>2, <2>1, <2>2
  <1>8. Homes'
    <2>1. ASSUME NEW c \in Clusters, NEW e \in Episodes, e \in members'[c]
          PROVE  \/ run'[e].pc = "saved" /\ run'[e].saved = c
                 \/ run'[e].pc = "done"
                 \/ e \in redone' /\ c \in redone'
      <3>1. \/ run[e].pc = "saved" /\ run[e].saved = c
            \/ run[e].pc = "done"
            \/ e \in redone /\ c \in redone
        BY <1>1, <1>2, <2>1 DEF Homes
      <3>2. Turns(e)
        OBVIOUS
      <3>3. QED
        BY <3>1, <3>2 DEF Turns
    <2>2. ASSUME NEW d \in Episodes, NEW e \in Episodes, NEW c \in Clusters, Listed(d)',
                 e \in run'[d].seen[c]
          PROVE  run'[e].pc = "done" \/ (e \in redone' /\ c \in redone')
      <3>1. Turns(e) /\ Turns(d)
        OBVIOUS
      <3>2. CASE run'[d] = run[d]
        <4>1. run[e].pc = "done" \/ (e \in redone /\ c \in redone)
          BY <1>1, <2>2, <3>2 DEF Homes, Listed
        <4>2. QED
          BY <3>1, <4>1 DEF Turns
      <3>3. CASE run'[d].seen = members
        <4>1. \/ run'[e].pc = "saved" /\ run'[e].saved = c
              \/ run'[e].pc = "done"
              \/ e \in redone' /\ c \in redone'
          BY <1>2, <2>1, <2>2, <3>3
        <4>2. run'[e].pc # "saved"
          BY <2>2 DEF Listed, Busy
        <4>3. QED
          BY <4>1, <4>2
      <3>4. QED
        BY <2>2, <3>1, <3>2, <3>3 DEF Turns, Listed
    <2>3. QED
      BY <2>1, <2>2 DEF Homes
  <1>9. Alone'
    <2>1. \A b, c \in Clusters : b # c => members'[b] \cap members'[c] \subseteq redone'
      BY <1>1, <1>2 DEF Alone
    <2>2. ASSUME NEW e \in Episodes, NEW b \in Clusters, NEW c \in Clusters, Listed(e)', b # c
          PROVE  run'[e].seen[b] \cap members'[c] \subseteq redone'
      <3>1. run'[e].seen[b] = members[b] \/ (Listed(e) /\ run'[e] = run[e])
        BY <1>5, <2>2
      <3>2. QED
        BY <1>1, <1>2, <2>1, <2>2, <3>1 DEF Alone
    <2>3. ASSUME NEW e \in Episodes, Hidden(e)'
          PROVE  run'[e].pc \in {"saved", "done"} \/ e \in redone'
      <3>1. run[e].pc \in {"saved", "done"} \/ e \in redone
        BY <1>1, <1>2, <2>3, EntryIs DEF Alone
      <3>2. Turns(e)
        OBVIOUS
      <3>3. QED
        BY <3>1, <3>2 DEF Turns
    <2>4. QED
      BY <2>1, <2>2, <2>3 DEF Alone
  <1>10. Clustered'
    <2>1. ASSUME NEW c \in Clusters \ raced PROVE Apart(c)' /\ Counts(c)' /\ Shows(c)'
      <3>1. Apart(c) /\ Counts(c) /\ Shows(c) /\ c # None
        BY <1>1, EntryIs DEF Clustered
      <3>2. \A e \in Episodes : Listed(e)' => run'[e].seen[c] = members[c] /\ run'[e].size[c] = count[c]
        BY <3>1 DEF Turns, Listed, Apart
      <3>3. Apart(c)'
        BY <1>2, <3>1, <3>2, NoRefIs DEF Apart, Here
      <3>4. Here(c, {"add", "metadata"}) => Here(c, {"add", "metadata"})' \/ torn'
        BY DEF Here, Started
      <3>5. Here(c, {"hide", "remove"}) => Here(c, {"hide", "remove"})' \/ torn'
        BY DEF Here, Started
      <3>6. torn => torn'
        OBVIOUS
      <3>7. Counts(c)'
        BY <1>2, <3>1, <3>4, <3>6 DEF Counts
      <3>8. Shows(c)'
        BY <1>1, <1>2, <3>1, <3>5, <3>6 DEF Shows
      <3>9. QED
        BY <3>3, <3>7, <3>8
    <2>2. QED
      BY <1>2, <2>1 DEF Clustered
  <1>11. NothingForgotten'
    <2>1. \A e \in Episodes : Live(e)' = Live(e)
      BY <1>2 DEF Live
    <2>2. QED
      BY <1>1, <1>2, <2>1 DEF NothingForgotten
  <1>12. QED
    BY <1>3, <1>4, <1>6, <1>7, <1>8, <1>9, <1>10, <1>11, Assembles

LEMMA TurnsKeep ==
    ASSUME IInv, UNCHANGED <<text, ended, row, members, count, left, raced>>,
           run' \in [Episodes -> RunType],
           (ref' = ref /\ torn' = torn) \/ (ref' = NoRef /\ torn' = (torn \/ Started)),
           redone \subseteq redone', redone' \subseteq Episodes \cup Clusters,
           reflections' \in 0..MaxReflections, faults' \in 0..MaxFaults,
           \A e \in Episodes : Turns(e),
           \A d, e \in Episodes : Busy(d)' /\ Busy(e)' => d = e
    PROVE  IInv'
  <1>1. row' \in [Entry -> {"none", "live", "deprecated"}]
    BY Parts DEF TypeOK
  <1>2. \A x \in Entry : Hidden(x)' = Hidden(x) /\ (row'[x] # "none" => x \in Written)
    BY Parts DEF Hidden, Known
  <1>3. QED
    BY <1>1, <1>2, UnseenKeeps

LEMMA OneTurn ==
    ASSUME IInv, NEW e \in Episodes, NEW r \in RunType, run' = [run EXCEPT ![e] = r]
    PROVE  /\ run' \in [Episodes -> RunType] /\ run'[e] = r
           /\ \A d \in Episodes \ {e} : run'[d] = run[d] /\ Turns(d)
  BY Parts DEF Turns

LEMMA ListKeeps ==
    ASSUME IInv, NEW e \in Episodes, List(e)
    PROVE  IInv'
  <1> DEFINE r == [run[e] EXCEPT !.pc = "listed", !.seen = members, !.size = count]
  <1>1. /\ run[e].pc = "queued" /\ ~Locked
        /\ run' = [run EXCEPT ![e].pc = "listed", ![e].seen = members, ![e].size = count]
        /\ UNCHANGED <<text, ended, row, members, count, ref, counts, history>>
    BY DEF List
  <1>2. /\ run \in [Episodes -> RunType] /\ run[e] \in RunType /\ Runs(e) /\ TypeOK
        /\ members \in [Clusters -> SUBSET Entry] /\ count \in [Clusters -> Nat]
    BY Parts
  <1>3. /\ r \in RunType /\ r.pc = "listed" /\ r.seen = members /\ r.size = count
        /\ r.saved = run[e].saved /\ r.attempt = run[e].attempt
    BY <1>2 DEF RunType, RunPc
  <1>4. run' = [run EXCEPT ![e] = r]
    BY <1>1, <1>2
  <1> HIDE DEF r
  <1>5. /\ run' \in [Episodes -> RunType] /\ run'[e] = r
        /\ \A d \in Episodes \ {e} : run'[d] = run[d] /\ Turns(d)
    BY <1>3, <1>4, OneTurn
  <1>6. text[e] # {} /\ run[e].saved = None /\ run[e].attempt < MaxAttempts
    BY <1>1, <1>2, NoRunIs DEF Runs
  <1>7. Turns(e)
    BY <1>1, <1>3, <1>5, <1>6 DEF Turns
  <1>8. \A d \in Episodes : Turns(d)
    BY <1>5, <1>7
  <1>9. \A d \in Episodes : ~Busy(d)
    BY <1>1 DEF Locked, Busy
  <1>10. \A d, f \in Episodes : Busy(d)' /\ Busy(f)' => d = f
    BY <1>5, <1>9 DEF Busy
  <1>11. /\ UNCHANGED <<text, ended, row, members, count, left, raced>>
         /\ ref' = ref /\ torn' = torn /\ redone' = redone
         /\ redone \subseteq redone' /\ redone' \subseteq Episodes \cup Clusters
         /\ reflections' \in 0..MaxReflections /\ faults' \in 0..MaxFaults
    BY <1>1, <1>2 DEF counts, history, TypeOK
  <1>12. QED
    BY <1>5, <1>8, <1>10, <1>11, TurnsKeep

LEMMA EmitKeeps ==
    ASSUME IInv, NEW e \in Episodes, Emit(e)
    PROVE  IInv'
  <1> DEFINE r == [NoRun EXCEPT !.pc = "done"]
  <1>1. /\ run[e].pc = "saved" /\ run' = [run EXCEPT ![e] = r]
        /\ UNCHANGED <<text, ended, row, members, count, ref, counts, history>>
    BY DEF Emit
  <1>2. run[e] \in RunType /\ Runs(e) /\ TypeOK /\ \A d \in Episodes : Runs(d)
    BY Parts
  <1>3. r \in RunType /\ r.pc = "done" /\ r.saved = None
    BY NoRunIs DEF RunPc
  <1> HIDE DEF r
  <1>4. /\ run' \in [Episodes -> RunType] /\ run'[e] = r
        /\ \A d \in Episodes \ {e} : run'[d] = run[d] /\ Turns(d)
    BY <1>1, <1>3, OneTurn
  <1>5. text[e] # {}
    BY <1>1, <1>2, NoRunIs DEF Runs
  <1>6. Turns(e)
    BY <1>1, <1>3, <1>4, <1>5 DEF Turns
  <1>7. \A d \in Episodes : Turns(d)
    BY <1>4, <1>6
  <1>8. \A d, f \in Episodes : Busy(d)' /\ Busy(f)' => d = f
    BY <1>2, <1>3, <1>4 DEF Busy, Runs
  <1>9. /\ UNCHANGED <<text, ended, row, members, count, left, raced>>
        /\ ref' = ref /\ torn' = torn /\ redone' = redone
        /\ redone \subseteq redone' /\ redone' \subseteq Episodes \cup Clusters
        /\ reflections' \in 0..MaxReflections /\ faults' \in 0..MaxFaults
    BY <1>1, <1>2 DEF counts, history, TypeOK
  <1>10. QED
    BY <1>4, <1>7, <1>8, <1>9, TurnsKeep

LEMMA FaultIs ==
    ASSUME IInv, Fault
    PROVE  faults' \in 0..MaxFaults /\ reflections' = reflections /\ reflections' \in 0..MaxReflections
  <1>1. faults \in 0..MaxFaults /\ reflections \in 0..MaxReflections /\ MaxFaults \in Nat
    BY Parts, EntryIs DEF TypeOK
  <1>2. faults < MaxFaults /\ faults' = faults + 1 /\ reflections' = reflections
    BY DEF Fault
  <1>3. QED
    BY <1>1, <1>2

LEMMA RunFailsKeeps ==
    ASSUME IInv, NEW e \in Episodes, RunFails(e)
    PROVE  IInv'
  <1> DEFINE n == run[e].attempt + 1
             p == IF n < MaxAttempts THEN "queued" ELSE "dead"
             r == [NoRun EXCEPT !.attempt = n, !.pc = p]
  <1>1. /\ Busy(e) /\ Fault /\ run' = [run EXCEPT ![e] = r]
        /\ redone' = IF run[e].saved = None THEN redone ELSE redone \cup {e, run[e].saved}
        /\ UNCHANGED <<text, ended, row, members, count, ref, left, raced, torn>>
    BY DEF RunFails, Busy
  <1>2. /\ run[e] \in RunType /\ TypeOK /\ Runs(e) /\ \A d \in Episodes : Runs(d)
        /\ run[e].attempt \in 0..MaxAttempts /\ run[e].saved \in Clusters \cup {None}
    BY Parts DEF RunType
  <1>3. run[e].attempt < MaxAttempts /\ text[e] # {}
    BY <1>1, <1>2, NoRunIs DEF Runs, Busy
  <1>4. n \in 0..MaxAttempts /\ p \in RunPc /\ (p = "queued" => n < MaxAttempts) /\ p \in {"queued", "dead"}
    BY <1>2, <1>3, EntryIs DEF RunPc
  <1> HIDE DEF p, n
  <1>5. r \in RunType /\ r.pc = p /\ r.attempt = n /\ r.saved = None
    BY <1>4, NoRunIs, ZenonT(40)
  <1> HIDE DEF r
  <1>6. /\ run' \in [Episodes -> RunType] /\ run'[e] = r
        /\ \A d \in Episodes \ {e} : run'[d] = run[d] /\ Turns(d)
    BY <1>1, <1>5, OneTurn
  <1>7. run[e].pc = "saved" => e \in redone' /\ run[e].saved \in redone'
    BY <1>1, <1>2 DEF Runs
  <1>8. Turns(e)
    BY <1>1, <1>3, <1>4, <1>5, <1>6, <1>7 DEF Turns, Busy
  <1>9. \A d \in Episodes : Turns(d)
    BY <1>6, <1>8
  <1>10. \A d, f \in Episodes : Busy(d)' /\ Busy(f)' => d = f
    BY <1>2, <1>4, <1>5, <1>6 DEF Busy, Runs
  <1>11. redone \subseteq redone' /\ redone' \subseteq Episodes \cup Clusters
    BY <1>1, <1>2 DEF TypeOK
  <1>12. /\ UNCHANGED <<text, ended, row, members, count, left, raced>>
         /\ ref' = ref /\ torn' = torn
    BY <1>1
  <1>13. QED
    BY <1>1, <1>6, <1>9, <1>10, <1>11, <1>12, FaultIs, TurnsKeep

LEMMA ReflectionFailsKeeps ==
    ASSUME IInv, ReflectionFails
    PROVE  IInv'
  <1>1. /\ Fault /\ ref' = NoRef /\ torn' = (torn \/ Started)
        /\ UNCHANGED <<text, ended, row, members, count, run, left, raced, redone>>
    BY DEF ReflectionFails
  <1>2. TypeOK /\ run \in [Episodes -> RunType] /\ \A d \in Episodes : Runs(d)
    BY Parts
  <1>3. \A e \in Episodes : Turns(e)
    BY <1>1 DEF Turns
  <1>4. \A d, f \in Episodes : Busy(d)' /\ Busy(f)' => d = f
    BY <1>1, <1>2 DEF Busy, Runs
  <1>5. redone \subseteq redone' /\ redone' \subseteq Episodes \cup Clusters
    BY <1>1, <1>2 DEF TypeOK
  <1>6. QED
    BY <1>1, <1>2, <1>3, <1>4, <1>5, FaultIs, TurnsKeep

LEMMA CrashKeeps ==
    ASSUME IInv, Crash
    PROVE  IInv'
  <1>1. PICK lost \in SUBSET {e \in Episodes : run[e].pc = "queued"} :
          run' = [e \in Episodes |->
                    IF e \in lost THEN [NoRun EXCEPT !.pc = "dead"]
                    ELSE IF run[e].pc \in {"listed", "saved"} THEN [NoRun EXCEPT !.pc = "queued"]
                    ELSE run[e]]
    BY DEF Crash
  <1>2. /\ Fault /\ ref' = NoRef /\ torn' = (torn \/ Started)
        /\ redone' = redone \cup UNION {{e, run[e].saved} : e \in {d \in Episodes : run[d].saved # None}}
        /\ UNCHANGED <<text, ended, row, members, count, left, raced>>
    BY DEF Crash
  <1>3. /\ TypeOK /\ \A d \in Episodes : /\ Runs(d) /\ run[d] \in RunType
                                         /\ run[d].saved \in Clusters \cup {None}
    BY Parts DEF RunType
  <1> DEFINE dead == [NoRun EXCEPT !.pc = "dead"]
             again == [NoRun EXCEPT !.pc = "queued"]
  <1>4. /\ dead \in RunType /\ dead.pc = "dead" /\ dead.saved = None
        /\ again \in RunType /\ again.pc = "queued" /\ again.saved = None
        /\ again.attempt < MaxAttempts
    BY NoRunIs, EntryIs DEF RunPc
  <1>5. ASSUME NEW e \in Episodes
        PROVE  /\ e \in lost => run[e].pc = "queued" /\ run'[e] = dead
               /\ e \notin lost /\ Busy(e) => run'[e] = again
               /\ e \notin lost /\ ~Busy(e) => run'[e] = run[e]
    BY <1>1 DEF Busy
  <1> HIDE DEF dead, again
  <1>6. run' \in [Episodes -> RunType]
    <2>1. \A e \in Episodes : run'[e] \in RunType
      BY <1>3, <1>4, <1>5
    <2>2. QED
      BY <1>1, <2>1
  <1>7. ASSUME NEW e \in Episodes PROVE Turns(e)
    <2>1. run[e].pc # "none" => text[e] # {}
      BY <1>3, NoRunIs DEF Runs
    <2>2. run[e].pc = "saved" => e \in redone' /\ run[e].saved \in redone'
      <3>1. run[e].pc = "saved" => run[e].saved # None
        BY <1>3 DEF Runs
      <3>2. QED
        BY <1>2, <3>1
    <2>3. QED
      BY <1>4, <1>5, <2>1, <2>2 DEF Turns, Busy
  <1>8. \A e \in Episodes : ~Busy(e)'
    BY <1>4, <1>5 DEF Busy
  <1>9. redone \subseteq redone' /\ redone' \subseteq Episodes \cup Clusters
    BY <1>2, <1>3 DEF TypeOK
  <1>10. QED
    BY <1>2, <1>6, <1>7, <1>8, <1>9, FaultIs, TurnsKeep

-----------------------------------------------------------------------------
(* Writing, indexing and clustering *)

LEMMA ExtractKeeps ==
    ASSUME IInv, NEW e \in Episodes, Extract(e)
    PROVE  IInv'
  <1> DEFINE r == [NoRun EXCEPT !.pc = "queued"]
  <1>1. /\ text[e] = {} /\ text' = [text EXCEPT ![e] = {e}]
        /\ run' = [run EXCEPT ![e].pc = "queued"]
        /\ ended' = ended /\ row' = row /\ members' = members /\ count' = count /\ ref' = ref
        /\ reflections' = reflections /\ faults' = faults
        /\ left' = left /\ raced' = raced /\ redone' = redone /\ torn' = torn
    BY DEF Extract, counts, history
  <1>2. /\ TypeOK /\ Known /\ Merging /\ Homes /\ Alone /\ Clustered /\ NothingForgotten
        /\ run \in [Episodes -> RunType] /\ ref \in RefType /\ \A d \in Episodes : Runs(d)
        /\ text \in [Entry -> SUBSET Episodes] /\ e \in Entry
        /\ \A c \in Clusters : members[c] \subseteq Entry
    BY Parts, EntryIs DEF TypeOK
  <1>3. r \in RunType /\ r.pc = "queued" /\ r.attempt = 0 /\ r.saved = None /\ 0 < MaxAttempts
    BY NoRunIs, EntryIs DEF RunPc
  <1>4. run[e] = NoRun /\ run[e].pc = "none"
    BY <1>1, <1>2, NoRunIs DEF Runs
  <1>5. run' = [run EXCEPT ![e] = r]
    BY <1>1, <1>4
  <1> HIDE DEF r
  <1>6. /\ run' \in [Episodes -> RunType] /\ run'[e] = r
        /\ \A d \in Episodes \ {e} : run'[d] = run[d]
        /\ \A d \in Episodes : /\ Listed(d)' => Listed(d) /\ run'[d] = run[d] /\ d # e
                               /\ Busy(d)' => Busy(d)
                               /\ run[d].pc \in {"saved", "done"} => run'[d] = run[d]
    BY <1>2, <1>3, <1>4, <1>5 DEF Listed, Busy
  <1>7. /\ text'[e] = {e} /\ \A x \in Entry \ {e} : text'[x] = text[x]
        /\ Written' = Written \cup {e} /\ e \notin Written
        /\ text' \in [Entry -> SUBSET Episodes]
    BY <1>1, <1>2 DEF Written
  <1>8. \A x \in Entry : Hidden(x)' = Hidden(x)
    BY <1>1 DEF Hidden
  <1>9. TypeOK'
    BY <1>1, <1>2, <1>6, <1>7, Types DEF TypeOK
  <1>10. ASSUME NEW d \in Episodes PROVE Runs(d)'
    <2>1. Runs(d) /\ d \in Entry
      BY <1>2, EntryIs
    <2>2. CASE d = e
      BY <1>2, <1>3, <1>4, <1>6, <1>7, <2>2 DEF Runs, Busy
    <2>3. CASE d # e
      BY <1>2, <1>6, <1>7, <2>1, <2>3 DEF Runs
    <2>4. QED
      BY <2>2, <2>3
  <1>11. Known'
    BY <1>1, <1>2, <1>6, <1>7, <1>8 DEF Known
  <1>12. ~Hidden(e) /\ (\A c \in Clusters : e \notin members[c]) /\ e \notin ref.had
    BY <1>2, <1>7 DEF Known
  <1>13. Merging'
    <2>1. ref.pc \in {"wait", "resolve", "patch", "hide", "remove", "add", "metadata"} =>
            /\ ref.merged \in Merged /\ ref.merged \in Written' /\ ref.merged \notin ref.had
            /\ ~Hidden(ref.merged)' /\ \A x \in ref.used : text'[x] \subseteq text'[ref.merged]
      <3> SUFFICES ASSUME ref.pc \in {"wait", "resolve", "patch", "hide", "remove", "add", "metadata"}
                   PROVE  /\ ref.merged \in Merged /\ ref.merged \in Written' /\ ref.merged \notin ref.had
                          /\ ~Hidden(ref.merged)' /\ \A x \in ref.used : text'[x] \subseteq text'[ref.merged]
        OBVIOUS
      <3>1. /\ ref.merged \in Merged /\ ref.merged \in Written /\ ref.merged \notin ref.had
            /\ ~Hidden(ref.merged) /\ \A x \in ref.used : text[x] \subseteq text[ref.merged]
        BY <1>2 DEF Merging
      <3>2. ref.merged # e /\ ref.merged \in Entry
        BY <1>7, <3>1, EntryIs
      <3>3. \A x \in ref.used : x \in Entry \ {e}
        BY <1>2, <1>12 DEF TypeOK, RefType
      <3>4. QED
        BY <1>1, <1>7, <3>1, <3>2, <3>3 DEF Hidden
    <2>2. QED
      BY <1>1, <1>2, <1>6, <2>1 DEF Merging, Hidden
  <1>14. Homes'
    BY <1>1, <1>2, <1>6, <1>12, ZenonT(40) DEF Homes
  <1>15. Alone'
    BY <1>1, <1>2, <1>6, <1>8, EntryIs DEF Alone
  <1>16. Clustered'
    <2>1. ASSUME NEW c \in Clusters \ raced PROVE Apart(c)' /\ Counts(c)' /\ Shows(c)'
      <3>1. Apart(c) /\ Counts(c) /\ Shows(c)
        BY <1>2 DEF Clustered
      <3>2. Apart(c)'
        BY <1>1, <1>6, <3>1 DEF Apart, Here
      <3>3. Counts(c)' /\ Shows(c)'
        BY <1>1, <1>2, <1>8, <3>1 DEF Counts, Shows, Here
      <3>4. QED
        BY <3>2, <3>3
    <2>2. QED
      BY <1>1, <2>1 DEF Clustered
  <1>17. NothingForgotten'
    <2>1. ASSUME NEW d \in Episodes, text'[d] # {}, left' = {} PROVE Live(d)' # {}
      <3>1. CASE d = e
        <4>1. e \in Live(d)'
          BY <1>2, <1>7, <1>8, <1>12, <3>1 DEF Live
        <4>2. QED
          BY <4>1
      <3>2. CASE d # e
        <4>1. Live(d) # {} /\ d \in Entry
          BY <1>1, <1>2, <1>7, <2>1, <3>2, EntryIs DEF NothingForgotten
        <4>2. PICK x \in Entry : d \in text[x] /\ ~Hidden(x)
          BY <4>1 DEF Live
        <4>3. x # e
          BY <1>1, <4>2
        <4>4. x \in Live(d)'
          BY <1>7, <1>8, <4>2, <4>3 DEF Live
        <4>5. QED
          BY <4>4
      <3>3. QED
        BY <3>1, <3>2
    <2>2. QED
      BY <2>1 DEF NothingForgotten
  <1>18. QED
    BY <1>9, <1>10, <1>11, <1>13, <1>14, <1>15, <1>16, <1>17, Assembles

LEMMA IndexKeeps ==
    ASSUME IInv, NEW x \in Entry, Index(x)
    PROVE  IInv'
  <1> DEFINE v == IF x \in ended THEN "deprecated" ELSE "live"
  <1>1. /\ text[x] # {} /\ (row[x] = "none" \/ (row[x] = "live" /\ x \in ended))
        /\ row' = [row EXCEPT ![x] = v]
        /\ UNCHANGED <<text, ended, members, count, run, ref, counts, history>>
    BY DEF Index
  <1>2. /\ TypeOK /\ Known /\ run \in [Episodes -> RunType] /\ \A d \in Episodes : Runs(d)
        /\ row \in [Entry -> {"none", "live", "deprecated"}]
    BY Parts DEF TypeOK
  <1>3. v \in {"live", "deprecated"} /\ (v = "deprecated" <=> x \in ended)
    OBVIOUS
  <1> HIDE DEF v
  <1>4. /\ row' \in [Entry -> {"none", "live", "deprecated"}] /\ row'[x] = v
        /\ \A y \in Entry \ {x} : row'[y] = row[y]
    BY <1>1, <1>2, <1>3
  <1>5. \A y \in Entry : Hidden(y)' = Hidden(y)
    BY <1>1, <1>3, <1>4 DEF Hidden
  <1>6. \A y \in Entry : row'[y] # "none" => y \in Written
    BY <1>1, <1>2, <1>4 DEF Known, Written
  <1>7. \A e \in Episodes : Turns(e)
    BY <1>1 DEF Turns
  <1>8. \A d, f \in Episodes : Busy(d)' /\ Busy(f)' => d = f
    BY <1>1, <1>2 DEF Busy, Runs
  <1>9. /\ UNCHANGED <<text, ended, members, count, left, raced>>
        /\ ref' = ref /\ torn' = torn /\ redone' = redone
        /\ redone \subseteq redone' /\ redone' \subseteq Episodes \cup Clusters
        /\ reflections' \in 0..MaxReflections /\ faults' \in 0..MaxFaults
        /\ run' \in [Episodes -> RunType]
    BY <1>1, <1>2 DEF counts, history, TypeOK
  <1>10. QED
    BY <1>4, <1>5, <1>6, <1>7, <1>8, <1>9, UnseenKeeps

LEMMA SaveKeeps ==
    ASSUME IInv, NEW e \in Episodes, NEW c \in Clusters, Save(e, c)
    PROVE  IInv'
  <1> DEFINE r == [run[e] EXCEPT !.pc = "saved", !.saved = c]
             n == run[e].size[c] + 1
             s == members[c] \cup run[e].seen[c] \cup {e}
  <1>1. /\ Listed(e)
        /\ count' = [count EXCEPT ![c] = n] /\ members' = [members EXCEPT ![c] = s]
        /\ run' = [run EXCEPT ![e].pc = "saved", ![e].saved = c]
        /\ raced' = raced \cup ({c} \cap {ref.cluster})
        /\ text' = text /\ ended' = ended /\ row' = row /\ ref' = ref
        /\ reflections' = reflections /\ faults' = faults
        /\ left' = left /\ redone' = redone /\ torn' = torn
    BY DEF Save, Listed, counts
  <1>2. /\ TypeOK /\ Known /\ Merging /\ Homes /\ Alone /\ Clustered /\ NothingForgotten
        /\ run \in [Episodes -> RunType] /\ run[e] \in RunType /\ ref \in RefType
        /\ members \in [Clusters -> SUBSET Entry] /\ count \in [Clusters -> Nat]
        /\ \A d \in Episodes : Runs(d)
        /\ \A b \in Clusters : members[b] \subseteq Entry
    BY Parts
  <1>3. /\ e \in Entry /\ e \notin Merged /\ e \in Written /\ run[e].attempt < MaxAttempts
        /\ run[e].seen[c] \subseteq Entry /\ run[e].size[c] \in Nat /\ run[e].pc = "listed"
        /\ c # None
    <2>1. e \in Entry /\ e \notin Merged /\ c # None
      BY EntryIs
    <2>2. text[e] # {} /\ run[e].attempt < MaxAttempts /\ run[e].pc = "listed"
      BY <1>1, <1>2, NoRunIs DEF Runs, Listed
    <2>3. run[e].seen[c] \subseteq Entry /\ run[e].size[c] \in Nat
      BY <1>2 DEF RunType
    <2>4. QED
      BY <2>1, <2>2, <2>3 DEF Written
  <1>4. /\ r \in RunType /\ r.pc = "saved" /\ r.saved = c /\ r.attempt = run[e].attempt
    BY <1>2 DEF RunType, RunPc
  <1>5. run' = [run EXCEPT ![e] = r]
    BY <1>1, <1>2
  <1> HIDE DEF r
  <1>6. /\ run' \in [Episodes -> RunType] /\ run'[e] = r
        /\ \A d \in Episodes \ {e} : run'[d] = run[d] /\ ~Busy(d) /\ ~Busy(d)'
        /\ \A d \in Episodes : ~Listed(d)'
    <2>1. \A d \in Episodes \ {e} : ~Busy(d)
      BY <1>1, <1>2 DEF Runs, Listed, Busy
    <2>2. run' \in [Episodes -> RunType] /\ run'[e] = r /\ \A d \in Episodes \ {e} : run'[d] = run[d]
      BY <1>2, <1>4, <1>5
    <2>3. QED
      BY <1>4, <2>1, <2>2 DEF Listed, Busy
  <1>7. s \subseteq Entry /\ n \in Nat
    BY <1>2, <1>3
  <1>8. /\ members' \in [Clusters -> SUBSET Entry] /\ count' \in [Clusters -> Nat]
        /\ members'[c] = s /\ count'[c] = n
        /\ \A b \in Clusters \ {c} : members'[b] = members[b] /\ count'[b] = count[b]
    BY <1>1, <1>2, <1>7
  <1>9. \A x \in Entry : Hidden(x)' = Hidden(x)
    BY <1>1 DEF Hidden
  <1>10. TypeOK'
    <2>1. raced' \subseteq Clusters
      BY <1>1, <1>2 DEF TypeOK
    <2>2. QED
      BY <1>1, <1>2, <1>6, <1>8, <2>1, Types DEF TypeOK
  <1>11. ASSUME NEW d \in Episodes PROVE Runs(d)'
    <2>1. Runs(d) /\ text' = text
      BY <1>1, <1>2
    <2>2. CASE d = e
      BY <1>3, <1>4, <1>6, <2>1, <2>2 DEF Runs, Written
    <2>3. CASE d # e
      BY <1>6, <2>1, <2>3 DEF Runs
    <2>4. QED
      BY <2>2, <2>3
  <1>12. Known'
    <2>1. \A b \in Clusters : members'[b] \subseteq Written'
      BY <1>1, <1>2, <1>3, <1>8 DEF Known, Written
    <2>2. QED
      BY <1>1, <1>2, <1>6, <1>9, <2>1 DEF Known, Written
  <1>13. Merging'
    <2>1. ref.pc \in {"wait", "resolve", "patch", "hide", "remove", "add"} =>
            \A b \in Clusters : ref.merged \notin members'[b]
      BY <1>1, <1>2, <1>3, <1>8 DEF Merging
    <2>2. ref.pc \in {"patch", "hide", "remove"} =>
            ref.out \subseteq ref.had \cap members'[ref.cluster]
      <3>1. \A b \in Clusters : members[b] \subseteq members'[b]
        BY <1>8
      <3>2. QED
        BY <1>2, <3>1 DEF Merging
    <2>3. QED
      BY <1>1, <1>2, <1>6, <2>1, <2>2 DEF Merging, Written, Hidden
  <1>14. \A b \in Clusters : e \in members[b] => e \in redone /\ b \in redone
    BY <1>2, <1>3 DEF Homes
  <1>15. Homes'
    <2>1. ASSUME NEW b \in Clusters, NEW d \in Episodes, d \in members'[b]
          PROVE  \/ run'[d].pc = "saved" /\ run'[d].saved = b
                 \/ run'[d].pc = "done"
                 \/ d \in redone' /\ b \in redone'
      <3>1. CASE d = e
        BY <1>1, <1>4, <1>6, <1>8, <1>14, <2>1, <3>1
      <3>2. CASE d # e /\ d \in members[b]
        BY <1>1, <1>2, <1>6, <3>2 DEF Homes
      <3>3. CASE d # e /\ d \notin members[b]
        <4>1. b = c /\ d \in run[e].seen[c]
          BY <1>8, <2>1, <3>3
        <4>2. run[d].pc = "done" \/ (d \in redone /\ c \in redone)
          BY <1>1, <1>2, <4>1 DEF Homes
        <4>3. QED
          BY <1>1, <1>6, <3>3, <4>1, <4>2
      <3>4. QED
        BY <3>1, <3>2, <3>3
    <2>2. QED
      BY <1>6, <2>1 DEF Homes
  <1>16. Alone'
    <2>1. ASSUME NEW b \in Clusters \ {c} PROVE members[b] \cap s \subseteq redone
      <3>1. members[b] \cap members[c] \subseteq redone /\ run[e].seen[c] \cap members[b] \subseteq redone
        BY <1>1, <1>2 DEF Alone
      <3>2. e \in members[b] => e \in redone
        BY <1>14
      <3>3. QED
        BY <3>1, <3>2
    <2>2. ASSUME NEW a \in Clusters, NEW b \in Clusters, a # b
          PROVE  members'[a] \cap members'[b] \subseteq redone'
      <3>1. CASE a # c /\ b # c
        BY <1>1, <1>2, <1>8, <2>2, <3>1 DEF Alone
      <3>2. CASE a = c
        BY <1>1, <1>8, <2>1, <2>2, <3>2
      <3>3. CASE b = c
        BY <1>1, <1>8, <2>1, <2>2, <3>3
      <3>4. QED
        BY <3>1, <3>2, <3>3
    <2>3. ASSUME NEW d \in Episodes, Hidden(d)'
          PROVE  run'[d].pc \in {"saved", "done"} \/ d \in redone'
      <3>1. CASE d = e
        BY <1>4, <1>6, <3>1
      <3>2. CASE d # e
        BY <1>1, <1>2, <1>6, <1>9, <2>3, <3>2, EntryIs DEF Alone
      <3>3. QED
        BY <3>1, <3>2
    <2>4. QED
      BY <1>6, <2>2, <2>3 DEF Alone
  <1>17. Clustered'
    <2>1. ASSUME NEW b \in Clusters \ raced' PROVE Apart(b)' /\ Counts(b)' /\ Shows(b)'
      <3>1. Apart(b) /\ Counts(b) /\ Shows(b) /\ (b = c => c # ref.cluster)
        BY <1>1, <1>2, <2>1 DEF Clustered
      <3>2. CASE b # c
        <4>1. members'[b] = members[b] /\ count'[b] = count[b]
          BY <1>8, <3>2
        <4>2. Apart(b)'
          BY <1>1, <1>6, <3>1, <4>1 DEF Apart, Here
        <4>3. Counts(b)' /\ Shows(b)'
          BY <1>1, <1>2, <1>9, <3>1, <4>1 DEF Counts, Shows, Here
        <4>4. QED
          BY <4>2, <4>3
      <3>3. CASE b = c
        <4>1. ref.cluster # c /\ run[e].seen[c] = members[c] /\ run[e].size[c] = count[c]
          BY <1>1, <3>1, <3>3 DEF Apart
        <4>2. members'[c] = members[c] \cup {e} /\ count'[c] = count[c] + 1
          BY <1>8, <4>1
        <4>3. Apart(c)'
          BY <1>1, <1>6, <4>1 DEF Apart, Here
        <4>4. Counts(c)'
          <5>1. CASE torn \/ c \in redone
            BY <1>1, <5>1 DEF Counts
          <5>2. CASE ~torn /\ c \notin redone
            <6>1. count[c] = Cardinality(members[c]) /\ e \notin members[c]
              BY <1>14, <3>1, <3>3, <4>1, <5>2 DEF Counts, Here
            <6>2. Cardinality(members[c] \cup {e}) = Cardinality(members[c]) + 1
              BY <6>1, MembersFinite, FS_AddElement
            <6>3. QED
              BY <4>2, <6>1, <6>2 DEF Counts
          <5>3. QED
            BY <5>1, <5>2
        <4>5. Shows(c)'
          <5>1. CASE torn
            BY <1>1, <5>1 DEF Shows
          <5>2. CASE ~torn
            <6>1. \A x \in members[c] \ redone : ~Hidden(x)
              BY <3>1, <3>3, <4>1, <5>2 DEF Shows, Here
            <6>2. Hidden(e) => e \in redone
              BY <1>2, <1>3 DEF Alone
            <6>3. \A x \in members'[c] \ redone' : ~Hidden(x)'
              BY <1>1, <1>2, <1>3, <1>9, <4>2, <6>1, <6>2
            <6>4. QED
              BY <6>3 DEF Shows
          <5>3. QED
            BY <5>1, <5>2
        <4>6. QED
          BY <3>3, <4>3, <4>4, <4>5
      <3>4. QED
        BY <3>2, <3>3
    <2>2. QED
      BY <2>1 DEF Clustered
  <1>18. NothingForgotten'
    <2>1. \A d \in Episodes : Live(d)' = Live(d)
      BY <1>1, <1>9 DEF Live
    <2>2. QED
      BY <1>1, <1>2, <2>1 DEF NothingForgotten
  <1>19. QED
    BY <1>10, <1>11, <1>12, <1>13, <1>15, <1>16, <1>17, <1>18, Assembles

-----------------------------------------------------------------------------
(* Reflection: reading and merging *)

\* A step of the reflection's own state.
LEMMA GoesOnKeeps ==
    ASSUME IInv, UNCHANGED <<text, ended, row, members, count, run, faults, left, raced, redone, torn>>,
           reflections' \in 0..MaxReflections, ref' \in RefType,
           ref'.used \subseteq ref'.read, ref'.read \subseteq ref'.had, ref'.had \subseteq Written,
           Merging', \A c \in Clusters \ raced : Apart(c)',
           ref.pc \notin {"hide", "remove", "add", "metadata"}
    PROVE  IInv'
  <1>1. /\ TypeOK /\ Known /\ Homes /\ Alone /\ Clustered /\ NothingForgotten
        /\ run \in [Episodes -> RunType] /\ \A e \in Episodes : Runs(e)
    BY Parts
  <1>2. \A x \in Entry : Hidden(x)' = Hidden(x)
    BY DEF Hidden
  <1>3. TypeOK'
    BY <1>1, Types DEF TypeOK
  <1>4. \A e \in Episodes : Runs(e)'
    BY <1>1 DEF Runs, Busy
  <1>5. Known'
    BY <1>1, <1>2 DEF Known, Written, Listed
  <1>6. Homes' /\ Alone'
    BY <1>1, <1>2, EntryIs DEF Homes, Alone, Listed
  <1>7. Clustered'
    <2>1. ASSUME NEW c \in Clusters \ raced PROVE Counts(c)' /\ Shows(c)'
      <3>1. /\ Counts(c) /\ Shows(c) /\ members[c] \subseteq Entry
            /\ ~Here(c, {"add", "metadata"}) /\ ~Here(c, {"hide", "remove"})
        BY <1>1, Parts DEF Clustered, Here
      <3>2. torn \/ c \in redone \/ count[c] = Cardinality(members[c])
        BY <3>1 DEF Counts
      <3>3. torn \/ \A x \in members[c] \ redone : ~Hidden(x)
        BY <3>1 DEF Shows
      <3>4. QED
        BY <1>2, <3>1, <3>2, <3>3 DEF Counts, Shows
    <2>2. QED
      BY <2>1 DEF Clustered
  <1>8. NothingForgotten'
    <2>1. \A e \in Episodes : Live(e)' = Live(e)
      BY <1>2 DEF Live
    <2>2. QED
      BY <1>1, <2>1 DEF NothingForgotten
  <1>9. QED
    BY <1>3, <1>4, <1>5, <1>6, <1>7, <1>8, Assembles

\* The reflection ends, or has not merged yet.
LEMMA EarlyKeeps ==
    ASSUME IInv, UNCHANGED <<text, ended, row, members, count, run, faults, left, raced, redone, torn>>,
           reflections' \in 0..MaxReflections, ref' \in RefType,
           ref'.used \subseteq ref'.read, ref'.read \subseteq ref'.had, ref'.had \subseteq Written,
           ref.pc \notin {"hide", "remove", "add", "metadata"},
           ref'.pc \in {"idle", "fetch", "merge"},
           ref'.pc = "idle" => ref'.cluster = None,
           ref'.used = {}, ref'.pc = "merge" => ref'.read # {},
           ref'.pc # "idle" => ref'.cluster \in Clusters
                               /\ (ref'.cluster \notin raced => members[ref'.cluster] = ref'.had)
    PROVE  IInv'
  <1>1. Clustered
    BY Parts
  <1>2. Merging'
    BY DEF Merging
  <1>3. ASSUME NEW c \in Clusters \ raced PROVE Apart(c)'
    <2>1. Apart(c) /\ c # None
      BY <1>1, EntryIs DEF Clustered
    <2>2. QED
      BY <2>1 DEF Apart, Here, Listed
  <1>4. QED
    BY <1>2, <1>3, GoesOnKeeps

LEMMA ReflectKeeps ==
    ASSUME IInv, NEW c \in Clusters, Reflect(c)
    PROVE  IInv'
  <1> DEFINE r == [NoRef EXCEPT !.pc = "fetch", !.cluster = c, !.had = members[c]]
  <1>1. /\ ref.pc = "idle" /\ reflections < MaxReflections /\ reflections' = reflections + 1
        /\ ref' = r
        /\ UNCHANGED <<text, ended, row, members, count, run, faults, left, raced, redone, torn>>
    BY DEF Reflect, history
  <1>2. TypeOK /\ Known /\ members[c] \subseteq Entry
    BY Parts
  <1>3. /\ r \in RefType /\ r.pc = "fetch" /\ r.cluster = c /\ r.had = members[c]
        /\ r.read = {} /\ r.used = {}
    BY <1>2, NoRefIs DEF RefType, RefPc
  <1> HIDE DEF r
  <1>4. reflections' \in 0..MaxReflections
    BY <1>1, <1>2, EntryIs DEF TypeOK
  <1>5. members[c] \subseteq Written
    BY <1>2 DEF Known
  <1>6. QED
    BY <1>1, <1>3, <1>4, <1>5, EarlyKeeps

LEMMA EndsIs ==
    ASSUME IInv, ref' = NoRef
    PROVE  /\ ref' \in RefType /\ ref'.used \subseteq ref'.read /\ ref'.read \subseteq ref'.had
           /\ ref'.had \subseteq Written /\ ref'.pc = "idle" /\ ref'.cluster = None
           /\ ref'.used = {}
  BY NoRefIs

LEMMA FetchKeeps ==
    ASSUME IInv, Fetch
    PROVE  IInv'
  <1> DEFINE found == {x \in ref.had : row[x] # "none"}
             r == [ref EXCEPT !.pc = "merge", !.read = found]
  <1>1. /\ ref.pc = "fetch" /\ ref' = IF found = {} THEN NoRef ELSE r
        /\ reflections' = reflections
        /\ UNCHANGED <<text, ended, row, members, count, run, faults, left, raced, redone, torn>>
    BY DEF Fetch, history, counts
  <1>2. /\ TypeOK /\ Known /\ Merging /\ Clustered /\ ref \in RefType
        /\ reflections' \in 0..MaxReflections /\ ref.had \subseteq Entry
    BY <1>1, Parts DEF TypeOK, RefType
  <1>3. found \subseteq ref.had
    OBVIOUS
  <1> HIDE DEF found
  <1>4. /\ r \in RefType /\ r.pc = "merge" /\ r.cluster = ref.cluster /\ r.had = ref.had
        /\ r.read = found /\ r.used = ref.used
    BY <1>2, <1>3 DEF RefType, RefPc
  <1> HIDE DEF r
  <1>5. ref.used = {} /\ ref.had \subseteq Written /\ ref.cluster \in Clusters
    BY <1>1, <1>2 DEF Merging, Known
  <1>6. ref.cluster \notin raced => members[ref.cluster] = ref.had
    BY <1>1, <1>2, <1>5 DEF Clustered, Apart, Here
  <1>7. CASE found = {}
    BY <1>1, <1>2, <1>7, EndsIs, EarlyKeeps
  <1>8. CASE found # {}
    BY <1>1, <1>2, <1>3, <1>4, <1>5, <1>6, <1>8, EarlyKeeps
  <1>9. QED
    BY <1>7, <1>8

LEMMA WriteMergedKeeps ==
    ASSUME IInv, NEW m \in Merged, WriteMerged(m)
    PROVE  IInv'
  <1> DEFINE old == ref.read \cap Merged
             new == ref.read \ Merged
  <1>1. PICK first \in IF old = {} THEN {{}} ELSE {{o} : o \in old} :
          /\ text' = [text EXCEPT ![m] = UNION {text[x] : x \in new \cup first}]
          /\ ref' = [ref EXCEPT !.pc = "wait", !.merged = m, !.used = new \cup first]
    BY DEF WriteMerged
  <1>2. /\ ref.pc = "merge" /\ text[m] = {}
        /\ ended' = ended /\ row' = row /\ members' = members /\ count' = count /\ run' = run
        /\ reflections' = reflections /\ faults' = faults
        /\ left' = left /\ raced' = raced /\ redone' = redone /\ torn' = torn
    BY DEF WriteMerged, counts, history
  <1>3. /\ TypeOK /\ Known /\ Merging /\ Homes /\ Alone /\ Clustered /\ NothingForgotten
        /\ run \in [Episodes -> RunType] /\ ref \in RefType /\ \A d \in Episodes : Runs(d)
        /\ text \in [Entry -> SUBSET Episodes] /\ m \in Entry /\ m \notin Episodes
        /\ ref.read \subseteq ref.had /\ ref.had \subseteq Written /\ ref.had \subseteq Entry
        /\ ref.read # {} /\ ref.cluster \in Clusters
    BY <1>2, Parts, EntryIs DEF TypeOK, Known, Merging, RefType
  <1> DEFINE used == new \cup first
             whole == UNION {text[x] : x \in used}
             r == [ref EXCEPT !.pc = "wait", !.merged = m, !.used = used]
  <1>4. used \subseteq ref.read /\ used # {}
    <2>1. CASE old = {}
      BY <1>1, <1>3, <2>1
    <2>2. CASE old # {}
      <3>1. PICK o \in old : first = {o}
        BY <1>1, <2>2
      <3>2. QED
        BY <3>1
    <2>3. QED
      BY <2>1, <2>2
  <1>5. text' = [text EXCEPT ![m] = whole] /\ ref' = r
    BY <1>1
  <1> HIDE DEF used
  <1>6. used \subseteq Entry /\ used \subseteq Written
    BY <1>3, <1>4
  <1>7. /\ \A x \in used : text[x] \subseteq whole
        /\ whole \subseteq Episodes /\ whole # {}
    <2>1. \A x \in used : text[x] \subseteq whole /\ text[x] \subseteq Episodes /\ text[x] # {}
      BY <1>3, <1>6 DEF Written
    <2>2. whole \subseteq Episodes
      BY <2>1
    <2>3. whole # {}
      BY <1>4, <2>1
    <2>4. QED
      BY <2>1, <2>2, <2>3
  <1> HIDE DEF whole
  <1>8. /\ r \in RefType /\ r.pc = "wait" /\ r.cluster = ref.cluster /\ r.had = ref.had
        /\ r.read = ref.read /\ r.used = used /\ r.merged = m
    BY <1>3, <1>6 DEF RefType, RefPc
  <1> HIDE DEF r
  <1>9. /\ text' \in [Entry -> SUBSET Episodes] /\ text'[m] = whole
        /\ \A x \in Entry \ {m} : text'[x] = text[x]
        /\ Written' = Written \cup {m} /\ m \notin Written
    BY <1>2, <1>3, <1>5, <1>7 DEF Written
  <1>10. \A x \in Entry : Hidden(x)' = Hidden(x)
    BY <1>2 DEF Hidden
  <1>11. /\ ~Hidden(m) /\ m \notin ref.had /\ \A c \in Clusters : m \notin members[c]
         /\ \A e \in Episodes, c \in Clusters : Listed(e) => m \notin run[e].seen[c]
    BY <1>3, <1>9 DEF Known
  <1>12. TypeOK'
    BY <1>2, <1>3, <1>4, <1>5, <1>8, <1>9, Types, Parts DEF TypeOK
  <1>13. \A d \in Episodes : Runs(d)'
    BY <1>2, <1>3, <1>9, EntryIs DEF Runs, Busy
  <1>14. Known'
    BY <1>2, <1>3, <1>5, <1>8, <1>9, <1>10 DEF Known, Listed
  <1>15. Merging'
    <2>1. \A x \in used : text'[x] \subseteq text'[m]
      BY <1>6, <1>7, <1>9
    <2>2. ~Hidden(m)' /\ m \in Written' /\ m \in Merged
      BY <1>3, <1>9, <1>10, <1>11
    <2>3. /\ \A c \in Clusters : m \notin members'[c]
          /\ \A e \in Episodes, c \in Clusters : Listed(e)' => m \notin run'[e].seen[c]
      BY <1>2, <1>11 DEF Listed
    <2>4. ref'.merged = m /\ ref'.used = used /\ ref'.had = ref.had /\ ref'.cluster = ref.cluster
          /\ ref'.pc = "wait"
      BY <1>5, <1>8
    <2>5. ~Hidden(ref.merged)'
      BY <2>2, <2>4 DEF Hidden
    <2>6. QED
      BY <1>3, <1>11, <2>1, <2>2, <2>3, <2>4, <2>5 DEF Merging
  <1>16. Homes' /\ Alone'
    BY <1>2, <1>3, <1>10, EntryIs DEF Homes, Alone, Listed
  <1>17. Clustered'
    <2>1. ASSUME NEW c \in Clusters \ raced PROVE Apart(c)' /\ Counts(c)' /\ Shows(c)'
      <3>1. Apart(c) /\ Counts(c) /\ Shows(c) /\ members[c] \subseteq Entry
        BY <1>3, Parts DEF Clustered
      <3>2. Apart(c)'
        BY <1>2, <1>5, <1>8, <3>1 DEF Apart, Here, Listed
      <3>3. Counts(c)' /\ Shows(c)'
        BY <1>2, <1>5, <1>8, <1>10, <3>1 DEF Counts, Shows, Here
      <3>4. QED
        BY <3>2, <3>3
    <2>2. QED
      BY <1>2, <2>1 DEF Clustered
  <1>18. NothingForgotten'
    <2>1. ASSUME NEW d \in Episodes, text'[d] # {}, left' = {} PROVE Live(d)' # {}
      <3>1. Live(d) # {}
        BY <1>2, <1>3, <1>9, <2>1, EntryIs DEF NothingForgotten
      <3>2. PICK x \in Entry : d \in text[x] /\ ~Hidden(x)
        BY <3>1 DEF Live
      <3>3. x # m
        BY <1>2, <3>2
      <3>4. x \in Live(d)'
        BY <1>9, <1>10, <3>2, <3>3 DEF Live
      <3>5. QED
        BY <3>4
    <2>2. QED
      BY <2>1 DEF NothingForgotten
  <1>19. QED
    BY <1>12, <1>13, <1>14, <1>15, <1>16, <1>17, <1>18, Assembles

LEMMA ExtractedKeeps ==
    ASSUME IInv, Extracted
    PROVE  IInv'
  <1> DEFINE r == [ref EXCEPT !.pc = "resolve"]
  <1>1. /\ ref.pc = "wait" /\ ref' = r /\ reflections' = reflections
        /\ UNCHANGED <<text, ended, row, members, count, run, faults, left, raced, redone, torn>>
    BY DEF Extracted, Next1, history, counts
  <1>2. /\ TypeOK /\ Known /\ Merging /\ Clustered /\ ref \in RefType
    BY Parts
  <1>3. /\ r \in RefType /\ r.pc = "resolve" /\ r.cluster = ref.cluster /\ r.had = ref.had
        /\ r.read = ref.read /\ r.used = ref.used /\ r.merged = ref.merged
    BY <1>2 DEF RefType, RefPc
  <1> HIDE DEF r
  <1>4. Merging'
    BY <1>1, <1>2, <1>3 DEF Merging, Written, Hidden, Listed
  <1>5. ASSUME NEW c \in Clusters \ raced PROVE Apart(c)'
    BY <1>1, <1>2, <1>3 DEF Clustered, Apart, Here, Listed
  <1>6. /\ reflections' \in 0..MaxReflections /\ ref'.used \subseteq ref'.read
        /\ ref'.read \subseteq ref'.had /\ ref'.had \subseteq Written
    BY <1>1, <1>2, <1>3 DEF TypeOK, Known
  <1>7. QED
    BY <1>1, <1>3, <1>4, <1>5, <1>6, GoesOnKeeps

LEMMA ResolveKeeps ==
    ASSUME IInv, Resolve
    PROVE  IInv'
  <1> DEFINE both == ref.had \cap members[ref.cluster]
             r == [ref EXCEPT !.pc = "patch", !.out = both]
  <1>1. /\ ref.pc = "resolve" /\ ref' = IF both = {} THEN NoRef ELSE r
        /\ reflections' = reflections
        /\ UNCHANGED <<text, ended, row, members, count, run, faults, left, raced, redone, torn>>
    BY DEF Resolve, history, counts
  <1>2. /\ TypeOK /\ Known /\ Merging /\ Clustered /\ ref \in RefType
        /\ reflections' \in 0..MaxReflections /\ ref.had \subseteq Entry
    BY <1>1, Parts DEF TypeOK, RefType
  <1>3. both \subseteq ref.had /\ both \subseteq members[ref.cluster]
        /\ both = ref.had \cap members[ref.cluster]
    OBVIOUS
  <1> HIDE DEF both
  <1>4. /\ r \in RefType /\ r.pc = "patch" /\ r.cluster = ref.cluster /\ r.had = ref.had
        /\ r.read = ref.read /\ r.used = ref.used /\ r.merged = ref.merged /\ r.out = both
    BY <1>2, <1>3 DEF RefType, RefPc
  <1> HIDE DEF r
  <1>5. CASE both = {}
    BY <1>1, <1>2, <1>5, EndsIs, EarlyKeeps
  <1>6. CASE both # {}
    <2>1. ref' = r
      BY <1>1, <1>6
    <2>2. Merging'
      BY <1>1, <1>2, <1>3, <1>4, <2>1 DEF Merging, Written, Hidden, Listed
    <2>3. ASSUME NEW c \in Clusters \ raced PROVE Apart(c)'
      BY <1>1, <1>2, <1>3, <1>4, <2>1 DEF Clustered, Apart, Here, Listed
    <2>4. /\ ref'.used \subseteq ref'.read
          /\ ref'.read \subseteq ref'.had /\ ref'.had \subseteq Written
      BY <1>1, <1>2, <1>4, <2>1 DEF TypeOK, Known
    <2>5. QED
      BY <1>1, <1>2, <1>4, <2>1, <2>2, <2>3, <2>4, GoesOnKeeps
  <1>7. QED
    BY <1>5, <1>6

-----------------------------------------------------------------------------
(* Reflection: the deprecations and the cluster *)

\* A step that hides some of what goes.
LEMMA HidingKeeps ==
    ASSUME IInv, NEW X \in SUBSET ref.out, ref.pc \in {"patch", "hide"},
           UNCHANGED <<text, members, count, run, reflections, faults, raced, redone, torn>>,
           ended' \subseteq Entry, row' \in [Entry -> {"none", "live", "deprecated"}],
           \A x \in Entry : Hidden(x)' <=> Hidden(x) \/ x \in X,
           \A x \in Entry : row'[x] # "none" => row[x] # "none",
           left' = left \cup (X \ ref.used),
           NEW pc \in {"hide", "remove"}, ref' = [ref EXCEPT !.pc = pc]
    PROVE  IInv'
  <1> DEFINE c0 == ref.cluster
  <1>1. /\ TypeOK /\ Known /\ Merging /\ Homes /\ Alone /\ Clustered /\ NothingForgotten
        /\ run \in [Episodes -> RunType] /\ ref \in RefType /\ \A d \in Episodes : Runs(d)
        /\ \A c \in Clusters : members[c] \subseteq Entry
    BY Parts
  <1>2. /\ ref' \in RefType /\ ref'.pc = pc /\ ref'.cluster = ref.cluster /\ ref'.had = ref.had
        /\ ref'.read = ref.read /\ ref'.used = ref.used /\ ref'.merged = ref.merged
        /\ ref'.out = ref.out
    BY <1>1 DEF RefType, RefPc
  <1>3. /\ ref.merged \in Merged /\ ref.merged \in Written /\ ref.merged \notin ref.had
        /\ ~Hidden(ref.merged) /\ (\A x \in ref.used : text[x] \subseteq text[ref.merged])
        /\ ref.out \subseteq ref.had /\ ref.out \subseteq members[c0] /\ c0 \in Clusters
        /\ ref.had \subseteq Written /\ ref.had \subseteq Entry
    BY <1>1 DEF Merging, Known, RefType
  <1>4. X \subseteq ref.had /\ X \subseteq members[c0] /\ X \subseteq Entry
    BY <1>3
  <1>5. ~(ref.merged \in X) /\ ref.merged \in Entry
    BY <1>3, <1>4, EntryIs
  <1>6. TypeOK'
    <2>1. left' \subseteq Entry
      BY <1>1, <1>4 DEF TypeOK
    <2>2. QED
      BY <1>1, <1>2, <2>1, Types DEF TypeOK
  <1>7. \A d \in Episodes : Runs(d)'
    BY <1>1 DEF Runs, Busy
  <1>8. Known'
    <2>1. \A x \in Entry : Hidden(x)' \/ row'[x] # "none" => x \in Written'
      BY <1>1, <1>3, <1>4 DEF Known, Written
    <2>2. QED
      BY <1>1, <1>2, <2>1 DEF Known, Written, Listed
  <1>9. Merging'
    <2>1. ~Hidden(ref.merged)'
      <3> DEFINE m == ref.merged
      <3>1. m \in Entry /\ m \notin X /\ ~Hidden(m)
        BY <1>3, <1>5
      <3>2. m' = m
        BY <1>2
      <3> HIDE DEF m
      <3>3. ~Hidden(m)'
        BY <3>1, <3>2 DEF Hidden
      <3>4. QED
        BY <3>3 DEF m
    <2>2. QED
      BY <1>1, <1>2, <1>3, <2>1 DEF Merging, Written, Listed
  <1>10. Homes'
    BY <1>1 DEF Homes, Listed
  <1>11. Alone'
    <2>1. ASSUME NEW e \in Episodes, Hidden(e)'
          PROVE  run'[e].pc \in {"saved", "done"} \/ e \in redone'
      <3>1. Hidden(e) \/ e \in members[c0]
        BY <1>4, <2>1, EntryIs
      <3>2. e \in members[c0] => run[e].pc \in {"saved", "done"} \/ e \in redone
        BY <1>1, <1>3 DEF Homes
      <3>3. QED
        BY <1>1, <3>1, <3>2 DEF Alone
    <2>2. QED
      BY <1>1, <2>1 DEF Alone, Listed
  <1>12. Clustered'
    <2>1. ASSUME NEW c \in Clusters \ raced PROVE Apart(c)' /\ Counts(c)' /\ Shows(c)'
      <3>1. Apart(c) /\ Counts(c) /\ Shows(c)
        BY <1>1 DEF Clustered
      <3>2. Apart(c)'
        BY <1>2, <3>1 DEF Apart, Here, Listed
      <3>3. Counts(c)'
        BY <1>2, <3>1 DEF Counts, Here
      <3>4. Shows(c)'
        <4>1. CASE c = c0
          BY <1>2, <4>1 DEF Shows, Here
        <4>2. CASE c # c0
          <5>1. members[c] \cap members[c0] \subseteq redone
            BY <1>1, <1>3, <4>2 DEF Alone
          <5>2. \A x \in members[c] \ redone : x \in Entry /\ x \notin X
            BY <1>1, <1>4, <5>1
          <5>3. QED
            BY <1>1, <3>1, <4>2, <5>2 DEF Shows, Here
        <4>3. QED
          BY <4>1, <4>2
      <3>5. QED
        BY <3>2, <3>3, <3>4
    <2>2. QED
      BY <2>1 DEF Clustered
  <1>13. NothingForgotten'
    <2>1. ASSUME NEW d \in Episodes, text'[d] # {}, left' = {} PROVE Live(d)' # {}
      <3>1. left = {} /\ X \subseteq ref.used
        BY <2>1
      <3>2. PICK x \in Entry : d \in text[x] /\ ~Hidden(x)
        BY <1>1, <2>1, <3>1 DEF NothingForgotten, Live
      <3>3. CASE x \notin X
        <4>1. x \in Live(d)'
          BY <3>2, <3>3 DEF Live
        <4>2. QED
          BY <4>1
      <3>4. CASE x \in X
        <4> DEFINE m == ref.merged
        <4>1. d \in text[m] /\ m \in Entry /\ m \notin X /\ ~Hidden(m)
          BY <1>3, <1>5, <3>1, <3>2, <3>4
        <4>2. m' = m
          BY <1>2
        <4> HIDE DEF m
        <4>3. m \in Live(d)'
          BY <4>1, <4>2 DEF Live
        <4>4. QED
          BY <4>3
      <3>5. QED
        BY <3>3, <3>4
    <2>2. QED
      BY <2>1 DEF NothingForgotten
  <1>14. QED
    BY <1>6, <1>7, <1>8, <1>9, <1>10, <1>11, <1>12, <1>13, Assembles

LEMMA PatchKeeps ==
    ASSUME IInv, Patch
    PROVE  IInv'
  <1> DEFINE X == ref.out \cap ref.read
  <1>1. /\ ref.pc = "patch" /\ ended' = ended \cup X
        /\ left' = left \cup (X \ ref.used) /\ ref' = [ref EXCEPT !.pc = "hide"]
        /\ row' = row
        /\ UNCHANGED <<text, members, count, run, reflections, faults, raced, redone, torn>>
    BY DEF Patch, Next1, counts
  <1>2. X \in SUBSET ref.out
    OBVIOUS
  <1>3. TypeOK /\ ref.out \subseteq Entry
    BY Parts DEF RefType
  <1>4. ended' \subseteq Entry /\ row' \in [Entry -> {"none", "live", "deprecated"}]
    BY <1>1, <1>3 DEF TypeOK
  <1> HIDE DEF X
  <1>5. \A x \in Entry : Hidden(x)' <=> Hidden(x) \/ x \in X
    BY <1>1 DEF Hidden
  <1>6. QED
    BY <1>1, <1>2, <1>4, <1>5, HidingKeeps

LEMMA HideKeeps ==
    ASSUME IInv, Hide
    PROVE  IInv'
  <1> DEFINE gone == {x \in ref.out : row[x] # "none"}
  <1>1. /\ ref.pc = "hide" /\ row' = [x \in Entry |-> IF x \in gone THEN "deprecated" ELSE row[x]]
        /\ left' = left \cup ((gone \cap ref.had) \ ref.used) /\ ref' = [ref EXCEPT !.pc = "remove"]
        /\ ended' = ended
        /\ UNCHANGED <<text, members, count, run, reflections, faults, raced, redone, torn>>
    BY DEF Hide, Next1, counts
  <1>2. /\ gone \in SUBSET ref.out
        /\ \A x \in gone : row[x] # "none"
    OBVIOUS
  <1> HIDE DEF gone
  <1>3. TypeOK /\ ref.out \subseteq ref.had
    BY <1>1, Parts DEF Merging
  <1>4. ended' \subseteq Entry /\ row' \in [Entry -> {"none", "live", "deprecated"}]
    BY <1>1, <1>3 DEF TypeOK
  <1>5. \A x \in Entry : Hidden(x)' <=> Hidden(x) \/ x \in gone
    BY <1>1 DEF Hidden
  <1>6. \A x \in Entry : row'[x] # "none" => row[x] # "none"
    BY <1>1, <1>2
  <1>7. left' = left \cup (gone \ ref.used)
    BY <1>1, <1>2, <1>3
  <1>8. QED
    BY <1>1, <1>2, <1>4, <1>5, <1>6, <1>7, HidingKeeps

\* A step on the cluster: only its members and its count change.
LEMMA ClusterKeeps ==
    ASSUME IInv, ref.pc \in {"remove", "add", "metadata"}, Beside,
           UNCHANGED <<text, ended, row, run, reflections, faults, left, redone, torn>>,
           ref' \in RefType, ref'.used \subseteq ref'.read, ref'.read \subseteq ref'.had,
           ref'.had \subseteq Written, ref'.cluster \in {None, ref.cluster},
           ref'.pc \in {"add", "metadata", "idle"},
           NEW s \in SUBSET Entry, members' = [members EXCEPT ![ref.cluster] = s],
           s \subseteq members[ref.cluster] \/ (ref.pc = "add" /\ s = members[ref.cluster] \cup {ref.merged}),
           NEW n \in Nat, count' = [count EXCEPT ![ref.cluster] = n],
           Merging',
           ref.cluster \notin raced =>
             /\ ref'.cluster = ref.cluster /\ ref'.pc = "add" => s = {}
             /\ ref'.cluster = ref.cluster /\ ref'.pc = "metadata" => s = {ref'.merged}
             /\ (ref'.cluster = ref.cluster /\ ref'.pc \in {"add", "metadata"}) \/ n = Cardinality(s)
             /\ torn \/ \A x \in s \ redone : ~Hidden(x)
    PROVE  IInv'
  <1> DEFINE c0 == ref.cluster
  <1>1. /\ TypeOK /\ Known /\ Merging /\ Homes /\ Alone /\ Clustered /\ NothingForgotten
        /\ run \in [Episodes -> RunType] /\ ref \in RefType /\ \A d \in Episodes : Runs(d)
        /\ members \in [Clusters -> SUBSET Entry] /\ count \in [Clusters -> Nat]
        /\ \A c \in Clusters : members[c] \subseteq Entry
    BY Parts
  <1>2. /\ c0 \in Clusters /\ c0 # None
        /\ ref.merged \in Merged /\ ref.merged \in Written
        /\ ref.pc \in {"remove", "add"} =>
             /\ \A c \in Clusters : ref.merged \notin members[c]
             /\ \A e \in Episodes, c \in Clusters : Listed(e) => ref.merged \notin run[e].seen[c]
    BY <1>1, EntryIs DEF Merging
  <1>3. /\ raced \subseteq raced' /\ raced' \subseteq Clusters
        /\ c0 \notin raced' => \A e \in Episodes : ~Listed(e)
        /\ \A c \in raced' : c \in raced \/ c = c0
    BY <1>1, <1>2 DEF Beside, Listed, TypeOK
  <1>4. /\ members' \in [Clusters -> SUBSET Entry] /\ count' \in [Clusters -> Nat]
        /\ members'[c0] = s /\ count'[c0] = n
        /\ \A c \in Clusters \ {c0} : members'[c] = members[c] /\ count'[c] = count[c]
    BY <1>1, <1>2
  <1>5. \A x \in Entry : Hidden(x)' = Hidden(x)
    BY DEF Hidden
  <1>6. \A c \in Clusters, x \in Entry : x \in members'[c] =>
          x \in members[c] \/ (x = ref.merged /\ c = c0 /\ ref.pc = "add")
    BY <1>2, <1>4
  <1>7. TypeOK'
    BY <1>1, <1>3, <1>4, Types DEF TypeOK
  <1>8. \A d \in Episodes : Runs(d)'
    BY <1>1 DEF Runs, Busy
  <1>9. Known'
    <2>1. \A c \in Clusters : members'[c] \subseteq Written
      BY <1>1, <1>2, <1>4, <1>6 DEF Known
    <2>2. QED
      BY <1>1, <1>5, <2>1 DEF Known, Written, Listed
  <1>10. Homes'
    BY <1>1, <1>2, <1>6, EntryIs DEF Homes, Listed
  <1>11. Alone'
    <2>1. ASSUME NEW b \in Clusters, NEW c \in Clusters, b # c
          PROVE  members'[b] \cap members'[c] \subseteq redone
      <3>1. ASSUME NEW x, x \in members'[b], x \in members'[c] PROVE x \in redone
        <4>1. x \in Entry
          BY <1>4, <3>1
        <4>2. x \in members[b] /\ x \in members[c]
          BY <1>2, <1>6, <2>1, <3>1, <4>1
        <4>3. QED
          BY <1>1, <2>1, <4>2 DEF Alone
      <3>2. QED
        BY <3>1
    <2>2. ASSUME NEW e \in Episodes, NEW b \in Clusters, NEW c \in Clusters, Listed(e), b # c
          PROVE  run[e].seen[b] \cap members'[c] \subseteq redone
      <3>1. ASSUME NEW x, x \in run[e].seen[b], x \in members'[c] PROVE x \in redone
        <4>1. x \in Entry
          BY <1>4, <3>1
        <4>2. x \in members[c]
          BY <1>2, <1>6, <2>2, <3>1, <4>1
        <4>3. QED
          BY <1>1, <2>2, <3>1, <4>2 DEF Alone
      <3>2. QED
        BY <3>1
    <2>3. QED
      BY <1>1, <1>5, <2>1, <2>2, EntryIs DEF Alone, Listed
  <1>12. Clustered'
    <2>1. ASSUME NEW c \in Clusters \ raced' PROVE Apart(c)' /\ Counts(c)' /\ Shows(c)'
      <3>1. Apart(c) /\ Counts(c) /\ Shows(c) /\ c \notin raced /\ c # None
        BY <1>1, <1>3, <2>1, EntryIs DEF Clustered
      <3>2. CASE c # c0
        <4>1. members'[c] = members[c] /\ count'[c] = count[c] /\ ref'.cluster # c /\ ref.cluster # c
          BY <1>4, <3>1, <3>2
        <4>2. Apart(c)'
          BY <3>1, <4>1 DEF Apart, Here, Listed
        <4>3. Counts(c)' /\ Shows(c)'
          BY <1>1, <1>5, <3>1, <4>1 DEF Counts, Shows, Here
        <4>4. QED
          BY <4>2, <4>3
      <3>3. CASE c = c0
        <4>1. /\ \A e \in Episodes : ~Listed(e)'
              /\ members'[c] = s /\ count'[c] = n
          BY <1>3, <1>4, <2>1, <3>3 DEF Listed
        <4>2. /\ ref'.cluster = c /\ ref'.pc = "add" => s = {}
              /\ ref'.cluster = c /\ ref'.pc = "metadata" => s = {ref'.merged}
              /\ (ref'.cluster = c /\ ref'.pc \in {"add", "metadata"}) \/ n = Cardinality(s)
              /\ torn \/ \A x \in s \ redone : ~Hidden(x)
          BY <3>1, <3>3
        <4>3. Apart(c)'
          BY <4>1, <4>2 DEF Apart, Here
        <4>4. Counts(c)'
          BY <4>1, <4>2 DEF Counts, Here
        <4>5. Shows(c)'
          BY <1>5, <4>1, <4>2 DEF Shows
        <4>6. QED
          BY <4>3, <4>4, <4>5
      <3>4. QED
        BY <3>2, <3>3
    <2>2. QED
      BY <2>1 DEF Clustered
  <1>13. NothingForgotten'
    <2>1. \A d \in Episodes : Live(d)' = Live(d)
      BY <1>5 DEF Live
    <2>2. QED
      BY <1>1, <2>1 DEF NothingForgotten
  <1>14. QED
    BY <1>7, <1>8, <1>9, <1>10, <1>11, <1>12, <1>13, Assembles


\* The cluster in hand: its merged entry, and its parts when nothing raced on it.
LEMMA InHand ==
    ASSUME IInv, ref.pc \in {"remove", "add", "metadata"}
    PROVE  /\ ref.cluster \in Clusters /\ members[ref.cluster] \in SUBSET Entry
           /\ count[ref.cluster] \in Nat
           /\ members' = members => members' = [members EXCEPT ![ref.cluster] = members[ref.cluster]]
           /\ count' = count => count' = [count EXCEPT ![ref.cluster] = count[ref.cluster]]
           /\ ref.merged \in Entry /\ ref.merged \in Merged /\ ref.merged \in Written
           /\ ref.merged \notin ref.had /\ ~Hidden(ref.merged)
           /\ \A x \in ref.used : text[x] \subseteq text[ref.merged]
           /\ ref.cluster \notin raced =>
                Apart(ref.cluster) /\ Counts(ref.cluster) /\ Shows(ref.cluster)
  <1>1. Merging /\ Clustered /\ members \in [Clusters -> SUBSET Entry] /\ count \in [Clusters -> Nat]
    BY Parts
  <1>2. ref.cluster \in Clusters
    BY <1>1 DEF Merging
  <1>3. /\ ref.merged \in Merged /\ ref.merged \in Written
        /\ ref.merged \notin ref.had /\ ~Hidden(ref.merged)
        /\ \A x \in ref.used : text[x] \subseteq text[ref.merged]
    BY <1>1 DEF Merging
  <1>4. QED
    BY <1>1, <1>2, <1>3, EntryIs DEF Clustered

\* Between two writes of the cluster the merged entry stays as it is.
LEMMA MergedStays ==
    ASSUME IInv, ref.pc \in {"remove", "add"}, UNCHANGED <<text, ended, row, run>>,
           NEW pc \in {"add", "metadata"}, ref' = [ref EXCEPT !.pc = pc],
           pc = "add" => \A c \in Clusters : ref.merged \notin members'[c]
    PROVE  /\ ref' \in RefType /\ ref'.used \subseteq ref'.read /\ ref'.read \subseteq ref'.had
           /\ ref'.had \subseteq Written /\ ref'.cluster = ref.cluster /\ ref'.pc = pc
           /\ ref'.merged = ref.merged /\ Merging'
  <1> DEFINE m == ref.merged
  <1>1. TypeOK /\ Known /\ Merging /\ ref \in RefType
    BY Parts
  <1>2. /\ ref' \in RefType /\ ref'.pc = pc /\ ref'.cluster = ref.cluster /\ ref'.had = ref.had
        /\ ref'.read = ref.read /\ ref'.used = ref.used /\ ref'.merged = ref.merged
    BY <1>1 DEF RefType, RefPc
  <1>3. /\ ref.cluster \in Clusters /\ m \in Merged /\ m \in Written /\ m \notin ref.had /\ ~Hidden(m)
        /\ (\A x \in ref.used : text[x] \subseteq text[m])
    BY <1>1, InHand
  <1>4. \A e \in Episodes, c \in Clusters : Listed(e) => m \notin run[e].seen[c]
    BY <1>1 DEF Merging
  <1>5. m' = m
    BY <1>2
  <1> HIDE DEF m
  <1>6. ~Hidden(m)' /\ m \in Written'
    BY <1>3, <1>5 DEF Hidden, Written
  <1>7. ref'.merged = m /\ ~Hidden(ref.merged)'
    BY <1>2, <1>6 DEF m
  <1>8. pc = "add" => \A c \in Clusters : m \notin members'[c]
    BY DEF m
  <1>9. Merging'
    BY <1>2, <1>3, <1>4, <1>6, <1>7, <1>8 DEF Merging, Listed, Written
  <1>10. QED
    BY <1>1, <1>2, <1>9 DEF TypeOK, Known

LEMMA RemoveKeeps ==
    ASSUME IInv, Remove
    PROVE  IInv'
  <1> DEFINE s == members[ref.cluster] \ ref.out
             n == count[ref.cluster]
  <1>1. /\ ref.pc = "remove" /\ members' = [members EXCEPT ![ref.cluster] = s]
        /\ ref' = [ref EXCEPT !.pc = "add"] /\ Beside /\ count' = count
        /\ UNCHANGED <<text, ended, row, run, reflections, faults, left, redone, torn>>
    BY DEF Remove, Next1, counts
  <1>2. /\ s \in SUBSET Entry /\ n \in Nat /\ s \subseteq members[ref.cluster]
        /\ count' = [count EXCEPT ![ref.cluster] = n]
        /\ ref.cluster \in Clusters /\ members \in [Clusters -> SUBSET Entry] /\ Merging
    BY <1>1, Parts, InHand
  <1>3. ref.cluster \notin raced => s = {}
    BY <1>1, <1>2, InHand DEF Apart, Here
  <1> HIDE DEF s, n
  <1>4. \A c \in Clusters : members'[c] \subseteq members[c]
    BY <1>1, <1>2
  <1>5. \A c \in Clusters : ref.merged \notin members'[c]
    BY <1>1, <1>2, <1>4 DEF Merging
  <1>6. /\ ref' \in RefType /\ ref'.used \subseteq ref'.read /\ ref'.read \subseteq ref'.had
        /\ ref'.had \subseteq Written /\ ref'.cluster = ref.cluster /\ ref'.pc = "add" /\ Merging'
    BY <1>1, <1>5, MergedStays
  <1>7. ref.pc \in {"remove", "add", "metadata"} /\ ref'.cluster \in {None, ref.cluster}
        /\ ref'.pc \in {"add", "metadata", "idle"}
    BY <1>1, <1>6
  <1>8. ref.cluster \notin raced =>
          /\ ref'.cluster = ref.cluster /\ ref'.pc = "add" => s = {}
          /\ ref'.cluster = ref.cluster /\ ref'.pc = "metadata" => s = {ref'.merged}
          /\ (ref'.cluster = ref.cluster /\ ref'.pc \in {"add", "metadata"}) \/ n = Cardinality(s)
          /\ torn \/ \A x \in s \ redone : ~Hidden(x)
    BY <1>3, <1>6
  <1>9. QED
    BY <1>1, <1>2, <1>6, <1>7, <1>8, ClusterKeeps

LEMMA AddKeeps ==
    ASSUME IInv, Add
    PROVE  IInv'
  <1> DEFINE m == ref.merged
             s == members[ref.cluster] \cup {m}
             n == count[ref.cluster]
  <1>1. /\ ref.pc = "add" /\ members' = [members EXCEPT ![ref.cluster] = s]
        /\ ref' = [ref EXCEPT !.pc = "metadata"] /\ Beside /\ count' = count
        /\ UNCHANGED <<text, ended, row, run, reflections, faults, left, redone, torn>>
    BY DEF Add, Next1, counts
  <1>2. /\ s \in SUBSET Entry /\ n \in Nat /\ s = members[ref.cluster] \cup {ref.merged}
        /\ count' = [count EXCEPT ![ref.cluster] = n] /\ ~Hidden(m)
    BY <1>1, InHand
  <1>3. ref.cluster \notin raced => s = {m}
    BY <1>1, <1>2, InHand DEF Apart, Here
  <1>4. /\ ref' \in RefType /\ ref'.used \subseteq ref'.read /\ ref'.read \subseteq ref'.had
        /\ ref'.had \subseteq Written /\ ref'.cluster = ref.cluster /\ ref'.pc = "metadata"
        /\ ref'.merged = m /\ Merging'
    BY <1>1, MergedStays
  <1> HIDE DEF s, n, m
  <1>5. ref.pc \in {"remove", "add", "metadata"} /\ ref'.cluster \in {None, ref.cluster}
        /\ ref'.pc \in {"add", "metadata", "idle"}
    BY <1>1, <1>4
  <1>6. ref.cluster \notin raced =>
          /\ ref'.cluster = ref.cluster /\ ref'.pc = "add" => s = {}
          /\ ref'.cluster = ref.cluster /\ ref'.pc = "metadata" => s = {ref'.merged}
          /\ (ref'.cluster = ref.cluster /\ ref'.pc \in {"add", "metadata"}) \/ n = Cardinality(s)
          /\ torn \/ \A x \in s \ redone : ~Hidden(x)
    BY <1>2, <1>3, <1>4
  <1>7. QED
    BY <1>1, <1>2, <1>4, <1>5, <1>6, ClusterKeeps

LEMMA MetadataKeeps ==
    ASSUME IInv, Metadata
    PROVE  IInv'
  <1> DEFINE s == members[ref.cluster]
  <1>1. /\ ref.pc = "metadata" /\ count' = [count EXCEPT ![ref.cluster] = 1]
        /\ ref' = NoRef /\ Beside /\ members' = members
        /\ UNCHANGED <<text, ended, row, run, reflections, faults, left, redone, torn>>
    BY DEF Metadata, counts
  <1>2. /\ s \in SUBSET Entry /\ s \subseteq members[ref.cluster]
        /\ members' = [members EXCEPT ![ref.cluster] = s]
    BY <1>1, InHand
  <1>3. ref.cluster \notin raced => s = {ref.merged}
    BY <1>1, InHand DEF Apart, Here
  <1>4. ref.cluster \notin raced => torn \/ \A x \in s \ redone : ~Hidden(x)
    BY <1>1, InHand DEF Shows, Here
  <1> HIDE DEF s
  <1>5. Cardinality({ref.merged}) = 1
    BY FS_Singleton
  <1>6. /\ ref' \in RefType /\ ref'.used \subseteq ref'.read /\ ref'.read \subseteq ref'.had
        /\ ref'.had \subseteq Written /\ ref'.cluster = None /\ ref'.pc = "idle"
    BY <1>1, EndsIs
  <1>7. Merging'
    BY <1>1, NoRefIs DEF Merging
  <1>8. ref.pc \in {"remove", "add", "metadata"} /\ ref'.cluster \in {None, ref.cluster}
        /\ ref'.pc \in {"add", "metadata", "idle"} /\ 1 \in Nat
    BY <1>1, <1>6
  <1>9. ref.cluster \notin raced =>
          /\ ref'.cluster = ref.cluster /\ ref'.pc = "add" => s = {}
          /\ ref'.cluster = ref.cluster /\ ref'.pc = "metadata" => s = {ref'.merged}
          /\ (ref'.cluster = ref.cluster /\ ref'.pc \in {"add", "metadata"}) \/ 1 = Cardinality(s)
          /\ torn \/ \A x \in s \ redone : ~Hidden(x)
    BY <1>3, <1>4, <1>5, <1>6
  <1>10. QED
    BY <1>1, <1>2, <1>6, <1>7, <1>8, <1>9, ClusterKeeps

-----------------------------------------------------------------------------
(* The theorems *)

LEMMA Starting == ASSUME Init PROVE IInv
  <1>1. /\ text = [x \in Entry |-> {}] /\ ended = {} /\ row = [x \in Entry |-> "none"]
        /\ members = [c \in Clusters |-> {}] /\ count = [c \in Clusters |-> 0]
        /\ run = [e \in Episodes |-> NoRun] /\ ref = NoRef /\ reflections = 0 /\ faults = 0
        /\ left = {} /\ raced = {} /\ redone = {} /\ torn = FALSE
    BY DEF Init
  <1>2. TypeOK
    <2>1. run \in [Episodes -> RunType]
      BY <1>1, NoRunIs
    <2>2. ref \in RefType /\ ref.used \subseteq ref.read /\ ref.read \subseteq ref.had
      BY <1>1, NoRefIs
    <2>3. /\ text \in [Entry -> SUBSET Episodes] /\ ended \subseteq Entry
          /\ row \in [Entry -> {"none", "live", "deprecated"}]
          /\ members \in [Clusters -> SUBSET Entry] /\ count \in [Clusters -> Nat]
      BY <1>1
    <2>4. reflections \in 0..MaxReflections /\ faults \in 0..MaxFaults
      BY <1>1, EntryIs
    <2>5. left \subseteq Entry /\ raced \subseteq Clusters
          /\ redone \subseteq Episodes \cup Clusters /\ torn \in BOOLEAN
      BY <1>1
    <2>6. QED
      BY <2>1, <2>2, <2>3, <2>4, <2>5 DEF TypeOK, RunType, RefType
  <1>3. \A x \in Entry : ~Hidden(x)
    BY <1>1 DEF Hidden
  <1>4. \A e \in Episodes : Runs(e)
    BY <1>1, NoRunIs DEF Runs, Busy
  <1>5. Known
    BY <1>1, <1>3, NoRunIs, NoRefIs DEF Known, Listed
  <1>6. Merging
    BY <1>1, NoRefIs DEF Merging
  <1>7. Homes
    BY <1>1, NoRunIs DEF Homes, Listed
  <1>8. Alone
    BY <1>1, <1>3, NoRunIs, EntryIs DEF Alone, Listed
  <1>9. Clustered
    <2>1. ASSUME NEW c \in Clusters PROVE Apart(c) /\ Counts(c) /\ Shows(c)
      <3>1. members[c] = {} /\ count[c] = 0 /\ Cardinality({}) = 0
        BY <1>1, FS_EmptySet
      <3>2. ref.pc = "idle" /\ \A e \in Episodes : ~Listed(e)
        BY <1>1, NoRunIs, NoRefIs DEF Listed
      <3>3. QED
        BY <3>1, <3>2 DEF Apart, Counts, Shows, Here
    <2>2. QED
      BY <2>1 DEF Clustered
  <1>10. NothingForgotten
    BY <1>1, EntryIs DEF NothingForgotten
  <1>11. QED
    BY <1>2, <1>4, <1>5, <1>6, <1>7, <1>8, <1>9, <1>10 DEF IInv

LEMMA Stuttering == ASSUME IInv, UNCHANGED vars PROVE IInv'
  <1>1. /\ TypeOK /\ Known /\ Merging /\ Homes /\ Alone /\ Clustered /\ NothingForgotten
        /\ \A e \in Episodes : Runs(e)
    BY Parts
  <1>2. UNCHANGED <<text, ended, row, members, count, run, ref, reflections, faults, left, raced,
                    redone, torn>>
    BY DEF vars
  <1>3. TypeOK'
    BY <1>1, <1>2 DEF TypeOK
  <1>4. (\A e \in Episodes : Runs(e)') /\ Known' /\ Merging' /\ Homes' /\ Alone'
    BY <1>1, <1>2 DEF Runs, Busy, Known, Written, Listed, Hidden, Merging, Homes, Alone
  <1>5. Clustered'
    BY <1>1, <1>2 DEF Clustered, Apart, Counts, Shows, Here, Listed, Hidden
  <1>6. NothingForgotten'
    BY <1>1, <1>2 DEF NothingForgotten, Live, Hidden
  <1>7. QED
    BY <1>3, <1>4, <1>5, <1>6, Assembles

LEMMA Stepping == ASSUME IInv, [Next]_vars PROVE IInv'
  <1>1. CASE UNCHANGED vars
    BY <1>1, Stuttering
  <1>2. ASSUME NEW e \in Episodes, Extract(e) PROVE IInv'
    BY <1>2, ExtractKeeps
  <1>3. ASSUME NEW e \in Episodes, Clustering(e) PROVE IInv'
    BY <1>3, ListKeeps, SaveKeeps, EmitKeeps, RunFailsKeeps DEF Clustering
  <1>4. ASSUME NEW x \in Entry, Index(x) PROVE IInv'
    BY <1>4, IndexKeeps
  <1>5. ASSUME NEW c \in Clusters, Reflect(c) PROVE IInv'
    BY <1>5, ReflectKeeps
  <1>6. CASE Reflecting
    BY <1>6, FetchKeeps, WriteMergedKeeps, ExtractedKeeps, ResolveKeeps, PatchKeeps, HideKeeps,
       RemoveKeeps, AddKeeps, MetadataKeeps, ReflectionFailsKeeps DEF Reflecting
  <1>7. CASE Crash
    BY <1>7, CrashKeeps
  <1>8. QED
    BY <1>1, <1>2, <1>3, <1>4, <1>5, <1>6, <1>7 DEF Next

LEMMA Always == Spec => []IInv
  <1>1. Init => IInv
    BY Starting
  <1>2. IInv /\ [Next]_vars => IInv'
    BY Stepping
  <1>3. QED
    BY <1>1, <1>2, PTL DEF Spec

\* Every store, run and reflection of orchestrator.py keeps its type; a reflection merges
\* what it read, and reads what it listed.
THEOREM TypeCorrect == Spec => []TypeOK
  <1>1. IInv => TypeOK
    BY Parts
  <1>2. QED
    BY <1>1, Always, PTL

\* What was written stays to be found (orchestrator.py, _run): a deprecated episode's
\* content is in an entry that is not deprecated, unless something was deprecated that its
\* reflection had not merged.
THEOREM ForgottenCorrect == Spec => []NothingForgotten
  <1>1. IInv => NothingForgotten
    BY Parts
  <1>2. QED
    BY <1>1, Always, PTL

\* At rest a cluster's count is the number of its members (upsert_with_members,
\* _update_cluster_after_merge), but for repeated runs, races and reflections cut short.
THEOREM CountsCorrect == Spec => []CountsItsMembers
  <1>1. ASSUME IInv PROVE CountsItsMembers
    <2>1. SUFFICES ASSUME Rest, ~torn, NEW c \in Clusters \ (raced \cup redone)
                   PROVE  count[c] = Cardinality(members[c])
      BY DEF CountsItsMembers
    <2>2. Counts(c)
      BY <1>1, Parts DEF Clustered
    <2>3. QED
      BY <2>1, <2>2 DEF Counts, Here, Rest
  <1>2. IInv => CountsItsMembers
    BY <1>1
  <1>3. QED
    BY <1>2, Always, PTL

\* At rest what is deprecated has left its cluster (_update_cluster_after_merge), with the
\* same exceptions.
THEOREM DeprecatedCorrect == Spec => []DeprecatedLeave
  <1>1. ASSUME IInv PROVE DeprecatedLeave
    <2>1. SUFFICES ASSUME Rest, ~torn, NEW c \in Clusters \ raced, NEW x \in members[c] \ redone
                   PROVE  ~Hidden(x)
      BY DEF DeprecatedLeave
    <2>2. Shows(c)
      BY <1>1, Parts DEF Clustered
    <2>3. QED
      BY <2>1, <2>2 DEF Shows, Here, Rest
  <1>2. IInv => DeprecatedLeave
    BY <1>1
  <1>3. QED
    BY <1>2, Always, PTL

=============================================================================
