----------------------------- MODULE Projection -----------------------------
(***************************************************************************)
(* What the cascade promises to a reader of the index, without saying how: *)
(* the index may lag behind the files, but the system vouches for some     *)
(* paths, and while it vouches for a path the index shows exactly the      *)
(* file's content and nobody rewrites it.                                  *)
(***************************************************************************)
EXTENDS Naturals

CONSTANTS
    Paths,
    Mixed     \* index rows of several versions of a file

VARIABLES
    disk,     \* version of each file, 0 when it does not exist
    index,    \* version each path's index rows were built from, 0: none
    vouched   \* paths the system declares up to date

vars == <<disk, index, vouched>>

TypeOK ==
    /\ disk \in [Paths -> Nat]
    /\ index \in [Paths -> Nat \cup {Mixed}]
    /\ vouched \in SUBSET Paths

Init ==
    /\ disk = [p \in Paths |-> 0]
    /\ index = [p \in Paths |-> 0]
    /\ vouched = {}

\* A file changes: whatever was vouched for it is void at once.
Change(p) ==
    /\ disk' \in [Paths -> Nat]
    /\ \A q \in Paths \ {p} : disk'[q] = disk[q]
    /\ vouched' = vouched \ {p}
    /\ UNCHANGED index

\* Only a path that nobody vouches for is reindexed.
Reindex(p) ==
    /\ p \notin vouched
    /\ index' \in [Paths -> Nat \cup {Mixed}]
    /\ \A q \in Paths \ {p} : index'[q] = index[q]
    /\ UNCHANGED <<disk, vouched>>

Vouch(p) ==
    /\ disk[p] # 0
    /\ index[p] = disk[p]
    /\ vouched' = vouched \cup {p}
    /\ UNCHANGED <<disk, index>>

Withdraw(p) ==
    /\ vouched' = vouched \ {p}
    /\ UNCHANGED <<disk, index>>

Next == \E p \in Paths : Change(p) \/ Reindex(p) \/ Vouch(p) \/ Withdraw(p)

Spec == Init /\ [][Next]_vars
=============================================================================
