--------------------------- MODULE MdChangeState ---------------------------
(***************************************************************************)
(* The rows of the table md_change_state and what one repository call or   *)
(* one reconcile does to them (infra/persistence/sqlite/repos/             *)
(* md_change_state.py and memory/cascade/reconciler.py), as operators on   *)
(* values.  Cascade.tla says when the processes call them.                 *)
(*                                                                         *)
(* An mtime is the version number of the file content it was read from:    *)
(* every write gives a file a new version, and 0 stands both for a missing *)
(* file and for the 0.0 that the code stores when a stat fails.            *)
(* MTIME_TOLERANCE_SECONDS therefore makes no two versions equal.          *)
(***************************************************************************)
EXTENDS Integers, FiniteSets

CONSTANT Paths            \* the md paths, relative to the memory root

ChangeType == {"added", "modified", "deleted"}

Status == {"absent", "pending", "processing", "done", "failed"}

\* A row; "absent" is a path with no row.  retryable is the column's value in
\* a failed row (TRUE or FALSE) and FALSE, for NULL, in any other.
Row == [status : Status, change : ChangeType, mtime : Nat,
        retryable : BOOLEAN, retries : Nat]

NoRow == [status |-> "absent", change |-> "added", mtime |-> 0,
          retryable |-> FALSE, retries |-> 0]

\* What a scanner decision and a watcher coroutine carry to upsert.
Enqueue == [path : Paths, change : ChangeType, mtime : Nat]

-----------------------------------------------------------------------------
(* Repository calls: the new value of one row.                             *)

\* Mutant: a re-enqueue that leaves a claim in place.
UpsertedKeepingClaim(r, change, mtime) ==
    [status |-> IF r.status = "processing" THEN "processing" ELSE "pending",
     change |-> change, mtime |-> mtime, retryable |-> FALSE,
     retries |-> IF r.status = "failed" /\ r.mtime = mtime THEN r.retries
                                                           ELSE 0]

\* Mutant: a re-enqueue that forgets the attempts already made.
UpsertedForgetting(r, change, mtime) ==
    [status |-> "pending", change |-> change, mtime |-> mtime,
     retryable |-> FALSE, retries |-> 0]

Upserted(r, change, mtime) ==
    [status |-> "pending", change |-> change, mtime |-> mtime,
     retryable |-> FALSE,
     retries |-> IF r.status = "failed" /\ r.mtime = mtime THEN r.retries
                                                           ELSE 0]

\* The guarded UPDATE of claim_one and claim_pending_batch.
Claimed(r) ==
    IF r.status = "pending" THEN [r EXCEPT !.status = "processing"] ELSE r

\* Mutant: mark_done without WHERE status = 'processing'.
MarkedDoneUnguarded(r) == [r EXCEPT !.status = "done", !.retryable = FALSE]

MarkedDone(r) ==
    IF r.status = "processing"
    THEN [r EXCEPT !.status = "done", !.retryable = FALSE]
    ELSE r

\* Mutant: mark_failed that stores NULL attempts as -1.
MarkedFailedUncounted(r, retryable, count) ==
    IF r.status = "processing"
    THEN [r EXCEPT !.status = "failed", !.retryable = retryable,
                   !.retries = 0 - 1]
    ELSE r

MarkedFailed(r, retryable, count) ==
    IF r.status = "processing"
    THEN [r EXCEPT !.status = "failed", !.retryable = retryable,
                   !.retries = count]
    ELSE r

\* Mutant: no recovery of orphans at startup.
RecoveredNever(r) == r

Recovered(r) ==
    IF r.status = "processing" THEN [r EXCEPT !.status = "pending"] ELSE r

\* reset_retryable_to_pending
Refixed(r) ==
    IF r.status = "failed" /\ r.retryable
    THEN [r EXCEPT !.status = "pending", !.retryable = FALSE, !.retries = 0]
    ELSE r

-----------------------------------------------------------------------------
(* The table.                                                              *)

PendingIn(table) == {p \in Paths : table[p].status = "pending"}

\* lsn is MAX(lsn) + 1 at every upsert and is only ever compared, so the table
\* keeps the relation "has a smaller lsn" between the paths that have rows.
Requeued(older, table, p) ==
    {e \in older : p \notin {e[1], e[2]}}
        \cup {<<q, p>> : q \in {x \in Paths \ {p} : table[x].status # "absent"}}

\* SELECT ... WHERE status = 'pending' ORDER BY lsn LIMIT limit
FirstPending(older, table, limit) ==
    {S \in SUBSET PendingIn(table) :
        /\ \/ Cardinality(S) = limit
           \/ Cardinality(S) < limit /\ S = PendingIn(table)
        /\ \A p \in S, q \in PendingIn(table) \ S : <<p, q>> \in older}

-----------------------------------------------------------------------------
(* reconcile: seen[p] is the mtime the walk found for p, 0 when p is not   *)
(* among the scan inputs.                                                  *)

IsNew(r, seen) == seen # 0 /\ r.status = "absent"

IsDirty(r, seen) ==
    /\ seen # 0
    /\ r.status # "absent"
    /\ ~ (r.mtime = seen /\ r.status \in {"done", "pending", "processing"})
    /\ ~ (r.mtime = seen /\ r.status = "failed" /\ ~ r.retryable)

IsGone(r, seen) ==
    /\ seen = 0
    /\ r.status # "absent"
    /\ ~ (r.status = "done" /\ r.change = "deleted")

Reconcile(seen, table) ==
    {[path |-> p, change |-> "added", mtime |-> seen[p]] :
        p \in {q \in Paths : IsNew(table[q], seen[q])}}
    \cup
    {[path |-> p, change |-> "modified", mtime |-> seen[p]] :
        p \in {q \in Paths : IsDirty(table[q], seen[q])}}
    \cup
    {[path |-> p, change |-> "deleted", mtime |-> table[p].mtime] :
        p \in {q \in Paths : IsGone(table[q], seen[q])}}
=============================================================================
