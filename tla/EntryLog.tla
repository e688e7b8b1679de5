------------------------------ MODULE EntryLog ------------------------------
(***************************************************************************)
(* What a daily markdown file promises the code that writes memories into  *)
(* it: it is an append-only list of entries, the n-th entry has sequence   *)
(* number n, deprecation marks are only ever added, and a caller is told   *)
(* of a write only once the write is in the file.  The promise ends with    *)
(* the first lost update.  DailyLog shows how BaseDailyWriter and           *)
(* MarkdownWriter keep it until then.                                      *)
(***************************************************************************)
EXTENDS Naturals, Sequences, Functions

CONSTANTS
    Jobs,       \* the names of the writes callers ask for
    MaxItems    \* the most entries one write adds

VARIABLES entries,      \* the entry blocks of the file, in order
          marks,        \* the sequence numbers under deprecated_entries
          reported,     \* the entries some caller holds the id of
          settled,      \* the marks some caller was told are written
          raced         \* history: a write landed from a read that others had passed

vars == <<entries, marks, reported, settled, raced>>

Init ==
    /\ entries = <<>>
    /\ marks = {}
    /\ reported = {}
    /\ settled = {}
    /\ raced = FALSE

\* An append: the blocks go to the end, numbered from the next free number.
Add(job, n) ==
    /\ entries' = entries \o [i \in 1..n |-> [seq |-> Len(entries) + i, by |-> job]]
    /\ UNCHANGED <<marks, reported, settled, raced>>

\* A patch: marks are added, and nothing else changes.
Mark ==
    /\ marks \subseteq marks'
    /\ UNCHANGED <<entries, reported, settled, raced>>

\* The caller of a write that is in the file is told so.
Report ==
    /\ reported' \subseteq Range(entries)
    /\ settled' \subseteq marks
    /\ reported \subseteq reported'
    /\ settled \subseteq settled'
    /\ UNCHANGED <<entries, marks, raced>>

\* A lost update: from here on the file may hold anything.
Lose == raced'

Next == Lose \/ Report \/ Mark \/ \E job \in Jobs, n \in 1..MaxItems : Add(job, n)

Spec == Init /\ [][Next]_vars
=============================================================================
