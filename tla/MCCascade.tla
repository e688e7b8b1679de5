----------------------------- MODULE MCCascade -----------------------------
\* Cascade for TLC; the configurations name its files and processes.
EXTENDS Cascade, FiniteSets

CONSTANT MaxPending  \* bound: changes the watcher has not enqueued yet

\* TLC does not go beyond a state where the watcher is further behind.  Two
\* changes are enough for their upserts to run in either order.
WatcherKeepsUp ==
    Len(notices) + Cardinality(gone) + Cardinality(tasks) <= MaxPending
=============================================================================
