--------------------------- MODULE MCFlushTimers ---------------------------
\* FlushTimers for TLC: a session of three lines and two turns, one line without a
\* message, and another session the user switches to.
EXTENDS FlushTimers

CONSTANTS a, b

SomeLines == [s \in Sessions |-> IF s = a THEN 3 ELSE 0]
SomeStops == [s \in Sessions |-> IF s = a THEN 2 ELSE 0]
=============================================================================
