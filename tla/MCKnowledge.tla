---------------------------- MODULE MCKnowledge ----------------------------
\* Knowledge for TLC.
EXTENDS Knowledge, TLC

CONSTANTS d1, d2

Names == Permutations({d1, d2})
=============================================================================
