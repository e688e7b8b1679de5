------------------------------ MODULE MCBackfill ------------------------------
EXTENDS Backfill, TLC

CONSTANTS e1, c1, c2, k1, k2, n1, n2

Symmetry == Permutations({k1, k2}) \cup Permutations({n1, n2})
===============================================================================
