---------------------------- MODULE MCReflection ----------------------------
\* Reflection for TLC.
EXTENDS Reflection, TLC

CONSTANTS e1, e2, e3, m1, m2, c1, c2

Same == Permutations({e1, e2, e3}) \cup Permutations({m1, m2}) \cup Permutations({c1, c2})
=============================================================================
