--------------------------- MODULE MCOracleBudget ---------------------------
EXTENDS OracleBudget, TLC

CONSTANTS t1, t2

\* The threads are interchangeable.
Symmetry == Permutations({t1, t2})
=============================================================================
