----------------------------- MODULE MCApiServer -----------------------------
EXTENDS ApiServer, TLC
CONSTANTS e1, e2, f1, f2, r1, r2, r3, m1
Symmetry == Permutations(Requests) \cup Permutations(Addresses) \cup Permutations(Founders)
=============================================================================
