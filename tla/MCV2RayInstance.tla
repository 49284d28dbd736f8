-------------------------- MODULE MCV2RayInstance --------------------------
EXTENDS V2RayInstance, TLC
CONSTANTS t1, t2, u1, u2
Symmetry == Permutations(Threads) \cup Permutations(Users)
=============================================================================
