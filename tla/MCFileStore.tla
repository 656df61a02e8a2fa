----------------------------- MODULE MCFileStore -----------------------------
EXTENDS FileStore, TLC
CONSTANTS r1, k1, u1, w1, w2, m1
Symmetry == Permutations(Writer)
=============================================================================
