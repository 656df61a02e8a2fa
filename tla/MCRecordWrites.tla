---------------------------- MODULE MCRecordWrites ----------------------------
EXTENDS RecordWrites, TLC
CONSTANTS w1, w2, x1, x2
Symmetry == Permutations(Writer)
=============================================================================
