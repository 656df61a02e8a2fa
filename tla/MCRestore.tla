------------------------------ MODULE MCRestore ------------------------------
EXTENDS Restore
CONSTANTS wal, o1, o2
=============================================================================
