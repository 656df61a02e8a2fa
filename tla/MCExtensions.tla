------------------------------ MODULE MCExtensions ------------------------------
EXTENDS Extensions, TLC
Interchangeable == Permutations(Extension) \cup Permutations(Intent) \cup Permutations(Writer)

\* Bounds: one cancellation is owed at a time, two as long as a configuration was replaced only
\* once; after a restart the administrators revoke nothing.
Scope == Cardinality(owed) <= (IF stops > 0 THEN 0 ELSE IF edits < MaxEdits THEN 2 ELSE 1)
=================================================================================
