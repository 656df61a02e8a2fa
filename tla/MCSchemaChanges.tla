--------------------------- MODULE MCSchemaChanges ---------------------------
(* Instances of SchemaChanges for TLC. *)
EXTENDS SchemaChanges, TLC

CONSTANTS a1, a2, k1, k2, t1, t2, t3, r1, r2, v1

Symmetry == Permutations({a1, a2}) \cup Permutations({k1, k2})
              \cup Permutations({t1, t2, t3}) \cup Permutations({r1, r2})

=============================================================================
