SPECIFICATION Spec
CONSTANTS
  a1 = a1 a2 = a2 k1 = k1 k2 = k2 t1 = t1 t2 = t2 t3 = t3 r1 = r1 r2 = r2 v1 = v1
  None = None
  Admin = {a1, a2}
  ChangeSet = {k1, k2}
  ApplyAttempt = {t1, t2, t3}
  Record = {r1, r2}
  Value = {v1}
  MaxVersion = 2
SYMMETRY Symmetry
INVARIANTS ApplyHoldsTheChange OneAttempt UniqueHolds
PROPERTIES RelationTargetChecked
