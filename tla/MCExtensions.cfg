SPECIFICATION Spec
CONSTANTS
  e1 = e1 e2 = e2 c1 = c1 s1 = s1 i1 = i1 i2 = i2 r1 = r1
  Extension = {e1, e2}
  Collection = {c1}
  Secret = {s1}
  None = None
  Intent = {i1}
  Writer = {r1}
  Capacity = 1
  MaxEdits = 2
  MaxVersion = 2
  MaxStops = 1
SYMMETRY Interchangeable
INVARIANTS OneHookPerSlot RevokedIsCancelled
PROPERTIES IntentsStand
CHECK_DEADLOCK FALSE
CONSTRAINT Scope
