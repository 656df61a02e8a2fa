SPECIFICATION FairSpec
CONSTANTS
  e1 = e1 e2 = e2 c1 = c1 s1 = s1 i1 = i1 i2 = i2 r1 = r1
  Extension = {e1}
  Collection = {c1}
  Secret = {}
  None = None
  Intent = {i1}
  Writer = {r1}
  Capacity = 1
  MaxEdits = 1
  MaxVersion = 1
  MaxStops = 1
PROPERTY StartsAgain
CHECK_DEADLOCK FALSE
CONSTRAINT Scope
