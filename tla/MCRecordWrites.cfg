SPECIFICATION Spec
CONSTANTS
  w1 = w1 w2 = w2 x1 = x1 x2 = x2
  None = None
  Writer = {w1, w2}
  Id = {x1}
  Me = x1
  Hooked = TRUE
  MaxSchema = 2
  MaxRules = 3
  MaxWrites = 2
INVARIANTS EventsReplay RelationsResolve RunsTellTheTruth
PROPERTIES CommittedWritesAllowed
SYMMETRY Symmetry
CHECK_DEADLOCK FALSE
