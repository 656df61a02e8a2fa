SPECIFICATION ListSpec
CONSTANTS
  Id = {1, 2, 3, 4}
  Value = {1, 2}
  Operator = {"ne", "lte"}
  Limit = 1
  RawLimit = 2
  SourceFacts = 3
  MaxChanges = 1
INVARIANTS ListedOnce
CHECK_DEADLOCK FALSE
