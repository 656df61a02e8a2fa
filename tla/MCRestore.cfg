SPECIFICATION RestoreFairSpec
CONSTANTS
  wal = wal o1 = o1 o2 = o2
  Sidecar = {wal}
  Object = {o1}
  MaxActivations = 2
  MaxFailures = 2
INVARIANTS OldOrNew CommitPoint
PROPERTIES Recovers
CHECK_DEADLOCK FALSE
