SPECIFICATION Spec
CONSTANTS
  r1 = r1 k1 = k1 u1 = u1 w1 = w1 w2 = w2 m1 = m1
  None = None
  Record = {r1}
  Key = {k1}
  Upload = {u1}
  Writer = {w1, w2}
  Migration = {m1}
  MaxUploads = 1
  MaxPage = 2
  MaxBusy = 3
  MaxRevision = 2
  MaxCrashes = 1
INVARIANTS LostOnlyByOverlap UploadBoundOnce ConfirmedCancelHolds
SYMMETRY Symmetry
CHECK_DEADLOCK FALSE
