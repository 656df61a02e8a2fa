SPECIFICATION FairSpec
CONSTANTS
  c1 = c1 c2 = c2 s1 = s1 s2 = s2
  Collection = {c1, c2}
  Stream = {s1}
  Watches <- WatchFirst
  Anonymous = {}
  Sizes = {1,2}
  EventLimit = 2
  ByteLimit = 2
  ReadBatch = 2
  PageBytes = 2
  Connections = 1
  ReplayPages = 1
  MaxSequence <- Events2And1
  Writers = 1
CONSTRAINT Scope
INVARIANTS RetainedWindow NothingMissed WakeNotLost
PROPERTIES LostAccessEnds CloseEndsStreams
