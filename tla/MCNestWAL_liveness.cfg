SPECIFICATION FairSpec
CONSTANTS
  Clients = {c1, c2}
  None = None
  Ops = {"async", "ticket", "sync"}
  MaxRecords = 1
  QueueCapacity = 1
  BatchMaxRecords = 2
  SegmentRecords = 2
  MaxDiskRecords = 5
  RetainSegments = 1
  Faults = {"fsync"}
  CrashKinds = {}
  MaxCrashes = 0
INVARIANTS
  SyncStable
  CloseComplete
PROPERTIES
  Answers
  SyncReturns
  CloseReturns
CHECK_DEADLOCK FALSE
