SPECIFICATION Spec
CONSTANTS
  Clients = {c1}
  None = None
  Ops = {"async", "strict", "ticket"}
  MaxRecords = 5
  QueueCapacity = 2
  BatchMaxRecords = 2
  SegmentRecords = 1
  MaxDiskRecords = 2
  RetainSegments = 1
  Faults = {"write", "remove"}
  CrashKinds = {"process"}
  MaxCrashes = 1
SYMMETRY Symmetry
INVARIANTS
  NoHole
  ReservationExact
  
  PruneAcked
CHECK_DEADLOCK FALSE
