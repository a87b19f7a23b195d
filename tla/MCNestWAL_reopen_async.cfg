SPECIFICATION Spec
CONSTANTS
  Clients = {c1}
  None = None
  Ops = {"async"}
  MaxRecords = 1
  QueueCapacity = 2
  BatchMaxRecords = 2
  SegmentRecords = 2
  MaxDiskRecords = 5
  RetainSegments = 1
  Faults = {}
  CrashKinds = {"process"}
  MaxCrashes = 1
SYMMETRY Symmetry
INVARIANTS
  CheckpointStable
CHECK_DEADLOCK FALSE
