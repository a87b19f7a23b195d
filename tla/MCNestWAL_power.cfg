SPECIFICATION Spec
CONSTANTS
  Clients = {c1, c2}
  None = None
  Ops = {"async", "strict", "ticket"}
  MaxRecords = 3
  QueueCapacity = 2
  BatchMaxRecords = 2
  SegmentRecords = 2
  MaxDiskRecords = 5
  RetainSegments = 1
  Faults = {"fsync", "checkpoint"}
  CrashKinds = {"power", "garbage"}
  MaxCrashes = 2
SYMMETRY Symmetry
INVARIANTS
  ConfirmedStable
  WatermarkStable
  CheckpointStable
  OpenAccepts
PROPERTIES
  TerminalFreezes
  ImplementsCommitLog
CHECK_DEADLOCK FALSE
