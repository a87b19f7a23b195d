CONSTANTS
  Docs = {a, b}
  Effects = {e}
  None = None
  Shapes <- EffectShapes
  MaxTx = 3
  MaxUnackedRecords = 3
  ReplayBatchRecords = 3
  ProjectionWorkers = 2
  MaxFaults = 2
  MaxCrashes = 1
  Stops = {"close"}
SPECIFICATION Spec
INVARIANTS
  AckedProjected
  EffectOnce
  HeldUnprojected
CHECK_DEADLOCK FALSE
