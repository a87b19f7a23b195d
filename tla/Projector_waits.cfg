CONSTANTS
  Docs = {a}
  Effects = {e}
  None = None
  Shapes <- EffectShapes
  MaxTx = 3
  MaxUnackedRecords = 2
  ReplayBatchRecords = 2
  ProjectionWorkers = 1
  MaxFaults = 0
  MaxCrashes = 1
  Stops = {"terminal", "unload", "drop"}
SPECIFICATION FairSpec
INVARIANTS
  ResidentFresh
  NoFalseConflict
PROPERTIES
  UnloadClean
  LoadReturns
  Drains
CHECK_DEADLOCK FALSE
