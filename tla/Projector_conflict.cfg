CONSTANTS
  Docs = {a, b}
  Effects = {e}
  None = None
  Shapes <- EffectShapes
  MaxTx = 3
  MaxUnackedRecords = 3
  ReplayBatchRecords = 3
  ProjectionWorkers = 2
  MaxFaults = 2
  MaxCrashes = 0
  Stops = {}
SPECIFICATION Spec
INVARIANT
  NoFalseConflict
CHECK_DEADLOCK FALSE
