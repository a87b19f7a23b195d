CONSTANTS
  a = a
  b = b
  x = x
  y = y
  Writers = {a, b}
  SagaOf <- TwoSagas
  Starts = {"start x", "start y"}
  MaxBatch = 1
  MaxInputs = 2
  MaxDues <- Dues
  MaxSnapshots = 2
  MaxFaults = 1
SYMMETRY Processes
SPECIFICATION Spec
INVARIANTS
  ReplayExact
  InOrder
  OneCommand
  CommandsKept
  FencedByOther
CHECK_DEADLOCK FALSE
