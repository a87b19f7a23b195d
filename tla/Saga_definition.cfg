CONSTANTS
  Steps = 2
  MaxAttempts = 1
  MaxIncarnation = 1
  MaxCommands = 4
  NativeSteps = {0, 1}
  Outcomes = {"ok", "rejected"}
  Settlements = {"acked"}
  Redeploys = TRUE
SPECIFICATION Spec
INVARIANTS
  CompensatedUndone
CHECK_DEADLOCK FALSE
