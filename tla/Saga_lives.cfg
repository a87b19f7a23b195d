CONSTANTS
  Steps = 2
  MaxAttempts = 2
  MaxIncarnation = 1
  MaxCommands = 4
  NativeSteps = {0}
  Outcomes = {"ok", "rejected", "retry"}
  Settlements = {"acked"}
  Redeploys = TRUE
SPECIFICATION Spec
INVARIANTS
  RecordValid
  
  HeldStands
  NoForwardAlarm
PROPERTIES
  KeepsPromise
CHECK_DEADLOCK FALSE
