CONSTANTS
  Steps = 2
  MaxAttempts = 1
  MaxIncarnation = 0
  MaxCommands = 8
  NativeSteps = {0, 1}
  Outcomes = {"ok", "rejected"}
  Settlements = {"acked", "unacked", "unpublished"}
  Redeploys = FALSE
SPECIFICATION FairSpec
INVARIANTS
  EffectAccounted
  
PROPERTIES
  Settles
CHECK_DEADLOCK FALSE
