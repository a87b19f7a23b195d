CONSTANTS
  Effects = {e1, e2}
  Workers = {w1, w2, w3}
  Processes = {p, q}
  OwnerOf <- TwoProcesses
  Nobody = Nobody
  w1 = w1
  w2 = w2
  w3 = w3
  p = p
  q = q
  BatchSize = 2
  MaxFaults = 1
SPECIFICATION FairSpec
INVARIANTS
  RemovedPublished
  TokenUnique
PROPERTIES
  HolderOnly
  Delivers
CHECK_DEADLOCK FALSE
