SPECIFICATION Spec
CONSTANTS
  N = 2
  NewBlocks = {2}
  Peers = {r, q}
  Reliable = {r}
  MaxInTransit = 1
  PendingLimit = 0
  MaxHeaders = 2
  MaxBatch = 2
  Early = TRUE
  Faults = TRUE
INVARIANTS
  OneBatch BatchAligned
CHECK_DEADLOCK FALSE
