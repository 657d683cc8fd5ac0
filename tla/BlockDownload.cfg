SPECIFICATION FairSpec
CONSTANTS
  N = 2
  NewBlocks = {2}
  Peers = {r, q}
  Reliable = {r}
  MaxInTransit = 1
  PendingLimit = 0
  MaxHeaders = 2
  MaxBatch = 2
  Early = FALSE
  Faults = FALSE
INVARIANTS
  InOrder
  ReliableNotPunished
PROPERTY
  AllProcessed
CHECK_DEADLOCK FALSE
