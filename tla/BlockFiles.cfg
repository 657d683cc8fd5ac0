SPECIFICATION Spec
CONSTANTS
  b1 = b1
  b2 = b2
  b3 = b3
  Blocks = {b1, b2, b3}
  Writers = {1}
  BlockSize <- MCBlockSize
  UndoSize <- MCUndoSize
  MAX_BLOCKFILE_SIZE = 26
  MaxFile = 3
CHECK_DEADLOCK FALSE
INVARIANTS BlockReadsBack UndoReadsBack
