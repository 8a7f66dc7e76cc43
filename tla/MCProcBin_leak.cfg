\* Does dropping the last handle free the payload, drop_slow being fair?
CONSTANTS
  p1 = p1
  p2 = p2
  b1 = b1
  b2 = b2
  NoHandle = NoHandle
  NoBin = NoBin
  Proc <- MCProc
  Bin <- MCOneBin
  Slot <- MCSlot
  RefcMod <- MCRefcMod
CHECK_DEADLOCK FALSE
SPECIFICATION FairSpecApi
PROPERTY LastDropFrees
