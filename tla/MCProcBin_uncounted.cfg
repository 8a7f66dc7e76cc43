\* Do handles copied inside containers hold a count?
CONSTANTS
  p1 = p1
  p2 = p2
  b1 = b1
  b2 = b2
  NoHandle = NoHandle
  NoBin = NoBin
  Proc <- MCProc
  Bin <- MCOneBin
  Slot <- MCSlot
  RefcMod <- MCRefcMod
CHECK_DEADLOCK FALSE
SPECIFICATION Spec
INVARIANT CountCoversHandles
