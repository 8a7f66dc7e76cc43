\* The handle API alone: from_slice, Clone, clone_to_process, Drop.
CONSTANTS
  p1 = p1
  p2 = p2
  b1 = b1
  b2 = b2
  NoHandle = NoHandle
  NoBin = NoBin
  Proc <- MCProc
  Bin <- MCBin
  Slot <- MCSlot
  RefcMod <- MCRefcMod
SYMMETRY MCSymmetry
SPECIFICATION SpecApi
INVARIANTS TypeOK CountMatchesHandles NoUseAfterFree
PROPERTY AbstractSafety
CHECK_DEADLOCK FALSE
