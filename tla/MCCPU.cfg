\* Words of two values, a stack of two frames, V-Blank and the timer's interrupt.
SPECIFICATION HSpec
CONSTANTS
  WordSize = 2
  StackBytes = 4
  BootPC = 0
  INTERRUPT_JUMP_ADDRESSES <- MCVectors
  Interrupts = {0, 2}
INVARIANTS TypeOK DispatchLatency
PROPERTIES RequestsLeaveByDispatch ImplementsCallStack VBlankTaken
