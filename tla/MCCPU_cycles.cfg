\* The same instance against what the documents say of the processor's timing.
SPECIFICATION HSpec
CONSTANTS
  WordSize = 2
  StackBytes = 4
  BootPC = 0
  INTERRUPT_JUMP_ADDRESSES <- MCVectors
  Interrupts = {0, 2}
PROPERTY DelayedByCycles
