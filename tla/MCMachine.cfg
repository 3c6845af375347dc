\* A frame of three lines of four clocks, two of them V-Blank, which lasts
\* longer than the longest instruction; the timer overflows on every tick, one
\* in two clocks.
SPECIFICATION HSpec
CONSTANTS
  OamEnd = 1
  DrawEnd = 3
  LineEnd = 4
  VisibleLines = 1
  TotalLines = 3
  StatWrites = {{}}
  LycWrites = {}
  ByteSize = 1
  ClockWrap = 2
  DIV_RATE = 1
  TIMA_RATES <- MCFastRates
  TimaWrites = {}
  TmaWrites = {}
  Rates = {0}
  WordSize = 1
  StackBytes = 4
  BootPC = 0
  INTERRUPT_JUMP_ADDRESSES <- MCVectors
  Interrupts = {0, 2, 4}
  Statuses <- MCStatuses
INVARIANTS HandlerStartsInVBlank OneHandlerPerVBlank HaltEndsInTime
PROPERTY ComponentsFit
