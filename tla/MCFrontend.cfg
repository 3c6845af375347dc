\* A frame of three lines of four clocks, drawn once per frame; two controls,
\* both command keys; saves that fail, crashes and restarts.
SPECIFICATION HSpec
CONSTANTS
  displayInterval = 12
  OamEnd = 1
  DrawEnd = 3
  LineEnd = 4
  VisibleLines = 2
  TotalLines = 3
  FrameWrap = 2
  GameKeys = {"A", "W"}
  CommandKeys = {"K", "L"}
  isCartridgeBatteryBacked = TRUE
  MaxEvents = 2
  MaxRamChanges = 2
\* A save file cut short by a crash can never be loaded: the program stops.
CHECK_DEADLOCK FALSE
INVARIANT ControlsFollowKeys
PROPERTIES FramesShownWhole ResumesWhereItStopped KeepsDrawing
