\* A store to the mode register of MBC1 while the RAM is enabled.
SPECIFICATION Spec
CHECK_DEADLOCK FALSE
CONSTANTS
  BankSize = 2
  ROMSize = 1
  RAMSize = 3
  NDEBUG = TRUE
  RomValues <- MCRomValues
  Values <- MCValues
  RamData <- MCData
PROPERTY OnlyWindowStored
