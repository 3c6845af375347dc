\* 2 MB of ROM.
SPECIFICATION Spec
CONSTANTS
  BankSize = 2
  ROMSize = 6
  RAMSize = 3
  NDEBUG = TRUE
  RomValues <- MCRomValues
  Values <- MCValues
  RamData <- MCData
INVARIANT SelectedBankInWindow
