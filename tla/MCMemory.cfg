\* The address bus under every order of stores; 64 kB of ROM and four banks of
\* RAM of a byte each in a Release build, whose accesses out of bounds may end
\* the program; every combination of four controls against every selection.
SPECIFICATION MCSpec
CHECK_DEADLOCK FALSE
CONSTANTS
  BOOTROM_UPPER_BOUND = 2
  CART_ROM_UPPER_BOUND = 4
  CART_RAM_LOWER_BOUND = 6
  CART_RAM_UPPER_BOUND = 8
  ECHO_RAM_LOWER_BOUND_1 = 8
  ECHO_RAM_UPPER_BOUND_1 = 10
  ECHO_RAM_LOWER_BOUND_0 = 12
  ECHO_RAM_UPPER_BOUND_0 = 14
  OAM_MEMORY_LOWER_BOUND = 14
  OamSize = 2
  REG_DIV = 16
  REG_STAT = 17
  REG_LY = 18
  REG_DMA = 19
  BOOT_ROM_LOCK = 20
  ADDRESS_BUS_SIZE = 21
  Page = 2
  DmaLimit = 6
  EchoDistance = 4
  WordSize = 8
  StatBits = 4
  BOOT_ROM <- MCBootRom
  Stores <- MCStores
  StatWrites = {0, 6}
  LyWrites = {0, 1}
  SkipBootStores <- MCSkipBootStores
  CartContents <- MCCartContents
  BankSize = 1
  ROMSize = 1
  RAMSize = 3
  NDEBUG = TRUE
  RomValues <- MCRomValues
  Values <- MCValues
  RamData <- MCData
  Statuses <- MCStatuses
  SelectWrites <- MCSelections
INVARIANTS TypeOK EchoMirrors WindowsInRange SelectedGroupRead
PROPERTIES RegistersHaveOwners DmaCopiesWhatIsRead ImplementsBankedMemory
