\* The timer unit with registers of two bits and a clock counter that wraps
\* with DIV; the lines of a frame of three, with a store at every point.
SPECIFICATION MCSpec
CONSTANTS
  ByteSize = 4
  ClockWrap = 16
  DIV_RATE = 4
  TIMA_RATES <- MCRates
  BootDIV = 3
  TimaWrites = {0, 2, 3}
  TmaWrites = {0, 2, 3}
  TILE_WIDTH = 2
  TILEMAP_SIDE_SIZE = 3
  WIDTH = 4
  HEIGHT = 3
  WX_SHIFT = 1
  HalfTiles = 1
  MAX_SPRITES_PER_LINE = 2
  RegisterWrites <- MCRegisterWrites
  VramWrites <- MCVramWrites
  OamWrites <- MCOamWrites
INVARIANT TypeOK
PROPERTIES TimerPeriodExact DivFollowsClock TimerKeepsFiring LineShowsMaps SpritesCover
