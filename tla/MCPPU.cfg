\* Four lines of five clocks, two of them V-Blank; four sprites, of which one
\* fits on a line, scanned in two clocks.
SPECIFICATION HSpec
CONSTANTS
  OamEnd = 2
  DrawEnd = 4
  LineEnd = 5
  VisibleLines = 2
  TotalLines = 4
  FrameWrap = 2
  MAX_SPRITES_PER_LINE = 1
  MAX_SPRITE_HEIGHT = 2
  SHORT_SPRITE_HEIGHT = 1
  StatWrites <- MCStatWrites
  LycWrites = {1}
  SpriteWrites <- MCSpriteWrites
  SizeWrites = {TRUE, FALSE}
INVARIANTS
  TypeOK ModeFollowsBeam FrameWholeInVBlank FilteredLinesRequestOnce
  SpriteRowsInRange ScanSelectsFirstSprites LineInterruptInTime
PROPERTY ImplementsRaster
