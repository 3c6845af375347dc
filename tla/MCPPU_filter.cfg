\* The same instance against what the comments say of the STAT filter.
SPECIFICATION HSpec
CONSTANTS
  OamEnd = 2
  DrawEnd = 4
  LineEnd = 5
  VisibleLines = 2
  TotalLines = 4
  FrameWrap = 2
  MAX_SPRITES_PER_LINE = 1
  MAX_SPRITE_HEIGHT = 2
  SHORT_SPRITE_HEIGHT = 1
  StatWrites <- MCStatWrites
  LycWrites = {1}
  SpriteWrites <- MCSpriteWrites
  SizeWrites = {TRUE, FALSE}
INVARIANT OneStatRequestPerLine
