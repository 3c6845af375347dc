------------------------------- MODULE Pixels -------------------------------
(***************************************************************************)
(* How the PPU makes the pixels of a line (drawCurrentLine and what it     *)
(* calls, src/src/PPU/ppu.cpp), from the video memory, the LCD registers   *)
(* and the sprites of the line.  PPU.tla has the clock that calls it.      *)
(*                                                                         *)
(* backgroundLineBuffer and its words are filled before each use, so they  *)
(* are values here; the words of the window outlive the line and are kept. *)
(* A word of tile data is the set of its bits that are 1.                  *)
(***************************************************************************)
EXTENDS Integers, Sequences

CONSTANTS
  TILE_WIDTH,            \* 8, also SPRITE_WIDTH
  TILEMAP_SIDE_SIZE,     \* 32
  WIDTH,                 \* 160
  HEIGHT,                \* 144
  WX_SHIFT,              \* 7
  HalfTiles,             \* 128: a tile number is signed or unsigned
  MAX_SPRITES_PER_LINE,  \* 10
  \* What the program writes: bounds of the environment.
  RegisterWrites,        \* for each register, the values
  VramWrites,            \* the contents of video memory
  OamWrites              \* the contents of object attribute memory

MapWidth == TILEMAP_SIDE_SIZE * TILE_WIDTH
MAX_SPRITE_HEIGHT == 2 * TILE_WIDTH
Bit == 0 .. TILE_WIDTH - 1
Color == 0 .. 3
Row == 0 .. WIDTH - 1
\* The 8000-97FF region, in lines of tiles of two words each.
Words == [lsb : SUBSET Bit, msb : SUBSET Bit]
TileLine == 0 .. 3 * HalfTiles * TILE_WIDTH - 1
TILEDATA_BASE_8000 == 0
TILEDATA_BASE_9000 == 2 * HalfTiles * TILE_WIDTH

\* Bits of a sprite's flags.
PRIORITY == 7
FLIP_Y == 6
FLIP_X == 5
PALETTE == 4
Sprite == [yPos : Nat, xPos : Nat, tileNumber : 0 .. 2 * HalfTiles - 1, flags : SUBSET (0 .. 7)]

LcdcFlag == {"BG_WINDOW_ENABLE", "SPRITE_ENABLE", "SPRITE_SIZE", "BG_TILE_MAP_SELECT",
             "TILE_DATA_SELECT_MODE", "WINDOW_DISPLAY_ENABLE", "WINDOW_TILE_MAP_SELECT"}
Maps == [BOOLEAN -> [0 .. TILEMAP_SIDE_SIZE * TILEMAP_SIDE_SIZE - 1 -> 0 .. 2 * HalfTiles - 1]]

\* The screen is not larger than a map, and the window, which may begin
\* WX_SHIFT left of it, does not go around its own.
ASSUME PixelAssumption ==
  /\ TILE_WIDTH \in Nat \ {0} /\ TILEMAP_SIDE_SIZE \in Nat \ {0} /\ HalfTiles \in Nat
  /\ WIDTH \in Nat /\ HEIGHT \in Nat \ {0} /\ WX_SHIFT \in Nat
  /\ WIDTH + WX_SHIFT <= MapWidth /\ HEIGHT <= MapWidth
  /\ RegisterWrites \in [LCDC : SUBSET SUBSET LcdcFlag, SCX : SUBSET Nat, SCY : SUBSET Nat,
                         WX : SUBSET Nat, WY : SUBSET Nat,
                         BGP : SUBSET Nat, OBP0 : SUBSET Nat, OBP1 : SUBSET Nat]
  /\ VramWrites \subseteq [tilemap : Maps, tiledata : [TileLine -> Words]]
  /\ OamWrites \subseteq Seq(Sprite)

VARIABLES
  regs,               \* LCDC (the set of its bits that are 1), SCX ... OBP1
  VRAM, OAM,
  mode, LY,
  windowLineBuffer,   \* windowLineBufferLsb and Msb
  OAMLineBuffer,
  screenLine          \* row LY of the screen

pixelsVars == <<regs, VRAM, OAM, mode, LY, windowLineBuffer, OAMLineBuffer, screenLine>>

Old == 4   \* a pixel of the frame before
blankLine == [tileX \in 0 .. TILEMAP_SIDE_SIZE - 1 |-> [lsb |-> {}, msb |-> {}]]

PixelsInit ==
  /\ regs \in [LCDC : RegisterWrites.LCDC,
               SCX : RegisterWrites.SCX, SCY : RegisterWrites.SCY,
               WX : RegisterWrites.WX, WY : RegisterWrites.WY,
               BGP : RegisterWrites.BGP, OBP0 : RegisterWrites.OBP0, OBP1 : RegisterWrites.OBP1]
  /\ VRAM \in VramWrites /\ OAM \in OamWrites
  /\ mode = "OAM_SCAN" /\ LY = 0
  /\ windowLineBuffer = blankLine
  /\ OAMLineBuffer = << >>
  /\ screenLine = [x \in Row |-> Old]

LCDC(flag) == flag \in regs.LCDC

-----------------------------------------------------------------------------
(* Background and window *)

isPositionInsideWindow(x, y) ==
  LCDC("WINDOW_DISPLAY_ENABLE") /\ y >= regs.WY /\ x >= regs.WX - WX_SHIFT

getTilemapBaseAddress(drawingWindow) ==
  LCDC(IF drawingWindow THEN "WINDOW_TILE_MAP_SELECT" ELSE "BG_TILE_MAP_SELECT")

static_cast_signed(number) == IF number < HalfTiles THEN number ELSE number - 2 * HalfTiles

getTiledataAddress(number, row) ==
  IF LCDC("TILE_DATA_SELECT_MODE")
  THEN TILEDATA_BASE_8000 + number * TILE_WIDTH + row
  ELSE TILEDATA_BASE_9000 + static_cast_signed(number) * TILE_WIDTH + row

\* The words of the tiles that line y of a tile map crosses.
lineOfMap(drawingWindow, y) ==
  LET tileY == (y \div TILE_WIDTH) % TILEMAP_SIDE_SIZE
      map == VRAM.tilemap[getTilemapBaseAddress(drawingWindow)]
  IN  [tileX \in 0 .. TILEMAP_SIDE_SIZE - 1 |->
         VRAM.tiledata[getTiledataAddress(map[tileX + tileY * TILEMAP_SIDE_SIZE],
                                          y % TILE_WIDTH)]]

prepareBackgroundLine ==
  IF LCDC("BG_WINDOW_ENABLE") THEN lineOfMap(FALSE, LY + regs.SCY) ELSE blankLine

\* A line whose last pixel is outside of the window keeps the words it had.
Mut_FirstPixelDecides ==
  IF ~LCDC("BG_WINDOW_ENABLE") THEN blankLine
  ELSE IF isPositionInsideWindow(0, LY) THEN lineOfMap(TRUE, LY - regs.WY)
  ELSE windowLineBuffer
prepareWindowLine ==
  IF ~LCDC("BG_WINDOW_ENABLE") THEN blankLine
  ELSE IF isPositionInsideWindow(WIDTH - 1, LY) THEN lineOfMap(TRUE, LY - regs.WY)
  ELSE windowLineBuffer

\* The leftmost pixel of a tile is the highest bit of its words.
value(words, bit) ==
  (IF bit \in words.msb THEN 2 ELSE 0) + (IF bit \in words.lsb THEN 1 ELSE 0)
computeColorBuffer(line) ==
  [x \in 0 .. MapWidth - 1 |-> value(line[x \div TILE_WIDTH], TILE_WIDTH - 1 - (x % TILE_WIDTH))]

\* A palette is a word of four colors.
applyPalette(reg, input) == (regs[reg] \div 4^input) % 4

\* The window is shown without a palette.
flushLineToScreenBuffer(backgroundLineBuffer, windowColors) ==
  [x \in Row |->
     IF isPositionInsideWindow(x, LY)
     THEN windowColors[(x - regs.WX + WX_SHIFT) % MapWidth]
     ELSE applyPalette("BGP", backgroundLineBuffer[(x + regs.SCX) % MapWidth])]

-----------------------------------------------------------------------------
(* Sprites *)

getSpriteHeight == IF LCDC("SPRITE_SIZE") THEN MAX_SPRITE_HEIGHT ELSE TILE_WIDTH

\* The scan of OAM, sprite after sprite; PPU.tla has its clocks.
OnCurrentLine(s) ==
  /\ s.xPos # 0
  /\ s.yPos <= LY + MAX_SPRITE_HEIGHT
  /\ s.yPos + getSpriteHeight > LY + MAX_SPRITE_HEIGHT
addSpriteToBufferIfNeeded(buffer, s) ==
  IF Len(buffer) # MAX_SPRITES_PER_LINE /\ OnCurrentLine(s) THEN Append(buffer, s) ELSE buffer
FirstSprites ==
  LET scanned[n \in 0 .. Len(OAM)] ==
        IF n = 0 THEN << >> ELSE addSpriteToBufferIfNeeded(scanned[n - 1], OAM[n])
  IN  scanned[Len(OAM)]

\* The line of tile data that the sprite shows on this line.  A sprite of
\* double height is a tile with an even number and the one after it.
spriteTileLine(s) ==
  LET spriteLine == LY - (s.yPos - MAX_SPRITE_HEIGHT)
      drawingBottomTile == (spriteLine >= TILE_WIDTH) # (FLIP_Y \in s.flags)
      topTile == s.tileNumber - (s.tileNumber % 2)
      tile == IF getSpriteHeight = TILE_WIDTH THEN s.tileNumber
              ELSE IF drawingBottomTile THEN topTile + 1 ELSE topTile
      row == IF FLIP_Y \in s.flags THEN TILE_WIDTH - (spriteLine % TILE_WIDTH)
             ELSE spriteLine % TILE_WIDTH
  IN  VRAM.tiledata[TILEDATA_BASE_8000 + tile * TILE_WIDTH + row]

\* One pixel of a sprite over the row; 0 is transparent, and a sprite behind
\* the background shows where the background's color is 0.
spriteValue(s, x) ==
  LET spriteX == x + TILE_WIDTH - s.xPos
  IN  value(spriteTileLine(s), IF FLIP_X \in s.flags THEN spriteX ELSE TILE_WIDTH - 1 - spriteX)
overSprite(s, backgroundLineBuffer, x) ==
  /\ x + TILE_WIDTH - s.xPos \in Bit
  /\ spriteValue(s, x) # 0
  /\ PRIORITY \in s.flags => backgroundLineBuffer[x] = 0

\* The loop over a sprite's pixels ends at the first one off the screen: a
\* sprite that begins left of it is not drawn.
Mut_Opaque(backgroundLineBuffer, row, s) ==
  IF s.xPos < TILE_WIDTH THEN row
  ELSE [x \in Row |->
          IF x + TILE_WIDTH - s.xPos \in Bit
          THEN applyPalette(IF PALETTE \in s.flags THEN "OBP1" ELSE "OBP0", spriteValue(s, x))
          ELSE row[x]]
drawSprite(backgroundLineBuffer, row, s) ==
  IF s.xPos < TILE_WIDTH THEN row
  ELSE [x \in Row |->
          IF overSprite(s, backgroundLineBuffer, x)
          THEN applyPalette(IF PALETTE \in s.flags THEN "OBP1" ELSE "OBP0", spriteValue(s, x))
          ELSE row[x]]

computeAndFlushSpritesToScreenBuffer(backgroundLineBuffer, row) ==
  LET drawn[n \in 0 .. Len(OAMLineBuffer)] ==
        IF n = 0 THEN row ELSE drawSprite(backgroundLineBuffer, drawn[n - 1], OAMLineBuffer[n])
  IN  IF LCDC("SPRITE_ENABLE") THEN drawn[Len(OAMLineBuffer)] ELSE row

-----------------------------------------------------------------------------
drawCurrentLine ==
  /\ mode = "DRAWING"
  /\ LET backgroundLineBuffer == computeColorBuffer(prepareBackgroundLine)
         windowColors == computeColorBuffer(prepareWindowLine)
         row == flushLineToScreenBuffer(backgroundLineBuffer, windowColors)
     IN  screenLine' = computeAndFlushSpritesToScreenBuffer(backgroundLineBuffer, row)
  /\ windowLineBuffer' = prepareWindowLine
  /\ OAMLineBuffer' = << >>
  /\ mode' = "H_BLANK"
  /\ UNCHANGED <<regs, VRAM, OAM, LY>>

\* The clocks of PPU.tla before and after it.
ScanLine ==
  /\ mode = "OAM_SCAN" /\ mode' = "DRAWING"
  /\ OAMLineBuffer' = FirstSprites
  /\ UNCHANGED <<regs, VRAM, OAM, LY, windowLineBuffer, screenLine>>

EndLine ==
  /\ mode = "H_BLANK" /\ mode' = "OAM_SCAN"
  /\ LY' = (LY + 1) % HEIGHT
  /\ screenLine' = [x \in Row |-> Old]
  /\ UNCHANGED <<regs, VRAM, OAM, windowLineBuffer, OAMLineBuffer>>

\* What the program stores, before the scan or between it and the drawing; a
\* store after the drawing is as good as one before the next scan.
WriteRegister(r, written) ==
  /\ mode # "H_BLANK"
  /\ regs' = [regs EXCEPT ![r] = written]
  /\ UNCHANGED <<VRAM, OAM, mode, LY, windowLineBuffer, OAMLineBuffer, screenLine>>
WriteVRAM(written) ==
  /\ mode # "H_BLANK"
  /\ VRAM' = written
  /\ UNCHANGED <<regs, OAM, mode, LY, windowLineBuffer, OAMLineBuffer, screenLine>>
WriteOAM(written) ==
  /\ mode # "H_BLANK"
  /\ OAM' = written
  /\ UNCHANGED <<regs, VRAM, mode, LY, windowLineBuffer, OAMLineBuffer, screenLine>>

PixelsNext ==
  \/ ScanLine \/ drawCurrentLine \/ EndLine
  \/ \E r \in DOMAIN RegisterWrites : \E written \in RegisterWrites[r] : WriteRegister(r, written)
  \/ \E written \in VramWrites : WriteVRAM(written)
  \/ \E written \in OamWrites : WriteOAM(written)

PixelsSpec == PixelsInit /\ [][PixelsNext]_pixelsVars
=============================================================================
