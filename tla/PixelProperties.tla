-------------------------- MODULE PixelProperties --------------------------
(***************************************************************************)
(* Correctness of a drawn line: what the buffers and loops of Pixels.tla   *)
(* make of it, compared with a definition of each pixel by itself, from    *)
(* its place on the map or in the sprite.                                  *)
(***************************************************************************)
EXTENDS Pixels

\* The color at (px, py) of a map.  The tiles numbered below HalfTiles are
\* the first or the last ones of the tile data, the others lie between.
MapColor(base, px, py) ==
  LET number == VRAM.tilemap[base][(py \div TILE_WIDTH) * TILEMAP_SIDE_SIZE + (px \div TILE_WIDTH)]
      tile == IF ~LCDC("TILE_DATA_SELECT_MODE") /\ number < HalfTiles
              THEN number + 2 * HalfTiles ELSE number
      words == VRAM.tiledata[tile * TILE_WIDTH + (py % TILE_WIDTH)]
  IN  value(words, TILE_WIDTH - 1 - (px % TILE_WIDTH))

InWindow(x) ==
  LCDC("WINDOW_DISPLAY_ENABLE") /\ regs.WY <= LY /\ regs.WX <= x + WX_SHIFT

\* The background is a torus seen through a screen at (SCX, SCY), the window
\* a sheet whose corner is at (WX - WX_SHIFT, WY).
BehindSprites(x) ==
  IF ~LCDC("BG_WINDOW_ENABLE") THEN 0
  ELSE IF InWindow(x)
  THEN MapColor(LCDC("WINDOW_TILE_MAP_SELECT"), x + WX_SHIFT - regs.WX, LY - regs.WY)
  ELSE MapColor(LCDC("BG_TILE_MAP_SELECT"),
                (x + regs.SCX) % MapWidth, (LY + regs.SCY) % MapWidth)
Shown(x) == IF InWindow(x) THEN BehindSprites(x) ELSE applyPalette("BGP", BehindSprites(x))

Column(s, x) == x - (s.xPos - TILE_WIDTH)
Touches(s, x) == LCDC("SPRITE_ENABLE") /\ Column(s, x) \in Bit

ShowsMaps(x) ==
  (\A i \in DOMAIN OAMLineBuffer : ~Touches(OAMLineBuffer[i], x)) => screenLine'[x] = Shown(x)

\* Where no sprite is, a drawn line shows the background or the window that
\* the memory and the registers describe at that moment.  No pixel is left
\* from the frame before or from a window line drawn earlier: the window's
\* words stay in their buffer while the window is off, or does not reach the
\* line.
LineShowsMaps == [][drawCurrentLine => \A x \in Row : ShowsMaps(x)]_pixelsVars

\* The color of a sprite at a pixel it touches.
Height == IF LCDC("SPRITE_SIZE") THEN 2 * TILE_WIDTH ELSE TILE_WIDTH
LineOf(s) == LY + 2 * TILE_WIDTH - s.yPos
SpriteColor(s, x) ==
  LET first == IF LCDC("SPRITE_SIZE") THEN s.tileNumber - (s.tileNumber % 2) ELSE s.tileNumber
      words == VRAM.tiledata[first * TILE_WIDTH + LineOf(s)]
      column == IF FLIP_X \in s.flags THEN TILE_WIDTH - 1 - Column(s, x) ELSE Column(s, x)
  IN  value(words, TILE_WIDTH - 1 - column)

\* What the code is known to draw otherwise: sprites upside down (a line too
\* low), sprites that begin left of the screen (not at all), sprites behind a
\* background that is scrolled or covered by the window, and sprites the
\* program made shorter than the line they were found on.
Upright(s, x) ==
  /\ FLIP_Y \notin s.flags
  /\ s.xPos >= TILE_WIDTH
  /\ PRIORITY \in s.flags => regs.SCX = 0 /\ ~InWindow(x)
  /\ LineOf(s) < Height

Palette(s) == IF PALETTE \in s.flags THEN "OBP1" ELSE "OBP0"
CoveredBySprites(x) ==
  LET sprite(i) == OAMLineBuffer[i]
      touching == {i \in DOMAIN OAMLineBuffer : Touches(sprite(i), x)}
      visible == {i \in touching :
                    /\ SpriteColor(sprite(i), x) # 0
                    /\ PRIORITY \notin sprite(i).flags \/ BehindSprites(x) = 0}
  IN  (touching # {} /\ \A i \in touching : Upright(sprite(i), x)) =>
        \/ visible = {} /\ screenLine'[x] = Shown(x)
        \/ \E top \in visible :
             /\ \A i \in visible : i <= top
             /\ screenLine'[x] = applyPalette(Palette(sprite(top)), SpriteColor(sprite(top), x))

\* Where sprites are, the pixel is that of the last sprite of the buffer
\* that is neither transparent nor behind the background there, in its own
\* palette, whatever lies under it; if there is none, the background's.  This
\* holds though the registers and OAM may have changed since the scan.
SpritesCover == [][drawCurrentLine => \A x \in Row : CoveredBySprites(x)]_pixelsVars
=============================================================================
