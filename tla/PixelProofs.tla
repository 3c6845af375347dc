---------------------------- MODULE PixelProofs ----------------------------
(* The pixels of a line, for every size of tile, map and screen. *)
EXTENDS PixelProperties, WellFoundedInduction, TLAPS

-----------------------------------------------------------------------------
(* Quotients.                                                              *)

LEMMA Division ==
  ASSUME NEW a \in Nat, NEW n \in Nat \ {0}
  PROVE  a \div n \in Nat /\ a % n \in 0 .. n - 1 /\ a = (a \div n) * n + (a % n)
  OBVIOUS

LEMMA Product ==
  ASSUME NEW a \in Int, NEW b \in Int, NEW n \in Nat
  PROVE  a * n \in Int /\ (a + b) * n = a * n + b * n /\ (a >= 0 => a * n >= 0)
  OBVIOUS

LEMMA Order ==
  ASSUME NEW a \in Int, NEW b \in Int, NEW n \in Nat \ {0}, a < b
  PROVE  a * n + n <= b * n
  OBVIOUS

\* Quotient and remainder are the only ones that fit.
LEMMA Quotient ==
  ASSUME NEW n \in Nat \ {0}, NEW q \in Nat, NEW r \in 0 .. n - 1
  PROVE  (q * n + r) \div n = q /\ (q * n + r) % n = r
<1> DEFINE qn == q * n
           p == (qn + r) \div n
           s == (qn + r) % n
           pn == p * n
<1>1. qn \in Nat
  BY Product
<1>2. p \in Nat /\ s \in 0 .. n - 1 /\ qn + r = pn + s
  <2>1. PICK a \in Nat : a = qn + r
    BY <1>1
  <2> HIDE DEF qn
  <2>2. a \div n \in Nat /\ a % n \in 0 .. n - 1 /\ a = (a \div n) * n + (a % n)
    BY Division
  <2> QED
    BY <2>1, <2>2
<1>3. pn \in Nat
  <2> HIDE DEF p
  <2> QED
    BY <1>2, Product
<1>4. ~(q < p)
  <2>1. q < p => qn + n <= pn
    <3> HIDE DEF p
    <3> QED
      BY <1>2, Order
  <2> HIDE DEF qn, pn, p, s
  <2> QED
    BY <1>1, <1>2, <1>3, <2>1
<1>5. ~(p < q)
  <2>1. p < q => pn + n <= qn
    <3> HIDE DEF p
    <3> QED
      BY <1>2, Order
  <2> HIDE DEF qn, pn, p, s
  <2> QED
    BY <1>1, <1>2, <1>3, <2>1
<1>6. p = q
  <2> HIDE DEF p
  <2> QED
    BY <1>2, <1>4, <1>5
<1>7. pn = qn
  <2> HIDE DEF p
  <2> QED
    BY <1>6
<1>8. s = r
  <2> HIDE DEF qn, pn, p, s
  <2> QED
    BY <1>1, <1>2, <1>7
<1> QED
  BY <1>6, <1>8

\* Within one multiple of n, and within the next.
LEMMA SmallQuotient ==
  ASSUME NEW n \in Nat \ {0}, NEW a \in Nat
  PROVE  /\ a < n => a % n = a
         /\ n <= a /\ a < 2 * n => a % n = a - n
<1>1. a < n => a % n = a
  <2>1. a < n => (0 * n + a) % n = a
    BY Quotient
  <2>2. 0 * n + a = a
    OBVIOUS
  <2> QED
    BY <2>1, <2>2
<1>2. n <= a /\ a < 2 * n => a % n = a - n
  <2> SUFFICES ASSUME n <= a, a < 2 * n PROVE a % n = a - n
    OBVIOUS
  <2>1. a - n \in 0 .. n - 1
    OBVIOUS
  <2>2. (1 * n + (a - n)) % n = a - n
    BY <2>1, Quotient
  <2>3. 1 * n + (a - n) = a
    OBVIOUS
  <2> QED
    BY <2>2, <2>3
<1> QED
  BY <1>1, <1>2

\* Wrapping the tile or the position around the map is the same.
LEMMA Wrapped ==
  ASSUME NEW w \in Nat \ {0}, NEW s \in Nat \ {0}, NEW y \in Nat
  PROVE  /\ s * w \in Nat \ {0}
         /\ (y \div w) % s = (y % (s * w)) \div w /\ y % w = (y % (s * w)) % w
         /\ y % (s * w) \in Nat /\ (y % (s * w)) \div w \in 0 .. s - 1
<1> DEFINE m == s * w
           a == y \div m
           b == y % m
           c == b \div w
           d == b % w
<1>1. m \in Nat \ {0}
  <2>1. m \in Int
    BY Product
  <2>2. 0 * w + w <= m
    <3>1. 0 < s /\ 0 \in Int
      OBVIOUS
    <3> QED
      BY <3>1, Order
  <2>3. 0 * w = 0
    OBVIOUS
  <2> HIDE DEF m
  <2> QED
    BY <2>1, <2>2, <2>3
<1>2. a \in Nat /\ b \in 0 .. m - 1 /\ y = a * m + b
  <2> HIDE DEF m
  <2> QED
    BY <1>1, Division
<1>3. c \in Nat /\ d \in 0 .. w - 1 /\ b = c * w + d
  <2>1. b \in Nat
    <3> HIDE DEF m, b
    <3> QED
      BY <1>1, <1>2
  <2> HIDE DEF b
  <2> QED
    BY <2>1, Division
<1>4. c < s
  <2>1. s <= c => m <= c * w
    <3>1. s < c => m + w <= c * w
      <4> HIDE DEF c
      <4> QED
        BY <1>3, Order
    <3>2. s = c => m = c * w
      OBVIOUS
    <3>3. m \in Nat /\ c * w \in Int /\ c \in Nat
      <4> HIDE DEF c
      <4> QED
        BY <1>1, <1>3, Product
    <3> DEFINE cw == c * w
    <3> HIDE DEF m, c, cw
    <3> QED
      BY <3>1, <3>2, <3>3 DEF cw
  <2> DEFINE cw == c * w
  <2>2. cw \in Int
    <3> HIDE DEF c
    <3> QED
      BY <1>3, Product
  <2>3. b = cw + d /\ (s <= c => m <= cw)
    BY <1>3, <2>1
  <2> HIDE DEF m, b, c, d, cw
  <2> QED
    BY <1>1, <1>2, <1>3, <2>2, <2>3
<1>5. a * m = (a * s) * w /\ a * s \in Nat
  <2> HIDE DEF a
  <2>1. a * (s * w) = (a * s) * w
    BY <1>2
  <2>2. a * s \in Nat
    BY <1>2, Product
  <2> QED
    BY <2>1, <2>2
<1>6. y = (a * s + c) * w + d
  <2> DEFINE as == a * s
  <2>1. (as + c) * w = as * w + c * w /\ as * w \in Int /\ c * w \in Int
    <3> HIDE DEF as, c
    <3> QED
      BY <1>3, <1>5, Product DEF as
  <2>2. y = (as * w) + (c * w + d)
    BY <1>2, <1>3, <1>5
  <2> DEFINE asw == as * w
             cw == c * w
             sum == (as + c) * w
  <2>3. asw \in Int /\ cw \in Int /\ d \in Int /\ sum = asw + cw /\ y = asw + (cw + d)
    BY <1>3, <2>1, <2>2
  <2> HIDE DEF asw, cw, d, sum
  <2>4. y = sum + d
    BY <2>3
  <2> QED
    BY <2>4 DEF sum
<1>7. y \div w = a * s + c /\ y % w = d
  <2> DEFINE as == a * s
  <2>1. as + c \in Nat
    <3> HIDE DEF as, c
    <3> QED
      BY <1>3, <1>5 DEF as
  <2> DEFINE q == as + c
  <2>2. y = q * w + d /\ q \in Nat
    BY <1>6, <2>1
  <2> HIDE DEF q, d
  <2>3. y \div w = q /\ y % w = d
    BY <1>3, <2>2, Quotient
  <2> QED
    BY <2>3 DEF q
<1>8. (a * s + c) % s = c
  <2> HIDE DEF a, c
  <2>1. c \in 0 .. s - 1
    BY <1>3, <1>4
  <2> QED
    BY <1>2, <2>1, Quotient
<1>9. c \in 0 .. s - 1 /\ b \in Nat
  <2> HIDE DEF m, b, c
  <2> QED
    BY <1>1, <1>2, <1>3, <1>4
<1> HIDE DEF a
<1> QED
  BY <1>1, <1>7, <1>8, <1>9

-----------------------------------------------------------------------------
(* Types.                                                                  *)

OnLine == {s \in Sprite : s.yPos <= LY + MAX_SPRITE_HEIGHT}

PixelTypes ==
  /\ regs \in [LCDC : SUBSET LcdcFlag, SCX : Nat, SCY : Nat, WX : Nat, WY : Nat,
               BGP : Nat, OBP0 : Nat, OBP1 : Nat]
  /\ VRAM \in [tilemap : Maps, tiledata : [TileLine -> Words]]
  /\ OAM \in Seq(Sprite)
  /\ mode \in {"OAM_SCAN", "DRAWING", "H_BLANK"}
  /\ LY \in 0 .. HEIGHT - 1
  /\ OAMLineBuffer \in Seq(OnLine)
  /\ mode # "DRAWING" => OAMLineBuffer = << >>

LEMMA PixelSizes ==
  /\ TILE_WIDTH \in Nat \ {0} /\ TILEMAP_SIDE_SIZE \in Nat \ {0} /\ HalfTiles \in Nat
  /\ WIDTH \in Nat /\ HEIGHT \in Nat \ {0} /\ WX_SHIFT \in Nat
  /\ MapWidth \in Nat \ {0} /\ WIDTH + WX_SHIFT <= MapWidth
  /\ HEIGHT <= MapWidth /\ MAX_SPRITE_HEIGHT \in Nat
<1>1. MapWidth \in Nat \ {0}
  BY Wrapped, PixelAssumption DEF MapWidth
<1> QED
  BY <1>1, PixelAssumption DEF MAX_SPRITE_HEIGHT

\* Every number of a set closed under adding one.
LEMMA NatSet ==
  ASSUME NEW S, 0 \in S, \A n \in Nat : n \in S => n + 1 \in S
  PROVE  Nat \subseteq S
<1> DEFINE T == Nat \ S
           R == OpToRel(<, Nat)
<1> SUFFICES ASSUME T # {} PROVE FALSE
  OBVIOUS
<1>1. IsWellFoundedOn(R, Nat)
  BY NatLessThanWellFounded
<1>2. PICK m \in T : \A k \in T : ~(<<k, m>> \in R)
  <2> HIDE DEF R
  <2>1. T \subseteq Nat
    OBVIOUS
  <2> HIDE DEF T
  <2> QED
    BY <1>1, <2>1, WFMin
<1>3. m \in Nat \ S
  OBVIOUS
<1>4. m # 0 /\ m - 1 \in Nat /\ m - 1 \in T
  <2> HIDE DEF R
  <2>1. m # 0 /\ m - 1 \in Nat
    BY <1>3
  <2>2. m - 1 \in S => m \in S
    <3>1. m - 1 \in S => (m - 1) + 1 \in S
      BY <2>1
    <3> QED
      BY <1>3, <3>1
  <2> QED
    BY <1>3, <2>1, <2>2
<1>5. <<m - 1, m>> \in R
  BY <1>3, <1>4 DEF OpToRel
<1> QED
  BY <1>2, <1>4, <1>5

-----------------------------------------------------------------------------
(* The loop that scans OAM ...                                             *)

LEMMA ScanExists ==
  ASSUME NEW k \in Nat
  PROVE  \E g : g = [n \in 0 .. k |->
                       IF n = 0 THEN << >> ELSE addSpriteToBufferIfNeeded(g[n - 1], OAM[n])]
<1> DEFINE Eq(m, g) == g = [n \in 0 .. m |->
                       IF n = 0 THEN << >> ELSE addSpriteToBufferIfNeeded(g[n - 1], OAM[n])]
           S == {m \in Nat : \E g : Eq(m, g)}
<1>1. 0 \in S
  <2> DEFINE g == [n \in 0 .. 0 |-> << >>]
  <2>1. Eq(0, g)
    OBVIOUS
  <2> QED
    BY <2>1
<1>2. ASSUME NEW m \in Nat, m \in S PROVE m + 1 \in S
  <2>1. PICK g : Eq(m, g)
    BY <1>2
  <2> DEFINE h == [n \in 0 .. m + 1 |->
                     IF n = m + 1 THEN addSpriteToBufferIfNeeded(g[m], OAM[m + 1]) ELSE g[n]]
  <2>2. ASSUME NEW n \in 0 .. m + 1
        PROVE  h[n] = IF n = 0 THEN << >> ELSE addSpriteToBufferIfNeeded(h[n - 1], OAM[n])
    <3>1. CASE n = 0
      BY <2>1, <3>1
    <3>2. CASE n = m + 1
      <4>1. h[n - 1] = g[m] /\ n # 0
        BY <3>2
      <4> QED
        BY <3>2, <4>1
    <3>3. CASE n \in 1 .. m
      <4>1. h[n - 1] = g[n - 1] /\ h[n] = g[n]
        BY <3>3
      <4>2. g[n] = addSpriteToBufferIfNeeded(g[n - 1], OAM[n])
        BY <2>1, <3>3
      <4> QED
        BY <3>3, <4>1, <4>2
    <3> QED
      BY <3>1, <3>2, <3>3
  <2>3. Eq(m + 1, h)
    <3>1. h = [n \in 0 .. m + 1 |-> h[n]]
      OBVIOUS
    <3> HIDE DEF h
    <3> QED
      BY <2>2, <3>1
  <2> HIDE DEF Eq, h
  <2> QED
    BY <2>3
<1>3. k \in S
  <2> HIDE DEF S
  <2> QED
    BY <1>1, <1>2, NatSet
<1> QED
  BY <1>3

\* The scan leaves sprites that begin above the line or on it.
LEMMA ScanTypes ==
  ASSUME PixelTypes
  PROVE  FirstSprites \in Seq(OnLine)
<1> DEFINE scanned[n \in 0 .. Len(OAM)] ==
             IF n = 0 THEN << >> ELSE addSpriteToBufferIfNeeded(scanned[n - 1], OAM[n])
<1>1. scanned = CHOOSE g : g = [n \in 0 .. Len(OAM) |->
                   IF n = 0 THEN << >> ELSE addSpriteToBufferIfNeeded(g[n - 1], OAM[n])]
  OBVIOUS
<1>2. FirstSprites = scanned[Len(OAM)]
  BY DEF FirstSprites
<1>3. Len(OAM) \in Nat /\ \A i \in 1 .. Len(OAM) : OAM[i] \in Sprite
  BY DEF PixelTypes
<1> HIDE DEF scanned
<1>4. scanned = [n \in 0 .. Len(OAM) |->
                   IF n = 0 THEN << >> ELSE addSpriteToBufferIfNeeded(scanned[n - 1], OAM[n])]
  BY <1>1, <1>3, ScanExists, Zenon
<1> DEFINE S == {n \in Nat : n <= Len(OAM) => scanned[n] \in Seq(OnLine)}
<1>5. 0 \in S
  BY <1>3, <1>4
<1>6. ASSUME NEW n \in Nat, n \in S PROVE n + 1 \in S
  <2> SUFFICES ASSUME n + 1 <= Len(OAM) PROVE scanned[n + 1] \in Seq(OnLine)
    OBVIOUS
  <2>1. scanned[n] \in Seq(OnLine)
    BY <1>3, <1>6
  <2>2. scanned[n + 1] = addSpriteToBufferIfNeeded(scanned[n], OAM[n + 1])
    BY <1>3, <1>4
  <2>3. OAM[n + 1] \in Sprite
    BY <1>3
  <2>4. OnCurrentLine(OAM[n + 1]) => OAM[n + 1] \in OnLine
    BY <2>3 DEF OnCurrentLine, OnLine
  <2> QED
    BY <2>1, <2>2, <2>4 DEF addSpriteToBufferIfNeeded
<1>7. Len(OAM) \in S
  <2> HIDE DEF S
  <2> QED
    BY <1>3, <1>5, <1>6, NatSet
<1> QED
  BY <1>2, <1>7

\* PixelTypes holds of every state.
LEMMA PixelInit ==
  ASSUME PixelsInit
  PROVE  PixelTypes
<1>1. regs \in [LCDC : SUBSET LcdcFlag, SCX : Nat, SCY : Nat, WX : Nat, WY : Nat,
               BGP : Nat, OBP0 : Nat, OBP1 : Nat]
  BY PixelAssumption DEF PixelsInit
<1>2. 0 \in 0 .. HEIGHT - 1
  BY PixelSizes
<1>3. /\ VRAM \in [tilemap : Maps, tiledata : [TileLine -> Words]]
      /\ OAM \in Seq(Sprite)
  BY PixelAssumption DEF PixelsInit
<1> QED
  BY <1>1, <1>2, <1>3 DEF PixelsInit, PixelTypes

LEMMA PixelStep ==
  ASSUME PixelTypes, [PixelsNext]_pixelsVars
  PROVE  PixelTypes'
<1> USE DEF PixelTypes, OnLine
<1>1. CASE ScanLine
  BY <1>1, ScanTypes DEF ScanLine
<1>2. CASE drawCurrentLine
  BY <1>2 DEF drawCurrentLine
<1>3. CASE EndLine
  <2>1. HEIGHT \in Nat \ {0} /\ LY + 1 \in Nat
    BY PixelSizes
  <2>2. (LY + 1) % HEIGHT \in 0 .. HEIGHT - 1
    BY <2>1, Division
  <2> QED
    BY <1>3, <2>2 DEF EndLine
<1>4. ASSUME NEW r \in DOMAIN RegisterWrites, NEW written \in RegisterWrites[r],
             WriteRegister(r, written)
      PROVE  PixelTypes'
  <2>1. r \in {"LCDC", "SCX", "SCY", "WX", "WY", "BGP", "OBP0", "OBP1"}
    BY PixelAssumption
  <2>2. regs' \in [LCDC : SUBSET LcdcFlag, SCX : Nat, SCY : Nat, WX : Nat, WY : Nat,
               BGP : Nat, OBP0 : Nat, OBP1 : Nat]
    BY <1>4, <2>1, PixelAssumption DEF WriteRegister
  <2> QED
    BY <1>4, <2>2 DEF WriteRegister
<1>5. ASSUME NEW written \in VramWrites, WriteVRAM(written) PROVE PixelTypes'
  BY <1>5, PixelAssumption DEF WriteVRAM
<1>6. ASSUME NEW written \in OamWrites, WriteOAM(written) PROVE PixelTypes'
  BY <1>6, PixelAssumption DEF WriteOAM
<1>7. CASE UNCHANGED pixelsVars
  BY <1>7 DEF pixelsVars
<1> QED
  BY <1>1, <1>2, <1>3, <1>4, <1>5, <1>6, <1>7 DEF PixelsNext

LEMMA PixelInvariant == PixelsSpec => []PixelTypes
<1>1. PixelsInit => PixelTypes
  BY PixelInit
<1>2. PixelTypes /\ [PixelsNext]_pixelsVars => PixelTypes'
  BY PixelStep
<1> QED
  BY <1>1, <1>2, PTL DEF PixelsSpec

-----------------------------------------------------------------------------
(* Background and window: a place on a map.                                *)

\* A signed tile number counts from the middle of the tile data.
LEMMA TileLines ==
  ASSUME NEW number \in 0 .. 2 * HalfTiles - 1, NEW row \in Nat
  PROVE  getTiledataAddress(number, row)
           = (IF ~LCDC("TILE_DATA_SELECT_MODE") /\ number < HalfTiles
              THEN number + 2 * HalfTiles ELSE number) * TILE_WIDTH + row
<1> DEFINE double == 2 * HalfTiles
<1>1. number \in Int /\ TILE_WIDTH \in Nat /\ HalfTiles \in Nat /\ double \in Int
  BY PixelSizes
<1>2. /\ (number + double) * TILE_WIDTH = number * TILE_WIDTH + double * TILE_WIDTH
      /\ ((number - double) + double) * TILE_WIDTH
           = (number - double) * TILE_WIDTH + double * TILE_WIDTH
      /\ number * TILE_WIDTH \in Int /\ double * TILE_WIDTH \in Int
      /\ (number - double) * TILE_WIDTH \in Int
  <2>1. number - double \in Int
    BY <1>1
  <2> DEFINE rest == number - double
  <2> HIDE DEF double, rest
  <2>2. /\ (number + double) * TILE_WIDTH = number * TILE_WIDTH + double * TILE_WIDTH
        /\ (rest + double) * TILE_WIDTH = rest * TILE_WIDTH + double * TILE_WIDTH
        /\ number * TILE_WIDTH \in Int /\ double * TILE_WIDTH \in Int /\ rest * TILE_WIDTH \in Int
    BY <1>1, <2>1, Product DEF rest
  <2> QED
    BY <2>2 DEF rest
<1>3. (number - double) + double = number
  <2> HIDE DEF double
  <2> QED
    BY <1>1
<1> DEFINE up == (number + double) * TILE_WIDTH
           same == number * TILE_WIDTH
           down == (number - double) * TILE_WIDTH
           middle == double * TILE_WIDTH
<1>4. /\ up \in Int /\ same \in Int /\ down \in Int /\ middle \in Int
      /\ up = middle + same /\ same = middle + down /\ 0 + same = same
  <2>1. same = down + middle /\ up = same + middle
    BY <1>2, <1>3
  <2> HIDE DEF up, same, down, middle
  <2> QED
    BY <1>2, <2>1 DEF up, same, down, middle
<1>5. TILEDATA_BASE_8000 = 0 /\ TILEDATA_BASE_9000 = middle
  BY DEF TILEDATA_BASE_8000, TILEDATA_BASE_9000
<1>6. CASE LCDC("TILE_DATA_SELECT_MODE")
  <2>1. getTiledataAddress(number, row) = 0 + same + row
    BY <1>5, <1>6 DEF getTiledataAddress
  <2> QED
    BY <1>4, <1>6, <2>1
<1>7. CASE ~LCDC("TILE_DATA_SELECT_MODE") /\ number < HalfTiles
  <2>1. getTiledataAddress(number, row) = middle + same + row
    BY <1>5, <1>7 DEF getTiledataAddress, static_cast_signed
  <2> QED
    BY <1>4, <1>7, <2>1
<1>8. CASE ~LCDC("TILE_DATA_SELECT_MODE") /\ ~(number < HalfTiles)
  <2>1. getTiledataAddress(number, row) = middle + down + row
    BY <1>5, <1>8 DEF getTiledataAddress, static_cast_signed
  <2> QED
    BY <1>4, <1>8, <2>1
<1> QED
  BY <1>6, <1>7, <1>8

\* A place on the screen's side is on a tile of the map.
LEMMA Places ==
  ASSUME NEW px \in 0 .. MapWidth - 1
  PROVE  /\ px \div TILE_WIDTH \in 0 .. TILEMAP_SIDE_SIZE - 1
         /\ px % TILE_WIDTH \in Bit
<1>1. px \in Nat /\ px < MapWidth /\ px % MapWidth = px
  <2>1. MapWidth \in Nat \ {0}
    BY PixelSizes
  <2>2. px \in Nat /\ px < MapWidth
    BY <2>1
  <2> QED
    BY <2>1, <2>2, SmallQuotient
<1>2. (px % MapWidth) \div TILE_WIDTH \in 0 .. TILEMAP_SIDE_SIZE - 1
  BY <1>1, PixelSizes, Wrapped DEF MapWidth
<1>3. px % TILE_WIDTH \in 0 .. TILE_WIDTH - 1
  BY <1>1, PixelSizes, Division
<1> QED
  BY <1>1, <1>2, <1>3 DEF Bit

\* The colors of a line of a map.
LEMMA MapLine ==
  ASSUME PixelTypes, NEW window \in BOOLEAN, NEW y \in Nat,
         NEW px \in 0 .. MapWidth - 1
  PROVE  computeColorBuffer(lineOfMap(window, y))[px]
           = MapColor(getTilemapBaseAddress(window), px, y % MapWidth)
<1> DEFINE base == getTilemapBaseAddress(window)
           tileX == px \div TILE_WIDTH
           tileY == (y \div TILE_WIDTH) % TILEMAP_SIDE_SIZE
           number == VRAM.tilemap[base][tileX + tileY * TILEMAP_SIDE_SIZE]
           row == y % TILE_WIDTH
           py == y % MapWidth
<1>1. tileX \in 0 .. TILEMAP_SIDE_SIZE - 1
  BY Places
<1>2. /\ tileY = py \div TILE_WIDTH /\ row = py % TILE_WIDTH
      /\ tileY \in 0 .. TILEMAP_SIDE_SIZE - 1 /\ row \in Nat
  <2>1. /\ tileY = py \div TILE_WIDTH /\ row = py % TILE_WIDTH
        /\ py \div TILE_WIDTH \in 0 .. TILEMAP_SIDE_SIZE - 1
    BY PixelSizes, Wrapped DEF MapWidth
  <2>2. row \in 0 .. TILE_WIDTH - 1
    BY PixelSizes, Division
  <2> HIDE DEF tileY, row, py
  <2> QED
    BY <2>1, <2>2
<1>3. /\ tileX + tileY * TILEMAP_SIDE_SIZE \in 0 .. TILEMAP_SIDE_SIZE * TILEMAP_SIDE_SIZE - 1
      /\ tileX + tileY * TILEMAP_SIDE_SIZE = tileY * TILEMAP_SIDE_SIZE + tileX
  <2> DEFINE rows == tileY * TILEMAP_SIDE_SIZE
             all == TILEMAP_SIDE_SIZE * TILEMAP_SIDE_SIZE
  <2>1. rows + TILEMAP_SIDE_SIZE <= all /\ rows \in Nat /\ all \in Nat
    <3> HIDE DEF tileY
    <3> QED
      BY <1>2, PixelSizes, Order, Product
  <2> HIDE DEF tileX, rows, all
  <2> QED
    BY <1>1, <2>1, PixelSizes DEF rows, all
<1>4. base \in BOOLEAN
  BY DEF getTilemapBaseAddress, LCDC
<1>5. number \in 0 .. 2 * HalfTiles - 1
  <2>1. VRAM.tilemap[base]
          \in [0 .. TILEMAP_SIDE_SIZE * TILEMAP_SIDE_SIZE - 1 -> 0 .. 2 * HalfTiles - 1]
    <3> HIDE DEF base
    <3> QED
      BY <1>4 DEF PixelTypes, Maps
  <2> DEFINE place == tileX + tileY * TILEMAP_SIDE_SIZE
             last == TILEMAP_SIDE_SIZE * TILEMAP_SIDE_SIZE - 1
  <2> HIDE DEF base, place, last
  <2> QED
    BY <1>3, <2>1 DEF place, last
<1>6. lineOfMap(window, y)[tileX] = VRAM.tiledata[getTiledataAddress(number, row)]
  <2> HIDE DEF tileX
  <2> QED
    BY <1>1 DEF lineOfMap
<1>7. number = VRAM.tilemap[base][(py \div TILE_WIDTH) * TILEMAP_SIDE_SIZE + tileX]
  <2> HIDE DEF base, tileX, tileY, py
  <2> QED
    BY <1>2, <1>3
<1>8. computeColorBuffer(lineOfMap(window, y))[px]
        = value(lineOfMap(window, y)[tileX], TILE_WIDTH - 1 - (px % TILE_WIDTH))
  BY DEF computeColorBuffer
<1>9. getTiledataAddress(number, row)
        = (IF ~LCDC("TILE_DATA_SELECT_MODE") /\ number < HalfTiles
           THEN number + 2 * HalfTiles ELSE number) * TILE_WIDTH + row
  <2> HIDE DEF number, row
  <2> QED
    BY <1>2, <1>5, TileLines
<1> DEFINE tile == IF ~LCDC("TILE_DATA_SELECT_MODE") /\ number < HalfTiles
                   THEN number + 2 * HalfTiles ELSE number
           words == VRAM.tiledata[tile * TILE_WIDTH + (py % TILE_WIDTH)]
<1>10. words = lineOfMap(window, y)[tileX]
  <2>1. getTiledataAddress(number, row) = tile * TILE_WIDTH + (py % TILE_WIDTH)
    <3> HIDE DEF number, row, py
    <3> QED
      BY <1>2, <1>9
  <2> HIDE DEF number, row, py, tile, tileX
  <2> QED
    BY <1>6, <2>1
<1>11. MapColor(base, px, py) = value(words, TILE_WIDTH - 1 - (px % TILE_WIDTH))
  <2> DEFINE other == VRAM.tilemap[base][(py \div TILE_WIDTH) * TILEMAP_SIDE_SIZE
                                           + (px \div TILE_WIDTH)]
  <2>1. MapColor(base, px, py)
          = value(VRAM.tiledata[(IF ~LCDC("TILE_DATA_SELECT_MODE") /\ other < HalfTiles
                                 THEN other + 2 * HalfTiles ELSE other) * TILE_WIDTH
                                + (py % TILE_WIDTH)], TILE_WIDTH - 1 - (px % TILE_WIDTH))
    BY Zenon DEF MapColor
  <2>2. other = number
    BY <1>7
  <2> HIDE DEF other, number, py, base
  <2> QED
    BY <2>1, <2>2
<1> HIDE DEF words
<1> QED
  BY <1>8, <1>10, <1>11

\* Where nothing is enabled there is nothing.
LEMMA BlankLine ==
  ASSUME NEW px \in 0 .. MapWidth - 1
  PROVE  computeColorBuffer(blankLine)[px] = 0
<1>1. blankLine[px \div TILE_WIDTH] = [lsb |-> {}, msb |-> {}]
  BY Places DEF blankLine
<1> QED
  BY <1>1 DEF computeColorBuffer, value

LEMMA Registers ==
  ASSUME PixelTypes, NEW x \in Row
  PROVE  /\ regs.SCX \in Nat /\ regs.SCY \in Nat /\ regs.WX \in Nat /\ regs.WY \in Nat
         /\ LY \in Nat /\ LY < MapWidth
         /\ x \in Nat /\ x < WIDTH /\ x \in 0 .. MapWidth - 1
         /\ isPositionInsideWindow(x, LY) <=> InWindow(x)
<1>1. /\ regs.SCX \in Nat /\ regs.SCY \in Nat /\ regs.WX \in Nat /\ regs.WY \in Nat
      /\ LY \in Nat /\ LY < HEIGHT
  BY PixelSizes DEF PixelTypes
<1>2. x \in Nat /\ x < WIDTH
  BY PixelSizes DEF Row
<1>3. isPositionInsideWindow(x, LY) <=> InWindow(x)
  BY <1>1, <1>2, PixelSizes DEF isPositionInsideWindow, InWindow
<1> QED
  BY <1>1, <1>2, <1>3, PixelSizes

\* The window's words are the ones of this line wherever they are shown.
LEMMA WindowBehind ==
  ASSUME PixelTypes, NEW x \in Row, InWindow(x)
  PROVE  computeColorBuffer(prepareWindowLine)[(x - regs.WX + WX_SHIFT) % MapWidth]
           = BehindSprites(x)
<1> DEFINE px == x + WX_SHIFT - regs.WX
           y == LY - regs.WY
<1>1. px \in 0 .. MapWidth - 1 /\ x - regs.WX + WX_SHIFT = px /\ y \in Nat /\ y < MapWidth
  BY Registers, PixelSizes DEF InWindow
<1>2. px % MapWidth = px /\ y % MapWidth = y
  <2> HIDE DEF px, y
  <2> QED
    BY <1>1, PixelSizes, SmallQuotient
<1>3. (x - regs.WX + WX_SHIFT) % MapWidth = px
  BY <1>1, <1>2
<1>4. CASE ~LCDC("BG_WINDOW_ENABLE")
  <2>1. prepareWindowLine = blankLine /\ BehindSprites(x) = 0
    BY <1>4 DEF prepareWindowLine, BehindSprites
  <2> HIDE DEF px
  <2> QED
    BY <1>1, <1>3, <2>1, BlankLine
<1>5. CASE LCDC("BG_WINDOW_ENABLE")
  <2>1. isPositionInsideWindow(WIDTH - 1, LY)
    <3>1. WIDTH - 1 \in Row /\ x <= WIDTH - 1
      BY Registers, PixelSizes DEF Row
    <3> QED
      BY <3>1, Registers, PixelSizes DEF isPositionInsideWindow, InWindow
  <2>2. prepareWindowLine = lineOfMap(TRUE, y)
    BY <1>5, <2>1 DEF prepareWindowLine
  <2>3. BehindSprites(x) = MapColor(getTilemapBaseAddress(TRUE), px, y)
    BY <1>5 DEF BehindSprites, getTilemapBaseAddress
  <2>4. computeColorBuffer(lineOfMap(TRUE, y))[px]
          = MapColor(getTilemapBaseAddress(TRUE), px, y % MapWidth)
    <3> HIDE DEF px, y
    <3> QED
      BY <1>1, MapLine
  <2> HIDE DEF px, y
  <2> QED
    BY <1>2, <1>3, <2>2, <2>3, <2>4
<1> QED
  BY <1>4, <1>5

\* Each place of the background buffer is one on the map.
LEMMA Background ==
  ASSUME PixelTypes, NEW x \in Row
  PROVE  /\ ~InWindow(x) =>
              computeColorBuffer(prepareBackgroundLine)[(x + regs.SCX) % MapWidth]
                = BehindSprites(x)
         /\ ~InWindow(x) /\ regs.SCX = 0
              => computeColorBuffer(prepareBackgroundLine)[x] = BehindSprites(x)
<1> SUFFICES ASSUME ~InWindow(x)
             PROVE  /\ computeColorBuffer(prepareBackgroundLine)
                            [(x + regs.SCX) % MapWidth]
                         = BehindSprites(x)
                    /\ regs.SCX = 0 => (x + regs.SCX) % MapWidth = x
  OBVIOUS
<1> DEFINE px == (x + regs.SCX) % MapWidth
           y == LY + regs.SCY
<1>1. px \in 0 .. MapWidth - 1 /\ y \in Nat
  <2>1. x + regs.SCX \in Nat /\ y \in Nat
    BY Registers
  <2> QED
    BY <2>1, PixelSizes, Division
<1>2. regs.SCX = 0 => px = x
  <2>1. x % MapWidth = x
    BY Registers, PixelSizes, SmallQuotient
  <2>2. regs.SCX = 0 => x + regs.SCX = x
    BY Registers
  <2> QED
    BY <2>1, <2>2
<1>3. CASE ~LCDC("BG_WINDOW_ENABLE")
  <2>1. prepareBackgroundLine = blankLine /\ BehindSprites(x) = 0
    BY <1>3 DEF prepareBackgroundLine, BehindSprites
  <2> HIDE DEF px
  <2>2. computeColorBuffer(prepareBackgroundLine)[px] = BehindSprites(x)
    BY <1>1, <2>1, BlankLine
  <2> QED
    BY <1>2, <2>2 DEF px
<1>4. CASE LCDC("BG_WINDOW_ENABLE")
  <2>1. prepareBackgroundLine = lineOfMap(FALSE, y)
    BY <1>4 DEF prepareBackgroundLine
  <2>2. BehindSprites(x)
          = MapColor(getTilemapBaseAddress(FALSE), px, y % MapWidth)
    BY <1>4 DEF BehindSprites, getTilemapBaseAddress
  <2>3. computeColorBuffer(lineOfMap(FALSE, y))[px]
          = MapColor(getTilemapBaseAddress(FALSE), px, y % MapWidth)
    <3> HIDE DEF px, y
    <3> QED
      BY <1>1, MapLine
  <2> HIDE DEF y
  <2> QED
    BY <1>2, <2>1, <2>2, <2>3
<1> QED
  BY <1>3, <1>4

backgroundColors == computeColorBuffer(prepareBackgroundLine)
flushed ==
  flushLineToScreenBuffer(backgroundColors, computeColorBuffer(prepareWindowLine))

LEMMA Flushed ==
  ASSUME PixelTypes, NEW x \in Row
  PROVE  flushed[x] = Shown(x)
<1>1. flushed[x] = IF isPositionInsideWindow(x, LY)
                   THEN computeColorBuffer(prepareWindowLine)
                          [(x - regs.WX + WX_SHIFT) % MapWidth]
                   ELSE applyPalette("BGP", backgroundColors[(x + regs.SCX) % MapWidth])
  BY DEF flushed, flushLineToScreenBuffer
<1>2. CASE InWindow(x)
  BY <1>1, <1>2, Registers, WindowBehind DEF Shown
<1>3. CASE ~InWindow(x)
  BY <1>1, <1>3, Registers, Background DEF Shown, backgroundColors
<1> QED
  BY <1>2, <1>3

-----------------------------------------------------------------------------
(* Sprites: the color of one at a pixel.                                   *)

\* A sprite of double height is two tiles in a row.
LEMMA SpriteLines ==
  ASSUME PixelTypes, NEW s \in OnLine,
         FLIP_Y \notin s.flags, LineOf(s) < Height
  PROVE  spriteTileLine(s)
           = VRAM.tiledata[(IF LCDC("SPRITE_SIZE") THEN s.tileNumber - (s.tileNumber % 2)
                            ELSE s.tileNumber) * TILE_WIDTH + LineOf(s)]
<1> DEFINE line == LY - (s.yPos - MAX_SPRITE_HEIGHT)
           number == s.tileNumber
           top == number - (number % 2)
           W == TILE_WIDTH
<1>1. /\ number \in Int /\ top \in Int /\ line \in Nat /\ W \in Nat \ {0}
      /\ line = LineOf(s) /\ line < Height
  <2>1. number \in Nat /\ s.yPos \in Nat /\ LY \in Nat
        /\ s.yPos <= LY + MAX_SPRITE_HEIGHT
    BY PixelSizes DEF OnLine, Sprite, PixelTypes
  <2>3. number % 2 \in Int
    <3> HIDE DEF number
    <3> QED
      BY <2>1
  <2>2. MAX_SPRITE_HEIGHT = 2 * TILE_WIDTH /\ MAX_SPRITE_HEIGHT \in Nat
    BY PixelSizes DEF MAX_SPRITE_HEIGHT
  <2> QED
    BY <2>1, <2>2, <2>3, PixelSizes DEF LineOf
<1>2. spriteTileLine(s)
        = VRAM.tiledata[TILEDATA_BASE_8000
            + (IF getSpriteHeight = W THEN number ELSE IF line >= W THEN top + 1 ELSE top) * W
            + (line % W)]
  <2>1. ((line >= W) # (FLIP_Y \in s.flags)) <=> line >= W
    OBVIOUS
  <2> HIDE DEF top
  <2> QED
    BY <2>1, Zenon DEF spriteTileLine, top
<1>3. CASE ~LCDC("SPRITE_SIZE")
  <2>1. getSpriteHeight = W /\ line < W
    BY <1>1, <1>3 DEF getSpriteHeight, Height
  <2>2. line % W = line
    BY <1>1, <2>1, SmallQuotient
  <2>3. number * W \in Int
    BY <1>1, Product
  <2> DEFINE tile == number * W
  <2>4. 0 + tile + line = tile + line
    <3> HIDE DEF tile, line
    <3> QED
      BY <1>1, <2>3 DEF tile
  <2> HIDE DEF tile, line
  <2> QED
    BY <1>1, <1>2, <1>3, <2>1, <2>2, <2>4 DEF tile, TILEDATA_BASE_8000
<1>4. CASE LCDC("SPRITE_SIZE") /\ line < W
  <2>1. getSpriteHeight # W /\ ~(line >= W)
    BY <1>1, <1>4 DEF getSpriteHeight, MAX_SPRITE_HEIGHT
  <2>2. line % W = line
    BY <1>1, <1>4, SmallQuotient
  <2> DEFINE tile == top * W
  <2>3. tile \in Int
    <3> HIDE DEF top
    <3> QED
      BY <1>1, Product
  <2>4. 0 + tile + line = tile + line
    <3> HIDE DEF tile, line
    <3> QED
      BY <1>1, <2>3
  <2> HIDE DEF tile, line
  <2> QED
    BY <1>1, <1>2, <1>4, <2>1, <2>2, <2>4 DEF tile, TILEDATA_BASE_8000
<1>5. CASE LCDC("SPRITE_SIZE") /\ ~(line < W)
  <2>1. getSpriteHeight # W /\ line >= W /\ line < 2 * W
    BY <1>1, <1>5 DEF getSpriteHeight, Height, MAX_SPRITE_HEIGHT
  <2>2. line % W = line - W
    BY <1>1, <2>1, SmallQuotient
  <2> DEFINE tile == top * W
             next == (top + 1) * W
  <2>3. tile \in Int /\ next = tile + 1 * W
    <3> HIDE DEF top
    <3> QED
      BY <1>1, Product
  <2>4. 0 + next + (line - W) = tile + line
    <3> HIDE DEF tile, next, line
    <3> QED
      BY <1>1, <2>3
  <2> HIDE DEF tile, next, line, top
  <2> QED
    BY <1>1, <1>2, <1>5, <2>1, <2>2, <2>4 DEF tile, next, top, TILEDATA_BASE_8000
<1> QED
  BY <1>3, <1>4, <1>5

LEMMA SpriteColors ==
  ASSUME PixelTypes, NEW s \in OnLine, NEW x \in Row,
         Column(s, x) \in Bit, FLIP_Y \notin s.flags, LineOf(s) < Height
  PROVE  spriteValue(s, x) = SpriteColor(s, x)
<1>1. /\ x + TILE_WIDTH - s.xPos = Column(s, x) /\ Column(s, x) \in Int
      /\ TILE_WIDTH - 1 - (TILE_WIDTH - 1 - Column(s, x)) = Column(s, x)
  <2>1. s.xPos \in Nat /\ x \in Nat
    BY Registers DEF OnLine, Sprite
  <2> QED
    BY <2>1, PixelSizes DEF Column
<1> DEFINE words == spriteTileLine(s)
           column == IF FLIP_X \in s.flags THEN TILE_WIDTH - 1 - Column(s, x)
                     ELSE Column(s, x)
<1>2. SpriteColor(s, x) = value(words, TILE_WIDTH - 1 - column)
  BY SpriteLines DEF SpriteColor
<1>3. spriteValue(s, x)
        = value(words, IF FLIP_X \in s.flags THEN Column(s, x)
                           ELSE TILE_WIDTH - 1 - Column(s, x))
  BY <1>1 DEF spriteValue
<1> HIDE DEF words
<1>4. TILE_WIDTH - 1 - column
        = IF FLIP_X \in s.flags THEN Column(s, x) ELSE TILE_WIDTH - 1 - Column(s, x)
  BY <1>1
<1> HIDE DEF column
<1> QED
  BY <1>2, <1>3, <1>4

-----------------------------------------------------------------------------
(* ... and the loop that draws the buffer: the last sprite seen wins.      *)

LEMMA DrawnExists ==
  ASSUME NEW k \in Nat
  PROVE  \E g : g = [n \in 0 .. k |->
                       IF n = 0 THEN flushed
                       ELSE drawSprite(backgroundColors, g[n - 1], OAMLineBuffer[n])]
<1> DEFINE Eq(m, g) == g = [n \in 0 .. m |->
                       IF n = 0 THEN flushed
                       ELSE drawSprite(backgroundColors, g[n - 1], OAMLineBuffer[n])]
           S == {m \in Nat : \E g : Eq(m, g)}
<1>1. 0 \in S
  <2> DEFINE g == [n \in 0 .. 0 |-> flushed]
  <2>1. Eq(0, g)
    OBVIOUS
  <2> QED
    BY <2>1
<1>2. ASSUME NEW m \in Nat, m \in S PROVE m + 1 \in S
  <2>1. PICK g : Eq(m, g)
    BY <1>2
  <2> DEFINE h == [n \in 0 .. m + 1 |->
                     IF n = m + 1 THEN drawSprite(backgroundColors, g[m], OAMLineBuffer[m + 1])
                     ELSE g[n]]
  <2>2. ASSUME NEW n \in 0 .. m + 1
        PROVE  h[n] = IF n = 0 THEN flushed
                      ELSE drawSprite(backgroundColors, h[n - 1], OAMLineBuffer[n])
    <3>1. CASE n = 0
      BY <2>1, <3>1
    <3>2. CASE n = m + 1
      <4>1. h[n - 1] = g[m] /\ n # 0
        BY <3>2
      <4> QED
        BY <3>2, <4>1
    <3>3. CASE n \in 1 .. m
      <4>1. h[n - 1] = g[n - 1] /\ h[n] = g[n]
        BY <3>3
      <4>2. g[n] = drawSprite(backgroundColors, g[n - 1], OAMLineBuffer[n])
        BY <2>1, <3>3
      <4> QED
        BY <3>3, <4>1, <4>2
    <3> QED
      BY <3>1, <3>2, <3>3
  <2>3. Eq(m + 1, h)
    <3>1. h = [n \in 0 .. m + 1 |-> h[n]]
      OBVIOUS
    <3> HIDE DEF h
    <3> QED
      BY <2>2, <3>1
  <2> HIDE DEF Eq, h
  <2> QED
    BY <2>3
<1>3. k \in S
  <2> HIDE DEF S
  <2> QED
    BY <1>1, <1>2, NatSet
<1> QED
  BY <1>3

\* A sprite of the buffer that decides a pixel, if no later one does.
Seen(i, x) ==
  OAMLineBuffer[i].xPos >= TILE_WIDTH /\ overSprite(OAMLineBuffer[i], backgroundColors, x)
SeenColor(i, x) ==
  applyPalette(Palette(OAMLineBuffer[i]), spriteValue(OAMLineBuffer[i], x))

\* The pixel after the first n sprites.
LastSeen(n, x, color) ==
  \/ (\A i \in 1 .. n : ~Seen(i, x)) /\ color = flushed[x]
  \/ \E top \in 1 .. n :
       /\ Seen(top, x) /\ color = SeenColor(top, x)
       /\ \A i \in 1 .. n : Seen(i, x) => i <= top

LEMMA OneSprite ==
  ASSUME PixelTypes, NEW i \in 1 .. Len(OAMLineBuffer),
         NEW x \in Row, NEW row
  PROVE  drawSprite(backgroundColors, row, OAMLineBuffer[i])[x]
           = IF Seen(i, x) THEN SeenColor(i, x) ELSE row[x]
<1>1. OAMLineBuffer[i].xPos \in Nat
  <2>1. OAMLineBuffer[i] \in OnLine
    BY DEF PixelTypes
  <2> QED
    BY <2>1 DEF OnLine, Sprite
<1>2. CASE OAMLineBuffer[i].xPos < TILE_WIDTH
  BY <1>1, <1>2, PixelSizes DEF drawSprite, Seen
<1>3. CASE OAMLineBuffer[i].xPos >= TILE_WIDTH
  BY <1>1, <1>3, PixelSizes DEF drawSprite, Seen, SeenColor, Palette
<1> QED
  BY <1>1, <1>2, <1>3, PixelSizes

LEMMA LastWins ==
  ASSUME PixelTypes, NEW x \in Row, LCDC("SPRITE_ENABLE")
  PROVE  LastSeen(Len(OAMLineBuffer), x,
                  computeAndFlushSpritesToScreenBuffer(backgroundColors, flushed)[x])
<1> DEFINE drawn[n \in 0 .. Len(OAMLineBuffer)] ==
             IF n = 0 THEN flushed
             ELSE drawSprite(backgroundColors, drawn[n - 1], OAMLineBuffer[n])
<1>1. drawn = CHOOSE g : g = [n \in 0 .. Len(OAMLineBuffer) |->
                 IF n = 0 THEN flushed
                       ELSE drawSprite(backgroundColors, g[n - 1], OAMLineBuffer[n])]
  OBVIOUS
<1>2. computeAndFlushSpritesToScreenBuffer(backgroundColors, flushed)
        = drawn[Len(OAMLineBuffer)]
  BY DEF computeAndFlushSpritesToScreenBuffer
<1>3. Len(OAMLineBuffer) \in Nat
  BY DEF PixelTypes
<1> HIDE DEF drawn
<1>4. drawn = [n \in 0 .. Len(OAMLineBuffer) |->
                 IF n = 0 THEN flushed
                 ELSE drawSprite(backgroundColors, drawn[n - 1], OAMLineBuffer[n])]
  BY <1>1, <1>3, DrawnExists, Zenon
<1> DEFINE S == {n \in Nat : n <= Len(OAMLineBuffer) => LastSeen(n, x, drawn[n][x])}
<1>5. 0 \in S
  <2>1. drawn[0] = flushed
    BY <1>3, <1>4
  <2> QED
    BY <2>1 DEF LastSeen
<1>6. ASSUME NEW n \in Nat, n \in S PROVE n + 1 \in S
  <2> SUFFICES ASSUME n + 1 <= Len(OAMLineBuffer) PROVE LastSeen(n + 1, x, drawn[n + 1][x])
    OBVIOUS
  <2>1. LastSeen(n, x, drawn[n][x])
    BY <1>3, <1>6
  <2>2. drawn[n + 1] = drawSprite(backgroundColors, drawn[n], OAMLineBuffer[n + 1])
    BY <1>3, <1>4
  <2>3. drawn[n + 1][x] = IF Seen(n + 1, x) THEN SeenColor(n + 1, x) ELSE drawn[n][x]
    <3> DEFINE row == drawn[n]
    <3>1. n + 1 \in 1 .. Len(OAMLineBuffer)
      BY <1>3
    <3> HIDE DEF row
    <3>2. drawSprite(backgroundColors, row, OAMLineBuffer[n + 1])[x]
            = IF Seen(n + 1, x) THEN SeenColor(n + 1, x) ELSE row[x]
      BY <3>1, OneSprite
    <3> QED
      BY <2>2, <3>2 DEF row
  <2>4. CASE Seen(n + 1, x)
    BY <2>3, <2>4 DEF LastSeen
  <2>5. CASE ~Seen(n + 1, x)
    <3>1. drawn[n + 1][x] = drawn[n][x]
      BY <2>3, <2>5
    <3>2. \A i \in 1 .. n + 1 : i = n + 1 \/ i \in 1 .. n
      OBVIOUS
    <3>3. \A i \in 1 .. n : i \in 1 .. n + 1
      OBVIOUS
    <3> QED
      BY <2>1, <2>5, <3>1, <3>2, <3>3 DEF LastSeen
  <2> QED
    BY <2>4, <2>5
<1>7. Len(OAMLineBuffer) \in S
  <2> HIDE DEF S
  <2> QED
    BY <1>3, <1>5, <1>6, NatSet
<1> QED
  BY <1>2, <1>7

-----------------------------------------------------------------------------
(* A drawn line.                                                           *)

LEMMA DrawnLine ==
  ASSUME drawCurrentLine
  PROVE  screenLine' = computeAndFlushSpritesToScreenBuffer(backgroundColors, flushed)
  BY DEF drawCurrentLine, backgroundColors, flushed

\* A sprite seen at a pixel touches it.
LEMMA SeenTouches ==
  ASSUME PixelTypes, NEW x \in Row, LCDC("SPRITE_ENABLE"),
         NEW i \in 1 .. Len(OAMLineBuffer)
  PROVE  /\ OAMLineBuffer[i] \in OnLine
         /\ Column(OAMLineBuffer[i], x) = x + TILE_WIDTH - OAMLineBuffer[i].xPos
         /\ Seen(i, x) => Touches(OAMLineBuffer[i], x)
<1>1. OAMLineBuffer[i] \in OnLine
  BY DEF PixelTypes
<1>2. OAMLineBuffer[i].xPos \in Nat /\ x \in Nat
  BY <1>1, Registers DEF OnLine, Sprite
<1>3. Column(OAMLineBuffer[i], x) = x + TILE_WIDTH - OAMLineBuffer[i].xPos
  BY <1>2, PixelSizes DEF Column
<1> QED
  BY <1>1, <1>3 DEF Seen, overSprite, Touches

LEMMA NoSprite ==
  ASSUME PixelTypes, drawCurrentLine, NEW x \in Row,
         \A i \in DOMAIN OAMLineBuffer : ~Touches(OAMLineBuffer[i], x)
  PROVE  screenLine'[x] = Shown(x)
<1>1. CASE ~LCDC("SPRITE_ENABLE")
  BY <1>1, DrawnLine, Flushed DEF computeAndFlushSpritesToScreenBuffer
<1>2. CASE LCDC("SPRITE_ENABLE")
  <2>1. DOMAIN OAMLineBuffer = 1 .. Len(OAMLineBuffer)
    BY DEF PixelTypes
  <2>2. LastSeen(Len(OAMLineBuffer), x, screenLine'[x])
    BY <1>2, DrawnLine, LastWins
  <2>3. \A i \in 1 .. Len(OAMLineBuffer) : ~Seen(i, x)
    BY <1>2, <2>1, SeenTouches
  <2> QED
    BY <2>2, <2>3, Flushed DEF LastSeen
<1> QED
  BY <1>1, <1>2

\* Where no sprite is, drawCurrentLine shows what the maps hold there, with
\* nothing left of an earlier line or frame.
THEOREM MapsShown == PixelsSpec => LineShowsMaps
<1>1. PixelTypes /\ [PixelsNext]_pixelsVars
        => [drawCurrentLine => \A x \in Row : ShowsMaps(x)]_pixelsVars
  BY NoSprite DEF ShowsMaps
<1> QED
  BY <1>1, PixelInvariant, PTL DEF PixelsSpec, LineShowsMaps

\* An upright sprite that touches a pixel is seen there unless it is
\* transparent or behind the background.
LEMMA UprightSeen ==
  ASSUME PixelTypes, NEW x \in Row, LCDC("SPRITE_ENABLE"),
         NEW i \in 1 .. Len(OAMLineBuffer), Touches(OAMLineBuffer[i], x),
         Upright(OAMLineBuffer[i], x)
  PROVE  /\ Seen(i, x) <=> /\ SpriteColor(OAMLineBuffer[i], x) # 0
                           /\ \/ PRIORITY \notin OAMLineBuffer[i].flags
                              \/ BehindSprites(x) = 0
         /\ SeenColor(i, x)
              = applyPalette(Palette(OAMLineBuffer[i]),
                                 SpriteColor(OAMLineBuffer[i], x))
<1> DEFINE s == OAMLineBuffer[i]
<1>1. s \in OnLine /\ Column(s, x) = x + TILE_WIDTH - s.xPos
  BY SeenTouches
<1>2. spriteValue(s, x) = SpriteColor(s, x)
  <2> HIDE DEF s
  <2>1. Touches(s, x) /\ Upright(s, x)
    BY DEF s
  <2> QED
    BY <1>1, <2>1, SpriteColors DEF Touches, Upright
<1>3. PRIORITY \in s.flags => backgroundColors[x] = BehindSprites(x)
  BY Background DEF Upright, backgroundColors
<1>4. Column(s, x) \in Bit /\ s.xPos >= TILE_WIDTH
  BY DEF Touches, Upright
<1> HIDE DEF s
<1>5. Seen(i, x) <=> overSprite(s, backgroundColors, x)
  BY <1>4 DEF Seen, s
<1>6. overSprite(s, backgroundColors, x)
        <=> spriteValue(s, x) # 0 /\ (PRIORITY \in s.flags => backgroundColors[x] = 0)
  BY <1>1, <1>4 DEF overSprite
<1> QED
  BY <1>2, <1>3, <1>5, <1>6 DEF SeenColor, s

\* Where sprites are, the last visible one shows.
LEMMA SomeSprite ==
  ASSUME PixelTypes, drawCurrentLine, NEW x \in Row
  PROVE  CoveredBySprites(x)
<1> DEFINE touching == {i \in DOMAIN OAMLineBuffer : Touches(OAMLineBuffer[i], x)}
           visible == {i \in touching :
                         /\ SpriteColor(OAMLineBuffer[i], x) # 0
                         /\ \/ PRIORITY \notin OAMLineBuffer[i].flags
                            \/ BehindSprites(x) = 0}
           Goal == \/ visible = {} /\ screenLine'[x] = Shown(x)
                   \/ \E top \in visible :
                        /\ \A i \in visible : i <= top
                        /\ screenLine'[x] = applyPalette(Palette(OAMLineBuffer[top]),
                                              SpriteColor(OAMLineBuffer[top], x))
<1> SUFFICES ASSUME touching # {}, \A i \in touching : Upright(OAMLineBuffer[i], x)
             PROVE  Goal
  BY DEF CoveredBySprites
<1>1. DOMAIN OAMLineBuffer = 1 .. Len(OAMLineBuffer)
  BY DEF PixelTypes
<1>2. LCDC("SPRITE_ENABLE")
  BY DEF Touches
<1>3. LastSeen(Len(OAMLineBuffer), x, screenLine'[x])
  BY <1>2, DrawnLine, LastWins
<1>4. \A i \in 1 .. Len(OAMLineBuffer) : i \in visible <=> Seen(i, x)
  BY <1>1, <1>2, SeenTouches, UprightSeen
<1>5. visible \subseteq 1 .. Len(OAMLineBuffer)
  BY <1>1
<1>6. CASE \A i \in 1 .. Len(OAMLineBuffer) : ~Seen(i, x)
  <2>1. screenLine'[x] = Shown(x)
    BY <1>3, <1>6, Flushed DEF LastSeen
  <2>2. visible = {}
    BY <1>4, <1>5, <1>6
  <2> QED
    BY <2>1, <2>2
<1>7. ASSUME NEW top \in 1 .. Len(OAMLineBuffer),
             Seen(top, x), screenLine'[x] = SeenColor(top, x),
             \A i \in 1 .. Len(OAMLineBuffer) : Seen(i, x) => i <= top
      PROVE  \E last \in visible :
              /\ \A i \in visible : i <= last
              /\ screenLine'[x] = applyPalette(Palette(OAMLineBuffer[last]),
                                               SpriteColor(OAMLineBuffer[last], x))
  <2>1. top \in visible /\ \A i \in visible : i <= top
    BY <1>4, <1>5, <1>7
  <2>2. Touches(OAMLineBuffer[top], x) /\ Upright(OAMLineBuffer[top], x)
    BY <2>1
  <2>3. SeenColor(top, x)
          = applyPalette(Palette(OAMLineBuffer[top]),
                             SpriteColor(OAMLineBuffer[top], x))
    BY <1>2, <2>2, UprightSeen
  <2> QED
    BY <1>7, <2>1, <2>3
<1> QED
  BY <1>3, <1>6, <1>7 DEF LastSeen

\* Where sprites are, drawCurrentLine shows the last visible one in the
\* buffer.
THEOREM SpritesShown == PixelsSpec => SpritesCover
<1>1. PixelTypes /\ [PixelsNext]_pixelsVars
        => [drawCurrentLine => \A x \in Row : CoveredBySprites(x)]_pixelsVars
  BY SomeSprite
<1> QED
  BY <1>1, PixelInvariant, PTL DEF PixelsSpec, SpritesCover
=============================================================================
