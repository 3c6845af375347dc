------------------------------ MODULE MCUnits ------------------------------
(***************************************************************************)
(* Instances for TLC of two units that share no state: the timer unit, and *)
(* the drawing of lines.  In a behavior one of them runs, from each of its *)
(* initial states, and the other one rests.                                *)
(*                                                                         *)
(* The timer's rates are roughly in the proportions 64:1:4:16 of the code, *)
(* shortened.  The screen has tiles of 2 by 2 pixels, maps of 3 by 3 tiles *)
(* and is narrower than a map; the registers are at their edges.           *)
(***************************************************************************)
EXTENDS TimerProperties, PixelProperties, TLC

MCRates == (0 :> 8) @@ (1 :> 1) @@ (2 :> 2) @@ (3 :> 4)

\* Each tile data mode, map, plane and sprite size is in one of these.
LcdcWrites ==
  LET both == {"BG_WINDOW_ENABLE", "WINDOW_DISPLAY_ENABLE", "SPRITE_ENABLE"}
  IN  {both,
       both \cup {"TILE_DATA_SELECT_MODE", "WINDOW_TILE_MAP_SELECT"},
       both \cup {"BG_TILE_MAP_SELECT", "SPRITE_SIZE"},
       {"BG_WINDOW_ENABLE", "TILE_DATA_SELECT_MODE"},
       {"SPRITE_ENABLE", "SPRITE_SIZE", "WINDOW_DISPLAY_ENABLE"}}

MCRegisterWrites ==
  [LCDC |-> LcdcWrites, SCX |-> {0, 3}, SCY |-> {0, 5}, WX |-> {0, 3, 9}, WY |-> {0, 1},
   BGP |-> {141}, OBP0 |-> {120}, OBP1 |-> {156}]

\* Six lines of three tiles, and two maps of them.
Lines(a, b, c, d, e, f) ==
  LET word(n) == {bit \in {0, 1} : (n \div 2^bit) % 2 = 1}
      line(n) == [lsb |-> word(n % 4), msb |-> word(n \div 4)]
  IN  [n \in TileLine |-> line(<<a, b, c, d, e, f>>[n + 1])]
MCVramWrites ==
  {[tilemap |-> [m \in BOOLEAN |-> [n \in 0 .. 8 |-> IF m THEN (n \div 2) % 2 ELSE n % 2]],
    tiledata |-> Lines(6, 8, 1, 11, 4, 13)],
   [tilemap |-> [m \in BOOLEAN |-> [n \in 0 .. 8 |-> IF m THEN 1 ELSE (n \div 3) % 2]],
    tiledata |-> Lines(12, 3, 9, 0, 7, 2)]}

Entry(y, x, number, flagBits) ==
  [yPos |-> y, xPos |-> x, tileNumber |-> number, flags |-> flagBits]
MCOamWrites ==
  {<<Entry(4, 3, 1, {}), Entry(4, 4, 0, {FLIP_X, PALETTE}), Entry(5, 3, 1, {PRIORITY})>>,
   <<Entry(5, 2, 0, {PRIORITY}), Entry(4, 5, 1, {FLIP_Y}), Entry(5, 1, 1, {PALETTE})>>}

-----------------------------------------------------------------------------
VARIABLE running

TimerRests == REG_DIV = 0
PixelsRest ==
  /\ regs = [r \in DOMAIN RegisterWrites |-> CHOOSE written \in RegisterWrites[r] : TRUE]
  /\ VRAM = (CHOOSE written \in VramWrites : TRUE)
  /\ OAM = (CHOOSE written \in OamWrites : TRUE)

MCInit ==
  /\ HInit /\ PixelsInit
  /\ \/ running = "timer" /\ PixelsRest
     \/ running = "pixels" /\ TimerRests

TimerClock == running = "timer" /\ HClock /\ UNCHANGED <<pixelsVars, running>>

MCNext ==
  \/ TimerClock
  \/ running = "timer" /\ HAccess /\ UNCHANGED <<pixelsVars, running>>
  \/ running = "pixels" /\ PixelsNext /\ UNCHANGED <<hvars, running>>

mcVars == <<hvars, pixelsVars, running>>
MCSpec == MCInit /\ [][MCNext]_mcVars /\ WF_mcVars(TimerClock)
=============================================================================
