--------------------------- MODULE PPUProperties ---------------------------
(***************************************************************************)
(* Correctness of the PPU.  Three history variables are added to its       *)
(* specification; they only observe.                                       *)
(***************************************************************************)
EXTENDS PPU

VARIABLES
  statRises,      \* times the clock raised the STAT request bit in this line
  scanDisturbed,  \* OAM or the sprite size was written since the line began
  awaited         \* clocks the program has waited for STAT, with LYC its only
                  \* source and the line to match left alone; otherwise 0

hvars == <<vars, statRises, scanDisturbed, awaited>>

Rises == INTERRUPT_STAT \notin REG_IF /\ INTERRUPT_STAT \in REG_IF'

AwaitsLine ==
  statEnable = {"LYC"} /\ LYC \in 0 .. TotalLines - 1 /\ INTERRUPT_STAT \notin REG_IF

HInit == Init /\ statRises = 0 /\ scanDisturbed = FALSE /\ awaited = 0

HClock ==
  /\ machineClock
  /\ statRises' = (IF LY' # LY THEN 0 ELSE statRises) + (IF Rises THEN 1 ELSE 0)
  /\ scanDisturbed' = (LY' = LY /\ scanDisturbed)
  /\ awaited' = IF AwaitsLine /\ AwaitsLine' THEN awaited + 1 ELSE 0

HAccess ==
  /\ CpuAccess
  /\ scanDisturbed' = (scanDisturbed \/ OAM' # OAM \/ spriteSize' # spriteSize)
  /\ awaited' = IF AwaitsLine /\ AwaitsLine' /\ LYC' = LYC THEN awaited ELSE 0
  /\ UNCHANGED statRises

HNext == HClock \/ HAccess
HSpec == HInit /\ [][HNext]_hvars /\ WF_hvars(HClock)

-----------------------------------------------------------------------------
\* The beam seen through the registers: LY and the line counter are its
\* position, bit 0 of IF the V-Blank request.
Beam == INSTANCE Raster WITH
  line <- LY, column <- currentLineClockCounter, frame <- frameCount,
  painted <- screenBuffer, vblankRequested <- INTERRUPT_VBLANK \in REG_IF

\* The mode in STAT is the one the beam's position dictates, whatever the CPU
\* writes and whenever: every timing assertion of machineClock, setPPUMode and
\* lineEndLogic holds.
ModeFollowsBeam == mode = Beam!ModeAt(LY, currentLineClockCounter)

\* The PPU implements the raster: line by line, one painting per visible row
\* and frame, one V-Blank request per frame, and the beam never stops.
ImplementsRaster == Beam!Spec

\* When V-Blank begins, and until the next frame, every row on the screen
\* belongs to the frame that has just been swept: no row was skipped.
FrameWholeInVBlank ==
  mode = "V_BLANK" => \A row \in DOMAIN screenBuffer : screenBuffer[row] = frameCount

-----------------------------------------------------------------------------
\* Every sprite kept for the line has a row on it when it is drawn (the
\* assertion in computeAndFlushSpritesToScreenBuffer), even if the CPU moves
\* sprites or changes their height between the scan and the drawing; and no
\* sprite outlives its line.
SpriteRow(s) == LY - (s.yPos - MAX_SPRITE_HEIGHT)
SpriteRowsInRange ==
  /\ Len(OAMLineBuffer) <= MAX_SPRITES_PER_LINE
  /\ \A i \in DOMAIN OAMLineBuffer : SpriteRow(OAMLineBuffer[i]) \in 0 .. MAX_SPRITE_HEIGHT - 1
  /\ (mode = "V_BLANK" \/ currentLineClockCounter > OamEnd) => OAMLineBuffer = << >>

\* Of the first n sprites of OAM, pick numbers those that are on the line, in
\* OAM order; it leaves out only those that come after the limit is reached.
PicksFirst(pick, n) ==
  /\ \A i, j \in DOMAIN pick : i < j => pick[i] < pick[j]
  /\ \A i \in DOMAIN pick : OnCurrentLine(OAM[pick[i]])
  /\ \A m \in 0 .. n - 1 : OnCurrentLine(OAM[m]) =>
       \/ \E i \in DOMAIN pick : pick[i] = m
       \/ MAX_SPRITES_PER_LINE \in DOMAIN pick /\ pick[MAX_SPRITES_PER_LINE] < m
       \/ MAX_SPRITES_PER_LINE = 0

HoldsFirst(buffer, n) ==
  \E pick \in [DOMAIN buffer -> 0 .. n - 1] :
    PicksFirst(pick, n) /\ \A i \in DOMAIN buffer : buffer[i] = OAM[pick[i]]

\* Left alone, the two-sprites-per-clock scan selects the first
\* MAX_SPRITES_PER_LINE sprites of OAM, in OAM order, that are on the line.
ScanSelectsFirstSprites ==
  (~scanDisturbed /\ currentLineClockCounter <= OamEnd /\ mode # "V_BLANK") =>
    /\ Len(OAMLineBuffer) <= MAX_SPRITES_PER_LINE
    /\ HoldsFirst(OAMLineBuffer, 2 * currentLineClockCounter)

-----------------------------------------------------------------------------
\* tryRequestSTATInterrupt: "At most one stat interrupt per line"
\* (ppu.cpp:247), and of its filter "Only one STAT interrupt can be fired for
\* each line" (ppu.hpp:78).
OneStatRequestPerLine == statRises <= 1

\* The filter keeps that promise on a line that matches LYC with the interrupt
\* enabled, where the comparison shuts it for the line, and in V-Blank, where
\* no mode is entered after the first clock: there is one request, however
\* many sources are enabled and however often the program takes it.
FilteredLinesRequestOnce == (lycFlag \/ mode = "V_BLANK") => OneStatRequestPerLine

\* A program that leaves LYC the only source gets the interrupt within a frame
\* and a line, whatever it did to the filter before: a filter left shut can
\* swallow the first match, and only that one.
LineInterruptInTime == awaited < (TotalLines + 1) * LineEnd
=============================================================================
