----------------------------- MODULE PPUProofs -----------------------------
EXTENDS PPUProperties, TLAPS

\* The type invariant is not inductive: that the counter stays within the
\* line needs the mode to follow the beam.
BeamInv == TypeOK /\ ModeFollowsBeam

LEMMA InitBeamInv == Init => BeamInv
<1> SUFFICES ASSUME Init PROVE BeamInv
  OBVIOUS
<1> USE TimingAssumption DEF Init
<1>1. mode \in PPU_MODE /\ statEnable \in SUBSET StatSource /\ REG_IF \in SUBSET INTERRUPT_ID
  BY DEF PPU_MODE
<1>2. /\ LY \in 0 .. TotalLines - 1 /\ LYC \in Nat
      /\ currentLineClockCounter \in 0 .. LineEnd - 1
      /\ frameCount \in 0 .. FrameWrap - 1
  OBVIOUS
<1>3. OAM \in [SpriteNumber -> Sprite]
  BY DEF Sprite
<1>4. OAMLineBuffer \in Seq(Sprite)
  OBVIOUS
<1>5. screenBuffer \in [0 .. VisibleLines - 1 -> 0 .. FrameWrap]
  OBVIOUS
<1>6. ModeFollowsBeam
  BY DEF ModeFollowsBeam, Beam!ModeAt
<1> QED
  BY <1>1, <1>2, <1>3, <1>4, <1>5, <1>6 DEF BeamInv, TypeOK

\* The CPU's writes touch neither the beam nor what was drawn.
LEMMA AccessKeepsBeam ==
  ASSUME TypeOK, CpuAccess
  PROVE  TypeOK' /\ UNCHANGED <<beamVars, statVars, OAMLineBuffer>>
<1> USE WritesAssumption, SpriteAssumption DEF TypeOK, beamVars, statVars, cpuRegs
<1>1. CASE \E enable \in StatWrites : WriteSTAT(enable)
  BY <1>1 DEF WriteSTAT
<1>2. CASE \E value \in LycWrites : WriteLYC(value)
  BY <1>2 DEF WriteLYC
<1>3. CASE \E entry \in SpriteWrites : WriteOAM(entry[1], entry[2])
  BY <1>3 DEF WriteOAM
<1>4. CASE \E double \in SizeWrites : WriteSpriteSize(double)
  BY <1>4 DEF WriteSpriteSize
<1>5. CASE \E flags \in SUBSET {INTERRUPT_VBLANK, INTERRUPT_STAT} : WriteIF(flags)
  <2>1. {INTERRUPT_VBLANK, INTERRUPT_STAT} \subseteq INTERRUPT_ID
    BY DEF INTERRUPT_VBLANK, INTERRUPT_STAT, INTERRUPT_ID, INTERRUPT_JOYPAD
  <2> QED
    BY <1>5, <2>1 DEF WriteIF
<1> QED
  BY <1>1, <1>2, <1>3, <1>4, <1>5 DEF CpuAccess

\* Scanning two sprites keeps the buffer a sequence of sprites.
LEMMA ScanType ==
  ASSUME TypeOK, NEW buffer \in Seq(Sprite), NEW n \in SpriteNumber
  PROVE  addSpriteToBufferIfNeeded(buffer, n) \in Seq(Sprite)
  BY DEF TypeOK, addSpriteToBufferIfNeeded

LEMMA ScannedNumbers ==
  ASSUME TypeOK, currentLineClockCounter < OamEnd
  PROVE  /\ 2 * currentLineClockCounter \in SpriteNumber
         /\ 2 * currentLineClockCounter + 1 \in SpriteNumber
  BY TimingAssumption DEF TypeOK, SpriteNumber

LEMMA BeamInvStep == BeamInv /\ [Next]_vars => BeamInv'
<1> SUFFICES ASSUME BeamInv, [Next]_vars PROVE BeamInv'
  OBVIOUS
<1> USE TimingAssumption DEF BeamInv
<1>1. CASE OamScanClock
  <2>1. currentLineClockCounter < OamEnd
    BY <1>1 DEF OamScanClock, TypeOK, ModeFollowsBeam, Beam!ModeAt
  <2>2. OAMLineBuffer' \in Seq(Sprite)
    BY <1>1, <2>1, ScanType, ScannedNumbers DEF OamScanClock, ScanTwoSprites, TypeOK
  <2>3. TypeOK'
    BY <1>1, <2>1, <2>2 DEF OamScanClock, CountClock, TypeOK, statVars, cpuRegs, PPU_MODE
  <2>4. ModeFollowsBeam'
    BY <1>1, <2>1 DEF OamScanClock, CountClock, TypeOK, ModeFollowsBeam, Beam!ModeAt
  <2> QED
    BY <2>3, <2>4
<1>2. CASE DrawCurrentLine
  <2>1. LY < VisibleLines
    BY <1>2 DEF DrawCurrentLine, flushLineToScreenBuffer, TypeOK, ModeFollowsBeam, Beam!ModeAt
  <2>2. TypeOK'
    BY <1>2, <2>1 DEF DrawCurrentLine, flushLineToScreenBuffer, CountClock, TypeOK, statVars, cpuRegs
  <2>3. ModeFollowsBeam'
    BY <1>2, <2>1 DEF DrawCurrentLine, flushLineToScreenBuffer, CountClock, TypeOK, ModeFollowsBeam, Beam!ModeAt
  <2> QED
    BY <2>2, <2>3
<1>3. CASE DrawingClock
  <2>1. currentLineClockCounter + 1 < DrawEnd
    BY <1>3 DEF DrawingClock, TypeOK, ModeFollowsBeam, Beam!ModeAt
  <2>2. TypeOK'
    BY <1>3, <2>1 DEF DrawingClock, CountClock, TypeOK, statVars, cpuRegs
  <2>3. ModeFollowsBeam'
    BY <1>3, <2>1 DEF DrawingClock, CountClock, TypeOK, ModeFollowsBeam, Beam!ModeAt
  <2> QED
    BY <2>2, <2>3
<1>4. CASE EnterHBlank
  <2>1. REG_IF' \in SUBSET INTERRUPT_ID
    BY <1>4 DEF EnterHBlank, TypeOK, requestInterrupts, StatIf, INTERRUPT_STAT,
       INTERRUPT_ID, INTERRUPT_VBLANK, INTERRUPT_JOYPAD
  <2>2. STATAlreadyRequestedThisLine' \in BOOLEAN
    BY <1>4 DEF EnterHBlank
  <2>3. TypeOK'
    BY <1>4, <2>1, <2>2 DEF EnterHBlank, CountClock, TypeOK, cpuRegs, PPU_MODE
  <2>4. ModeFollowsBeam'
    BY <1>4 DEF EnterHBlank, CountClock, TypeOK, ModeFollowsBeam, Beam!ModeAt
  <2> QED
    BY <2>3, <2>4
<1>5. CASE BlankClock
  <2>1. currentLineClockCounter + 1 < LineEnd
    BY <1>5 DEF BlankClock, TypeOK
  <2>2. TypeOK'
    BY <1>5, <2>1 DEF BlankClock, CountClock, TypeOK, statVars, cpuRegs
  <2>3. ModeFollowsBeam'
    BY <1>5, <2>1 DEF BlankClock, CountClock, TypeOK, ModeFollowsBeam, Beam!ModeAt
  <2> QED
    BY <2>2, <2>3
<1>6. CASE EndLine
  <2> USE <1>6 DEF EndLine, lineEndLogic, LineAfter, FrameAfter, LineAfter, FrameAfter, FilterAfter
  <2>1. mode = IF LY >= VisibleLines THEN "V_BLANK" ELSE "H_BLANK"
    BY DEF TypeOK, ModeFollowsBeam, Beam!ModeAt
  <2>2. mode' = IF LY' >= VisibleLines THEN "V_BLANK" ELSE "OAM_SCAN"
    BY <2>1 DEF TypeOK, ModeAfter
  <2>3. REG_IF' \in SUBSET INTERRUPT_ID
    BY DEF TypeOK, requestInterrupts, StatIf, INTERRUPT_STAT,
       INTERRUPT_ID, INTERRUPT_VBLANK, INTERRUPT_JOYPAD
  <2>4. frameCount' \in 0 .. FrameWrap - 1
    BY DEF TypeOK
  <2>5. lycFlag' \in BOOLEAN /\ STATAlreadyRequestedThisLine' \in BOOLEAN
    OBVIOUS
  <2>6. LY' \in 0 .. TotalLines - 1 /\ currentLineClockCounter' = 0
    BY DEF TypeOK
  <2>7. TypeOK'
    BY <2>2, <2>3, <2>4, <2>5, <2>6 DEF TypeOK, cpuRegs, PPU_MODE
  <2>8. ModeFollowsBeam'
    BY <2>2, <2>6 DEF ModeFollowsBeam, Beam!ModeAt
  <2> QED
    BY <2>7, <2>8
<1>7. CASE CpuAccess
  BY <1>7, AccessKeepsBeam DEF ModeFollowsBeam, beamVars
<1>8. CASE UNCHANGED vars
  BY <1>8 DEF vars, beamVars, statVars, cpuRegs, TypeOK, ModeFollowsBeam
<1> QED
  BY <1>1, <1>2, <1>3, <1>4, <1>5, <1>6, <1>7, <1>8 DEF Next, machineClock

\* The registers of the PPU keep their types: the line counter never leaves
\* the line, LY never leaves the frame.
THEOREM TypeCorrect == Spec => []TypeOK
<1>1. BeamInv => TypeOK
  BY DEF BeamInv
<1> QED
  BY <1>1, InitBeamInv, BeamInvStep, PTL DEF Spec

\* The mode in STAT is a function of the beam's position, so no timing
\* assertion of ppu.cpp can fail, for frames and lines of any size.
THEOREM ModeIsBeamMode == Spec => []ModeFollowsBeam
<1>1. BeamInv => ModeFollowsBeam
  BY DEF BeamInv
<1> QED
  BY <1>1, InitBeamInv, BeamInvStep, PTL DEF Spec

-----------------------------------------------------------------------------
\* Every row the beam has passed in this frame was painted in this frame.
PaintedBehindBeam ==
  \A row \in 0 .. VisibleLines - 1 :
    (row < LY \/ (row = LY /\ currentLineClockCounter > OamEnd))
      => screenBuffer[row] = frameCount

PaintInv == BeamInv /\ PaintedBehindBeam

LEMMA PaintInvStep == PaintInv /\ [Next]_vars => PaintInv'
<1> SUFFICES ASSUME PaintInv, [Next]_vars PROVE PaintedBehindBeam'
  BY BeamInvStep DEF PaintInv
<1> USE TimingAssumption DEF PaintInv
<1> BeamInv'
  BY BeamInvStep
<1> USE DEF BeamInv, PaintedBehindBeam
<1>1. CASE OamScanClock
  BY <1>1 DEF OamScanClock, CountClock, TypeOK, ModeFollowsBeam, Beam!ModeAt
<1>2. CASE DrawCurrentLine
  BY <1>2 DEF DrawCurrentLine, flushLineToScreenBuffer, CountClock, TypeOK, ModeFollowsBeam, Beam!ModeAt
<1>3. CASE DrawingClock
  BY <1>3 DEF DrawingClock, CountClock, TypeOK, ModeFollowsBeam, Beam!ModeAt
<1>4. CASE EnterHBlank
  BY <1>4 DEF EnterHBlank, CountClock, TypeOK
<1>5. CASE BlankClock
  BY <1>5 DEF BlankClock, CountClock, TypeOK, ModeFollowsBeam, Beam!ModeAt
<1>6. CASE EndLine
  BY <1>6 DEF EndLine, lineEndLogic, LineAfter, FrameAfter, TypeOK
<1>7. CASE CpuAccess
  BY <1>7, AccessKeepsBeam DEF beamVars
<1>8. CASE UNCHANGED vars
  BY <1>8 DEF vars, beamVars
<1> QED
  BY <1>1, <1>2, <1>3, <1>4, <1>5, <1>6, <1>7, <1>8 DEF Next, machineClock

\* No row is skipped: throughout V-Blank the whole screen shows the frame
\* that has just been swept.
THEOREM FrameComplete == Spec => []FrameWholeInVBlank
<1>1. Init => PaintInv
  BY InitBeamInv, TimingAssumption DEF Init, PaintInv, PaintedBehindBeam
<1>2. PaintInv => FrameWholeInVBlank
  BY TimingAssumption DEF PaintInv, PaintedBehindBeam, BeamInv, TypeOK, ModeFollowsBeam,
     Beam!ModeAt, FrameWholeInVBlank
<1> QED
  BY <1>1, <1>2, PaintInvStep, PTL DEF Spec

-----------------------------------------------------------------------------
\* The PPU refines the raster (safety): every step of the one is a step of
\* the other, or moves nothing the raster has.
THEOREM RefinesRaster == Spec => Beam!Init /\ [][Beam!Next]_(Beam!vars)
<1> USE TimingAssumption
<1>1. Init => Beam!Init
  BY DEF Init, Beam!Init, Beam!ModeAt
<1>2. BeamInv /\ BeamInv' /\ [Next]_vars => [Beam!Next]_(Beam!vars)
  <2> SUFFICES ASSUME BeamInv, BeamInv', [Next]_vars PROVE [Beam!Next]_(Beam!vars)
    OBVIOUS
  <2>a. /\ mode = Beam!ModeAt(LY, currentLineClockCounter)
        /\ mode' = Beam!ModeAt(LY', currentLineClockCounter')
    BY DEF BeamInv, ModeFollowsBeam
  <2>b. LY \in Nat /\ currentLineClockCounter \in Nat /\ currentLineClockCounter < LineEnd
    BY DEF BeamInv, TypeOK
  <2>1. CASE OamScanClock \/ DrawingClock \/ BlankClock \/ EnterHBlank \/ DrawCurrentLine
    <3>1. /\ currentLineClockCounter' = currentLineClockCounter + 1
          /\ LY' = LY /\ frameCount' = frameCount
      BY <2>1 DEF OamScanClock, DrawingClock, BlankClock, EnterHBlank, DrawCurrentLine, CountClock
    <3>2. currentLineClockCounter + 1 < LineEnd
      BY <3>1 DEF BeamInv, TypeOK
    <3>3. screenBuffer' = IF LY < VisibleLines /\ currentLineClockCounter = OamEnd
                          THEN [screenBuffer EXCEPT ![LY] = frameCount]
                          ELSE screenBuffer
      BY <2>a, <2>b, <2>1 DEF OamScanClock, DrawingClock, BlankClock, EnterHBlank, DrawCurrentLine,
         flushLineToScreenBuffer, Beam!ModeAt
    <3>4. (INTERRUPT_VBLANK \in REG_IF)' = (INTERRUPT_VBLANK \in REG_IF)
      BY <2>1 DEF OamScanClock, DrawingClock, BlankClock, EnterHBlank, DrawCurrentLine,
         requestInterrupts, StatIf, INTERRUPT_VBLANK, INTERRUPT_STAT
    <3>5. Beam!Sweep
      BY <2>a, <3>1, <3>2, <3>3, <3>4 DEF Beam!Sweep
    <3> QED
      BY <3>5 DEF Beam!Next
  <2>2. CASE EndLine
    <3> USE <2>2 DEF EndLine, lineEndLogic, LineAfter, FrameAfter, LineAfter, FrameAfter, FilterAfter
    <3>1. currentLineClockCounter + 1 = LineEnd /\ currentLineClockCounter' = 0
      OBVIOUS
    <3>2. LY' = IF LY + 1 = TotalLines THEN 0 ELSE LY + 1
      BY <2>b
    <3>3. frameCount' = IF LY' = 0 THEN Beam!NextFrame(frameCount) ELSE frameCount
      BY <2>b, <3>2 DEF Beam!NextFrame
    <3>4. (mode' = "V_BLANK" /\ mode # "V_BLANK") <=> LY' = VisibleLines
      BY <2>a, <2>b, <3>2 DEF Beam!ModeAt
    <3>5. (INTERRUPT_VBLANK \in REG_IF)' = (INTERRUPT_VBLANK \in REG_IF \/ LY' = VisibleLines)
      BY <3>4 DEF requestInterrupts, StatIf, INTERRUPT_VBLANK, INTERRUPT_STAT
    <3>6. Beam!Retrace
      BY <2>a, <3>1, <3>2, <3>3, <3>5 DEF Beam!Retrace
    <3> QED
      BY <3>6 DEF Beam!Next
  <2>3. CASE CpuAccess
    <3>1. UNCHANGED beamVars
      BY <2>3, AccessKeepsBeam DEF BeamInv
    <3> QED
      BY <3>1 DEF beamVars, Beam!Next, Beam!Program
  <2>4. CASE UNCHANGED vars
    BY <2>4 DEF vars, beamVars, Beam!vars
  <2> QED
    BY <2>1, <2>2, <2>3, <2>4 DEF Next, machineClock
<1> QED
  BY <1>1, <1>2, InitBeamInv, BeamInvStep, PTL DEF Spec

-----------------------------------------------------------------------------
SpriteInv == BeamInv /\ SpriteRowsInRange

\* Adding a sprite keeps the buffer within its limit and on the line.
LEMMA ScanKeepsRows ==
  ASSUME TypeOK, NEW buffer \in Seq(Sprite), NEW n \in SpriteNumber,
         Len(buffer) <= MAX_SPRITES_PER_LINE,
         \A i \in DOMAIN buffer : SpriteRow(buffer[i]) \in 0 .. MAX_SPRITE_HEIGHT - 1
  PROVE  LET new == addSpriteToBufferIfNeeded(buffer, n)
         IN  /\ Len(new) <= MAX_SPRITES_PER_LINE
             /\ \A i \in DOMAIN new : SpriteRow(new[i]) \in 0 .. MAX_SPRITE_HEIGHT - 1
<1> DEFINE new == addSpriteToBufferIfNeeded(buffer, n)
<1>1. CASE Len(buffer) # MAX_SPRITES_PER_LINE /\ OnCurrentLine(OAM[n])
  <2>1. OAM[n] \in Sprite
    BY DEF TypeOK
  <2>2. SpriteRow(OAM[n]) \in 0 .. MAX_SPRITE_HEIGHT - 1
    BY <1>1, <2>1, SpriteAssumption
       DEF OnCurrentLine, getSpriteHeight, SpriteRow, TypeOK, Sprite
  <2>3. new = Append(buffer, OAM[n])
    BY <1>1 DEF addSpriteToBufferIfNeeded
  <2> QED
    BY <1>1, <2>1, <2>2, <2>3, SpriteAssumption
<1>2. CASE ~(Len(buffer) # MAX_SPRITES_PER_LINE /\ OnCurrentLine(OAM[n]))
  BY <1>2 DEF addSpriteToBufferIfNeeded
<1> QED
  BY <1>1, <1>2

LEMMA SpriteInvStep == SpriteInv /\ [Next]_vars => SpriteInv'
<1> SUFFICES ASSUME SpriteInv, [Next]_vars PROVE SpriteRowsInRange'
  BY BeamInvStep DEF SpriteInv
<1> USE TimingAssumption, SpriteAssumption DEF SpriteInv
<1>1. CASE OamScanClock
  <2> DEFINE n == 2 * currentLineClockCounter
             one == addSpriteToBufferIfNeeded(OAMLineBuffer, n)
             two == addSpriteToBufferIfNeeded(one, n + 1)
  <2>1. currentLineClockCounter < OamEnd
    BY <1>1 DEF OamScanClock, BeamInv, TypeOK, ModeFollowsBeam, Beam!ModeAt
  <2>2. n \in SpriteNumber /\ n + 1 \in SpriteNumber
    BY <2>1, ScannedNumbers DEF BeamInv
  <2>3. one \in Seq(Sprite)
    BY <2>2, ScanType DEF BeamInv, TypeOK
  <2>4. /\ Len(one) <= MAX_SPRITES_PER_LINE
        /\ \A i \in DOMAIN one : SpriteRow(one[i]) \in 0 .. MAX_SPRITE_HEIGHT - 1
    BY <2>2, ScanKeepsRows DEF SpriteRowsInRange, BeamInv, TypeOK
  <2>5. /\ Len(two) <= MAX_SPRITES_PER_LINE
        /\ \A i \in DOMAIN two : SpriteRow(two[i]) \in 0 .. MAX_SPRITE_HEIGHT - 1
    BY <2>2, <2>3, <2>4, ScanKeepsRows DEF BeamInv
  <2>6. OAMLineBuffer' = two
    BY <1>1 DEF OamScanClock, ScanTwoSprites
  <2>7. currentLineClockCounter' <= OamEnd /\ LY' = LY
    BY <1>1, <2>1 DEF OamScanClock, CountClock, BeamInv, TypeOK
  <2>8. mode # "V_BLANK" /\ mode' # "V_BLANK" /\ ~(currentLineClockCounter' > OamEnd)
    BY <1>1, <2>1 DEF OamScanClock, CountClock, BeamInv, TypeOK
  <2> HIDE DEF two
  <2> QED
    BY <2>5, <2>6, <2>7, <2>8 DEF SpriteRowsInRange, SpriteRow
<1>2. CASE DrawCurrentLine
  BY <1>2 DEF DrawCurrentLine, flushLineToScreenBuffer, SpriteRowsInRange
<1>3. CASE DrawingClock \/ EnterHBlank \/ BlankClock
  <2>1. mode = "V_BLANK" \/ currentLineClockCounter > OamEnd
    BY <1>3 DEF DrawingClock, EnterHBlank, BlankClock, BeamInv, TypeOK, ModeFollowsBeam, Beam!ModeAt
  <2>2. OAMLineBuffer = << >> /\ OAMLineBuffer' = OAMLineBuffer
    BY <1>3, <2>1 DEF DrawingClock, EnterHBlank, BlankClock, SpriteRowsInRange
  <2> QED
    BY <2>2 DEF SpriteRowsInRange
<1>4. CASE EndLine
  <2>1. currentLineClockCounter > OamEnd
    BY <1>4 DEF EndLine, BeamInv, TypeOK
  <2> QED
    BY <1>4, <2>1 DEF EndLine, SpriteRowsInRange
<1>5. CASE CpuAccess
  BY <1>5, AccessKeepsBeam DEF beamVars, SpriteRowsInRange, SpriteRow, BeamInv
<1>6. CASE UNCHANGED vars
  BY <1>6 DEF vars, beamVars, SpriteRowsInRange, SpriteRow
<1> QED
  BY <1>1, <1>2, <1>3, <1>4, <1>5, <1>6 DEF Next, machineClock

\* Only sprites with a row on the line are ever drawn, however the CPU
\* rewrites OAM and the sprite size around the scan.
THEOREM SpritesOnLine == Spec => []SpriteRowsInRange
<1>1. Init => SpriteInv
  <2> SUFFICES ASSUME Init PROVE SpriteRowsInRange
    BY InitBeamInv DEF SpriteInv
  <2> QED
    BY SpriteAssumption DEF Init, SpriteRowsInRange
<1>2. SpriteInv => SpriteRowsInRange
  BY DEF SpriteInv
<1> QED
  BY <1>1, <1>2, SpriteInvStep, PTL DEF Spec

-----------------------------------------------------------------------------
\* How many requests the filter may have let through, by the place in the
\* line; and that an LYC match keeps it shut.
FilterInv ==
  /\ statRises \in Nat
  /\ statRises <= (IF mode = "H_BLANK" /\ ~lycFlag THEN 2 ELSE 1)
  /\ lycFlag => STATAlreadyRequestedThisLine

StatInv == BeamInv /\ FilterInv

LEMMA StatInvStep == StatInv /\ [HNext]_hvars => StatInv'
<1> SUFFICES ASSUME StatInv, [HNext]_hvars PROVE FilterInv' /\ [Next]_vars
  BY BeamInvStep DEF StatInv
<1> USE TimingAssumption DEF StatInv, FilterInv, Rises
<1>1. CASE HClock /\ (OamScanClock \/ DrawCurrentLine \/ DrawingClock \/ BlankClock)
  <2>1. UNCHANGED <<LY, REG_IF, statVars>> /\ Next
    BY <1>1 DEF OamScanClock, DrawCurrentLine, DrawingClock, BlankClock, Next, machineClock
  <2>2. statRises' = statRises
    BY <1>1, <2>1 DEF HClock
  <2>3. mode' = mode \/ (mode = "OAM_SCAN" /\ mode' = "DRAWING")
    BY <1>1 DEF OamScanClock, DrawCurrentLine, DrawingClock, BlankClock
  <2> QED
    BY <2>1, <2>2, <2>3 DEF statVars
<1>2. CASE HClock /\ EnterHBlank
  <2>1. mode = "DRAWING" /\ mode' = "H_BLANK" /\ LY' = LY /\ lycFlag' = lycFlag /\ Next
    BY <1>2 DEF EnterHBlank, Next, machineClock
  <2>2. STATAlreadyRequestedThisLine => STATAlreadyRequestedThisLine' /\ REG_IF' = REG_IF
    BY <1>2 DEF EnterHBlank, requestInterrupts, StatIf, tryRequestSTATInterrupt
  <2>3. statRises' = statRises + (IF Rises THEN 1 ELSE 0)
    BY <1>2, <2>1 DEF HClock
  <2> QED
    BY <2>1, <2>2, <2>3
<1>3. CASE HClock /\ EndLine
  <2>1. LY' # LY /\ Next
    BY <1>3 DEF EndLine, lineEndLogic, LineAfter, FrameAfter, BeamInv, TypeOK, Next, machineClock
  <2>2. statRises' = IF Rises THEN 1 ELSE 0
    BY <1>3, <2>1 DEF HClock
  <2>3. lycFlag' = STATAlreadyRequestedThisLine'
    BY <1>3 DEF EndLine, lineEndLogic, LineAfter, FrameAfter, LineAfter, FrameAfter, FilterAfter
  <2> QED
    BY <2>1, <2>2, <2>3
<1>4. CASE HAccess
  BY <1>4, AccessKeepsBeam DEF HAccess, BeamInv, beamVars, statVars, Next
<1>5. CASE UNCHANGED hvars
  BY <1>5 DEF hvars, vars, beamVars, statVars
<1> QED
  BY <1>1, <1>2, <1>3, <1>4, <1>5 DEF HNext, HClock, machineClock

\* However often the CPU takes the requests, a line raises at most one if it
\* matched LYC or lies in V-Blank: FilteredLinesRequestOnce.
THEOREM FilteredOnce == HSpec => []FilteredLinesRequestOnce
<1>1. HInit => StatInv
  BY InitBeamInv DEF HInit, Init, StatInv, FilterInv
<1>2. StatInv => FilteredLinesRequestOnce
  BY DEF StatInv, FilterInv, FilteredLinesRequestOnce, OneStatRequestPerLine
<1> QED
  BY <1>1, <1>2, StatInvStep, PTL DEF HSpec

-----------------------------------------------------------------------------
(* The scan, while the program leaves OAM alone.                           *)

\* PicksFirst, with the positions of the pick counted.
LEMMA PickCounted ==
  ASSUME NEW pick, NEW size, NEW n, DOMAIN pick = 1 .. size,
         \A i, j \in 1 .. size : i < j => pick[i] < pick[j],
         \A i \in 1 .. size : OnCurrentLine(OAM[pick[i]]),
         \A m \in 0 .. n - 1 : OnCurrentLine(OAM[m]) =>
            \/ \E i \in 1 .. size : pick[i] = m
            \/ MAX_SPRITES_PER_LINE \in 1 .. size /\ pick[MAX_SPRITES_PER_LINE] < m
            \/ MAX_SPRITES_PER_LINE = 0
  PROVE  PicksFirst(pick, n)
  BY Zenon DEF PicksFirst

\* One sprite more has been looked at.
LEMMA ScanOne ==
  ASSUME TypeOK, NEW buffer \in Seq(Sprite), NEW n \in SpriteNumber,
         Len(buffer) <= MAX_SPRITES_PER_LINE, HoldsFirst(buffer, n)
  PROVE  HoldsFirst(addSpriteToBufferIfNeeded(buffer, n), n + 1)
<1> USE SpriteAssumption
<1>1. n \in Nat /\ Len(buffer) \in Nat /\ DOMAIN buffer = 1 .. Len(buffer)
  BY TimingAssumption DEF SpriteNumber, TypeOK
<1> DEFINE size == Len(buffer)
<1>2. PICK pick \in [DOMAIN buffer -> 0 .. n - 1] :
        PicksFirst(pick, n) /\ \A i \in DOMAIN buffer : buffer[i] = OAM[pick[i]]
  BY DEF HoldsFirst
<1>3. DOMAIN pick = 1 .. size /\ \A i \in 1 .. size : pick[i] \in 0 .. n - 1
  BY <1>1, <1>2
<1>4. /\ \A i, j \in 1 .. size : i < j => pick[i] < pick[j]
      /\ \A i \in 1 .. size : OnCurrentLine(OAM[pick[i]])
  BY <1>2, <1>3 DEF PicksFirst
<1>5. \A m \in 0 .. n - 1 : OnCurrentLine(OAM[m]) =>
         \/ \E i \in 1 .. size : pick[i] = m
         \/ MAX_SPRITES_PER_LINE \in 1 .. size /\ pick[MAX_SPRITES_PER_LINE] < m
         \/ MAX_SPRITES_PER_LINE = 0
  <2>1. DOMAIN pick = 1 .. size
    BY <1>3
  <2> QED
    BY <1>2, <2>1 DEF PicksFirst
<1>6. size \in Nat /\ size <= MAX_SPRITES_PER_LINE
  BY <1>1
<1> HIDE DEF size
<1>7. CASE Len(buffer) # MAX_SPRITES_PER_LINE /\ OnCurrentLine(OAM[n])
  <2> DEFINE new == Append(buffer, OAM[n])
             last == size + 1
             more == [i \in 1 .. last |-> IF i = last THEN n ELSE pick[i]]
  <2>1. addSpriteToBufferIfNeeded(buffer, n) = new
    BY <1>7 DEF addSpriteToBufferIfNeeded
  <2>2. DOMAIN new = 1 .. last /\ \A i \in 1 .. last : new[i] = IF i = last THEN OAM[n] ELSE buffer[i]
    BY <1>1 DEF size
  <2>3. \A i \in 1 .. last : more[i] = IF i = last THEN n ELSE pick[i]
    OBVIOUS
  <2>4. DOMAIN more = 1 .. last
    OBVIOUS
  <2>5. \A i \in 1 .. last : i # last => i \in 1 .. size
    BY <1>6
  <2>6. more \in [1 .. last -> 0 .. (n + 1) - 1]
    <3>1. \A i \in 1 .. last : (IF i = last THEN n ELSE pick[i]) \in 0 .. (n + 1) - 1
      BY <1>1, <1>3, <2>5
    <3> QED
      BY <3>1
  <2>7. last \in 1 .. last /\ 1 .. size \subseteq 1 .. last /\ last \notin 1 .. size
    BY <1>6
  <2>8. \A i \in 1 .. last : new[i] = OAM[more[i]]
    <3>1. \A i \in 1 .. size : buffer[i] = OAM[pick[i]]
      BY <1>1, <1>2 DEF size
    <3> HIDE DEF new, more, last
    <3> QED
      BY <3>1, <2>2, <2>3, <2>5
  <2>9. PicksFirst(more, n + 1)
    <3> HIDE DEF more
    <3>1. \A i, j \in 1 .. last : i < j => more[i] < more[j]
      <4> SUFFICES ASSUME NEW i \in 1 .. last, NEW j \in 1 .. last, i < j
                   PROVE  more[i] < more[j]
        OBVIOUS
      <4>1. i \in 1 .. size /\ more[i] = pick[i] /\ pick[i] \in 0 .. n - 1
        BY <1>3, <1>6, <2>3
      <4>2. CASE j = last
        BY <1>1, <2>3, <4>1, <4>2
      <4>3. CASE j # last
        BY <1>4, <2>3, <2>5, <4>1, <4>3
      <4> QED
        BY <4>2, <4>3
    <3>2. \A i \in 1 .. last : OnCurrentLine(OAM[more[i]])
      BY <1>4, <1>7, <2>3, <2>5
    <3>3. ASSUME NEW m \in 0 .. (n + 1) - 1, OnCurrentLine(OAM[m])
          PROVE  \E i \in 1 .. last : more[i] = m
      <4>1. CASE m = n
        BY <2>3, <2>7, <4>1
      <4>2. CASE m # n
        <5>1. m \in 0 .. n - 1
          BY <1>1, <4>2
        <5>2. size < MAX_SPRITES_PER_LINE
          BY <1>6, <1>7 DEF size
        <5>3. PICK i \in 1 .. size : pick[i] = m
          BY <1>5, <1>6, <3>3, <5>1, <5>2
        <5>4. i \in 1 .. last /\ more[i] = m
          <6>1. i \in 1 .. last /\ i # last
            BY <2>7, <5>3
          <6> HIDE DEF last
          <6> QED
            BY <2>3, <5>3, <6>1
        <5> QED
          BY <5>4
      <4> QED
        BY <4>1, <4>2
    <3> HIDE DEF last
    <3> QED
      <4>1. \A m \in 0 .. (n + 1) - 1 : OnCurrentLine(OAM[m]) =>
              \/ \E i \in 1 .. last : more[i] = m
              \/ MAX_SPRITES_PER_LINE \in 1 .. last /\ more[MAX_SPRITES_PER_LINE] < m
              \/ MAX_SPRITES_PER_LINE = 0
        BY <3>3, Zenon
      <4> QED
        BY <2>4, <3>1, <3>2, <4>1, PickCounted, Zenon
  <2> HIDE DEF new, more, last
  <2> QED
    <3>1. DOMAIN new = 1 .. last
      BY <2>2
    <3>2. \E p \in [1 .. last -> 0 .. (n + 1) - 1] :
            PicksFirst(p, n + 1) /\ \A i \in 1 .. last : new[i] = OAM[p[i]]
      BY <2>6, <2>8, <2>9, Zenon
    <3>3. \E p \in [DOMAIN new -> 0 .. (n + 1) - 1] :
            PicksFirst(p, n + 1) /\ \A i \in DOMAIN new : new[i] = OAM[p[i]]
      BY <3>1, <3>2
    <3>4. HoldsFirst(new, n + 1)
      BY <3>3, Zenon DEF HoldsFirst
    <3> QED
      BY <2>1, <3>4, Zenon
<1>8. CASE ~(Len(buffer) # MAX_SPRITES_PER_LINE /\ OnCurrentLine(OAM[n]))
  <2>1. addSpriteToBufferIfNeeded(buffer, n) = buffer
    BY <1>8 DEF addSpriteToBufferIfNeeded
  <2>2. pick \in [DOMAIN buffer -> 0 .. (n + 1) - 1]
    <3>1. 0 .. n - 1 \subseteq 0 .. (n + 1) - 1
      BY <1>1
    <3> QED
      BY <1>2, <3>1
  <2>3. ASSUME NEW m \in 0 .. (n + 1) - 1, OnCurrentLine(OAM[m])
        PROVE  \/ \E i \in 1 .. size : pick[i] = m
               \/ MAX_SPRITES_PER_LINE \in 1 .. size /\ pick[MAX_SPRITES_PER_LINE] < m
               \/ MAX_SPRITES_PER_LINE = 0
    <3>1. CASE m \in 0 .. n - 1
      BY <1>5, <2>3, <3>1
    <3>2. CASE m = n
      <4>1. size = MAX_SPRITES_PER_LINE
        BY <1>8, <2>3, <3>2 DEF size
      <4>2. MAX_SPRITES_PER_LINE = 0 \/ MAX_SPRITES_PER_LINE \in 1 .. size
        BY <4>1
      <4>3. MAX_SPRITES_PER_LINE \in 1 .. size => pick[MAX_SPRITES_PER_LINE] < n
        BY <1>1, <1>3
      <4> QED
        BY <3>2, <4>2, <4>3
    <3> QED
      BY <1>1, <3>1, <3>2
  <2>4. PicksFirst(pick, n + 1)
    <3>1. DOMAIN pick = 1 .. size
      BY <1>3
    <3> QED
      BY <3>1, <1>4, <2>3, PickCounted, Zenon
  <2> QED
    <3>1. HoldsFirst(buffer, n + 1)
      BY <1>2, <2>2, <2>4, Zenon DEF HoldsFirst
    <3> QED
      BY <2>1, <3>1, Zenon
<1> QED
  BY <1>7, <1>8

\* What a buffer holds depends on OAM, the height of the sprites and the line.
LEMMA ScanKept ==
  ASSUME NEW n, NEW buffer, HoldsFirst(buffer, n), OAMLineBuffer' = buffer,
         UNCHANGED <<OAM, spriteSize, LY>>
  PROVE  HoldsFirst(OAMLineBuffer, n)'
  BY DEF HoldsFirst, PicksFirst, OnCurrentLine, getSpriteHeight

LEMMA NothingScanned == OAMLineBuffer = << >> => HoldsFirst(OAMLineBuffer, 0)
<1> SUFFICES ASSUME OAMLineBuffer = << >> PROVE HoldsFirst(OAMLineBuffer, 0)
  OBVIOUS
<1> DEFINE none == [i \in {} |-> 0]
<1>1. DOMAIN OAMLineBuffer = {} /\ none \in [{} -> 0 .. 0 - 1] /\ DOMAIN none = {}
  OBVIOUS
<1>2. PicksFirst(none, 0)
  BY <1>1 DEF PicksFirst
<1> QED
  BY <1>1, <1>2 DEF HoldsFirst

ScanInv == SpriteInv /\ ScanSelectsFirstSprites

LEMMA ScanInvStep == ScanInv /\ [HNext]_hvars => ScanInv'
<1> SUFFICES ASSUME ScanInv, [HNext]_hvars PROVE SpriteInv' /\ ScanSelectsFirstSprites'
  BY DEF ScanInv
<1> USE TimingAssumption, SpriteAssumption
<1>1. SpriteInv /\ BeamInv /\ TypeOK /\ ScanSelectsFirstSprites
  BY DEF ScanInv, SpriteInv, BeamInv
<1>2. SpriteInv' /\ BeamInv' /\ TypeOK'
  <2>1. [Next]_vars
    BY DEF HNext, HClock, HAccess, Next, hvars
  <2> QED
    BY <1>1, <2>1, SpriteInvStep DEF SpriteInv, BeamInv
<1>3. Len(OAMLineBuffer') <= MAX_SPRITES_PER_LINE
  BY <1>2 DEF SpriteInv, SpriteRowsInRange
<1>4. CASE HClock /\ OamScanClock
  <2> SUFFICES ASSUME ~scanDisturbed'
               PROVE  HoldsFirst(OAMLineBuffer, 2 * currentLineClockCounter)'
    BY <1>2, <1>3 DEF ScanSelectsFirstSprites
  <2> DEFINE n == 2 * currentLineClockCounter
             one == addSpriteToBufferIfNeeded(OAMLineBuffer, n)
             two == addSpriteToBufferIfNeeded(one, n + 1)
  <2>1. currentLineClockCounter \in Nat /\ currentLineClockCounter < OamEnd /\ mode = "OAM_SCAN"
    BY <1>1, <1>4 DEF OamScanClock, BeamInv, TypeOK, ModeFollowsBeam, Beam!ModeAt
  <2>2. LY' = LY /\ OAM' = OAM /\ spriteSize' = spriteSize /\ ~scanDisturbed
    BY <1>4 DEF HClock, OamScanClock, cpuRegs
  <2>3. Len(OAMLineBuffer) <= MAX_SPRITES_PER_LINE /\ HoldsFirst(OAMLineBuffer, n)
    BY <1>1, <2>1, <2>2 DEF ScanSelectsFirstSprites
  <2>4. n \in SpriteNumber /\ n + 1 \in SpriteNumber
    BY <1>1, <2>1, ScannedNumbers
  <2>5. OAMLineBuffer \in Seq(Sprite) /\ one \in Seq(Sprite)
    BY <1>1, <2>4, ScanType DEF TypeOK
  <2>6. HoldsFirst(one, n + 1)
    BY <1>1, <2>3, <2>4, <2>5, ScanOne
  <2>7. Len(one) <= MAX_SPRITES_PER_LINE
    BY <1>1, <2>3, <2>4, <2>5, ScanKeepsRows DEF SpriteInv, SpriteRowsInRange
  <2>8. HoldsFirst(two, (n + 1) + 1)
    <3> HIDE DEF one
    <3> QED
      BY <1>1, <2>4, <2>5, <2>6, <2>7, ScanOne
  <2>9. OAMLineBuffer' = two /\ 2 * currentLineClockCounter' = (n + 1) + 1
    BY <1>4, <2>1 DEF OamScanClock, ScanTwoSprites, CountClock
  <2> HIDE DEF two, one, n
  <2>10. PICK k \in {(n + 1) + 1} : TRUE
    OBVIOUS
  <2>11. PICK buffer \in {two} : TRUE
    OBVIOUS
  <2>12. HoldsFirst(OAMLineBuffer, k)'
    BY <2>2, <2>8, <2>9, <2>10, <2>11, ScanKept
  <2> QED
    BY <2>9, <2>10, <2>12
<1>5. CASE HClock /\ EndLine
  <2>1. currentLineClockCounter > OamEnd
    BY <1>1, <1>5 DEF EndLine, TypeOK
  <2>2. OAMLineBuffer' = << >> /\ currentLineClockCounter' = 0
    BY <1>1, <1>5, <2>1 DEF EndLine, lineEndLogic, SpriteInv, SpriteRowsInRange
  <2>3. (OAMLineBuffer = << >> => HoldsFirst(OAMLineBuffer, 0))'
    BY NothingScanned, PTL
  <2> QED
    BY <1>2, <1>3, <2>2, <2>3 DEF ScanSelectsFirstSprites
<1>6. CASE HClock /\ (DrawCurrentLine \/ DrawingClock \/ EnterHBlank \/ BlankClock)
  <2>1. mode' = "V_BLANK" \/ currentLineClockCounter' > OamEnd
    BY <1>1, <1>6
       DEF DrawCurrentLine, DrawingClock, EnterHBlank, BlankClock, CountClock,
           BeamInv, TypeOK, ModeFollowsBeam, Beam!ModeAt
  <2>2. currentLineClockCounter' \in Nat
    BY <1>2 DEF TypeOK
  <2> QED
    BY <1>2, <2>1, <2>2 DEF ScanSelectsFirstSprites
<1>7. CASE HAccess
  <2>1. UNCHANGED <<beamVars, OAMLineBuffer>>
    BY <1>1, <1>7, AccessKeepsBeam DEF HAccess
  <2>2. ~scanDisturbed' => ~scanDisturbed /\ UNCHANGED <<OAM, spriteSize, LY, OAMLineBuffer>>
    BY <1>7, <2>1 DEF HAccess, beamVars
  <2> QED
    BY <1>1, <1>2, <2>1, <2>2, ScanKept DEF ScanSelectsFirstSprites, beamVars
<1>8. CASE UNCHANGED hvars
  <2>1. UNCHANGED <<OAM, spriteSize, LY, OAMLineBuffer, scanDisturbed, currentLineClockCounter, mode>>
    BY <1>8 DEF hvars, vars, beamVars, cpuRegs
  <2> QED
    BY <1>1, <1>2, <2>1, ScanKept DEF ScanSelectsFirstSprites
<1> QED
  BY <1>2, <1>4, <1>5, <1>6, <1>7, <1>8 DEF HNext, HClock, machineClock

\* The scan, two sprites a clock, keeps the first sprites of OAM that are on
\* the line, up to the limit, whatever OAM holds and the limit is.
THEOREM ScanCorrect == HSpec => []ScanSelectsFirstSprites
<1>1. HInit => ScanInv
  <2> SUFFICES ASSUME HInit PROVE ScanInv
    OBVIOUS
  <2>1. Len(OAMLineBuffer) <= MAX_SPRITES_PER_LINE /\ SpriteRowsInRange
    BY SpriteAssumption DEF HInit, Init, SpriteRowsInRange
  <2>2. HoldsFirst(OAMLineBuffer, 2 * currentLineClockCounter)
    <3>1. OAMLineBuffer = << >> /\ 2 * currentLineClockCounter = 0
      BY DEF HInit, Init
    <3> QED
      BY <3>1, NothingScanned
  <2> QED
    BY <2>1, <2>2, InitBeamInv DEF HInit, ScanInv, SpriteInv, ScanSelectsFirstSprites
<1>2. ScanInv => ScanSelectsFirstSprites
  BY DEF ScanInv
<1> QED
  BY <1>1, <1>2, ScanInvStep, PTL DEF HSpec
-----------------------------------------------------------------------------
(* How long a program that leaves LYC the only source can wait for STAT.    *)

\* Whole lines, and clocks, until the line that matches LYC begins.
LinesToMatch == IF LY < LYC THEN LYC - LY - 1 ELSE (LYC - LY - 1) + TotalLines
ClocksToMatch == LinesToMatch * LineEnd + (LineEnd - currentLineClockCounter)

\* The wait ends at the next match, or at the one after it: the filter can
\* only still be shut at a match if it was shut in this very line.
WaitInv ==
  /\ awaited \in Nat
  /\ ~AwaitsLine => awaited = 0
  /\ AwaitsLine =>
       /\ awaited + ClocksToMatch <= TotalLines * LineEnd + LineEnd
       /\ STATAlreadyRequestedThisLine /\ LinesToMatch = 0 =>
            awaited + ClocksToMatch <= LineEnd

LineWaitInv == BeamInv /\ WaitInv

\* One line less is LineEnd clocks less; and any number of lines short of a
\* frame leaves at least one of them.
LEMMA LinesInClocks ==
  ASSUME NEW lines \in Nat, NEW clocks \in Nat
  PROVE  /\ lines * clocks \in Nat
         /\ (lines + 1) * clocks = lines * clocks + clocks
         /\ \A most \in Nat : lines < most => lines * clocks + clocks <= most * clocks
  OBVIOUS

\* While STAT is awaited the matching line is ahead, less than a frame away.
LEMMA MatchAhead ==
  ASSUME TypeOK, AwaitsLine
  PROVE  /\ LinesToMatch \in 0 .. TotalLines - 1
         /\ ClocksToMatch \in Nat
         /\ 0 < ClocksToMatch /\ ClocksToMatch <= TotalLines * LineEnd
         /\ LinesToMatch = 0 => ClocksToMatch <= LineEnd
<1> USE TimingAssumption DEF TypeOK, AwaitsLine
<1>1. LinesToMatch \in 0 .. TotalLines - 1
  BY DEF LinesToMatch
<1>2. LinesToMatch = 0 => LinesToMatch * LineEnd = 0
  OBVIOUS
<1> DEFINE whole == LinesToMatch * LineEnd
           sweep == TotalLines * LineEnd
<1>3. whole \in Nat /\ sweep \in Nat /\ whole + LineEnd <= sweep
  BY <1>1, LinesInClocks
<1>4. ClocksToMatch = whole + (LineEnd - currentLineClockCounter)
  BY DEF ClocksToMatch
<1> HIDE DEF whole, sweep
<1> QED
  BY <1>1, <1>2, <1>3, <1>4 DEF whole, sweep
\* A wait that is not counted on starts afresh, with all of a frame allowed.
LEMMA WaitStarts ==
  ASSUME TypeOK, awaited = 0
  PROVE  WaitInv
<1> USE TimingAssumption
<1>1. ASSUME AwaitsLine
      PROVE  /\ ClocksToMatch \in Nat /\ ClocksToMatch <= TotalLines * LineEnd
             /\ LinesToMatch = 0 => ClocksToMatch <= LineEnd
  BY <1>1, MatchAhead
<1> DEFINE sweep == TotalLines * LineEnd
<1>2. sweep \in Nat
  BY LinesInClocks
<1> HIDE DEF sweep
<1>3. AwaitsLine => awaited + ClocksToMatch <= sweep + LineEnd
  BY <1>1, <1>2 DEF sweep
<1> QED
  BY <1>1, <1>3 DEF sweep, WaitInv

\* A clock within the line brings the match one clock nearer.
LEMMA WaitWithinLine ==
  ASSUME TypeOK, TypeOK', WaitInv, AwaitsLine, AwaitsLine', LYC' = LYC, LY' = LY,
         awaited' = awaited + 1,
         currentLineClockCounter' = currentLineClockCounter + 1,
         STATAlreadyRequestedThisLine' = STATAlreadyRequestedThisLine
  PROVE  WaitInv'
<1> DEFINE whole == LinesToMatch * LineEnd
           sweep == TotalLines * LineEnd
<1>1. LinesToMatch \in Nat /\ LineEnd \in Nat /\ TotalLines \in Nat
  BY MatchAhead, TimingAssumption
<1>2. whole \in Nat /\ sweep \in Nat
  BY <1>1, LinesInClocks
<1>3. LinesToMatch' = LinesToMatch
  BY DEF LinesToMatch
<1>4. /\ ClocksToMatch = whole + (LineEnd - currentLineClockCounter)
      /\ ClocksToMatch' = whole + (LineEnd - (currentLineClockCounter + 1))
  BY <1>3 DEF ClocksToMatch
<1>5. /\ awaited \in Nat /\ awaited + ClocksToMatch <= sweep + LineEnd
      /\ STATAlreadyRequestedThisLine /\ LinesToMatch = 0 => awaited + ClocksToMatch <= LineEnd
  BY DEF WaitInv
<1> HIDE DEF whole, sweep
<1>6. awaited' + ClocksToMatch' = awaited + ClocksToMatch /\ awaited' \in Nat
  BY <1>1, <1>2, <1>4, <1>5 DEF TypeOK
<1>7. /\ awaited' + ClocksToMatch' <= sweep + LineEnd
      /\ STATAlreadyRequestedThisLine' /\ LinesToMatch' = 0 => awaited' + ClocksToMatch' <= LineEnd
  BY <1>3, <1>5, <1>6
<1> QED
  BY <1>6, <1>7 DEF WaitInv, sweep

\* The end of a line either opens the filter for the line to come, or is a
\* match; a match that raised nothing was filtered, and is the last to be.
LEMMA WaitAcrossLines ==
  ASSUME TypeOK, TypeOK', WaitInv, AwaitsLine, AwaitsLine', EndLine, awaited' = awaited + 1
  PROVE  WaitInv'
<1> USE TimingAssumption
<1> DEFINE whole == LinesToMatch * LineEnd
           next  == LinesToMatch' * LineEnd
           sweep == TotalLines * LineEnd
<1>1. /\ LYC' = LYC /\ LY' = (IF LY = TotalLines - 1 THEN 0 ELSE LY + 1)
      /\ currentLineClockCounter = LineEnd - 1 /\ currentLineClockCounter' = 0
      /\ STATAlreadyRequestedThisLine' = (LY' = LYC)
      /\ LY' = LYC => STATAlreadyRequestedThisLine
  <2>1. /\ STATAlreadyRequestedThisLine' = (LY' = LYC /\ asksSTAT("LYC"))
        /\ (LY' = LYC /\ asksSTAT("LYC") /\ ~STATAlreadyRequestedThisLine)
             => INTERRUPT_STAT \in REG_IF'
    BY DEF EndLine, lineEndLogic, LineAfter, FilterAfter, requestInterrupts, StatIf,
       tryRequestSTATInterrupt, TypeOK
  <2>2. asksSTAT("LYC") /\ INTERRUPT_STAT \notin REG_IF'
    BY DEF AwaitsLine, asksSTAT
  <2>3. /\ LYC' = LYC /\ LY' = (IF LY = TotalLines - 1 THEN 0 ELSE LY + 1)
        /\ currentLineClockCounter = LineEnd - 1 /\ currentLineClockCounter' = 0
    BY DEF EndLine, lineEndLogic, LineAfter, cpuRegs, TypeOK
  <2> QED
    BY <2>1, <2>2, <2>3
<1>2. LinesToMatch \in 0 .. TotalLines - 1 /\ LYC \in 0 .. TotalLines - 1 /\ LY \in 0 .. TotalLines - 1
  BY MatchAhead DEF AwaitsLine, TypeOK
<1>3. LinesToMatch' = IF LY' = LYC THEN TotalLines - 1 ELSE LinesToMatch - 1
  BY <1>1, <1>2 DEF LinesToMatch
<1>4. LY' = LYC <=> LinesToMatch = 0
  BY <1>1, <1>2 DEF LinesToMatch
<1>5. ClocksToMatch = whole + 1 /\ ClocksToMatch' = next + LineEnd
  BY <1>1 DEF ClocksToMatch
<1>6. /\ awaited \in Nat /\ awaited + ClocksToMatch <= sweep + LineEnd
      /\ STATAlreadyRequestedThisLine /\ LinesToMatch = 0 => awaited + ClocksToMatch <= LineEnd
  BY DEF WaitInv
<1>7. whole \in Nat /\ next \in Nat /\ sweep \in Nat
  BY <1>2, <1>3, <1>4, LinesInClocks
<1>8. CASE LY' = LYC
  <2>1. next + LineEnd = sweep
    <3>1. LinesToMatch' \in Nat /\ LinesToMatch' + 1 = TotalLines
      BY <1>3, <1>8
    <3> QED
      BY <3>1, LinesInClocks
  <2>2. awaited + 1 <= LineEnd /\ LinesToMatch' # 0
    <3>1. awaited + ClocksToMatch <= LineEnd
      BY <1>1, <1>4, <1>6, <1>8
    <3> HIDE DEF whole, next, sweep
    <3>2. awaited + 1 <= LineEnd
      BY <3>1, <1>5, <1>6, <1>7
    <3> QED
      BY <3>2, <1>3, <1>8
  <2> HIDE DEF whole, next, sweep
  <2>3. awaited' \in Nat /\ awaited' + ClocksToMatch' <= sweep + LineEnd
    BY <1>5, <1>6, <1>7, <2>1, <2>2
  <2> QED
    BY <2>2, <2>3 DEF WaitInv, sweep
<1>9. CASE LY' # LYC
  <2>1. whole = next + LineEnd
    <3>1. LinesToMatch' \in Nat /\ LinesToMatch = LinesToMatch' + 1
      BY <1>2, <1>3, <1>4, <1>9
    <3> QED
      BY <3>1, LinesInClocks
  <2> HIDE DEF whole, next, sweep
  <2>2. awaited' \in Nat /\ awaited' + ClocksToMatch' <= sweep + LineEnd
    BY <1>5, <1>6, <1>7, <2>1
  <2>3. ~STATAlreadyRequestedThisLine'
    BY <1>1, <1>9
  <2> QED
    BY <2>2, <2>3 DEF WaitInv, sweep
<1> QED
  BY <1>8, <1>9

LEMMA LineWaitInvStep == LineWaitInv /\ [HNext]_hvars => LineWaitInv'
<1> SUFFICES ASSUME LineWaitInv, [HNext]_hvars PROVE BeamInv' /\ WaitInv'
  BY DEF LineWaitInv
<1>1. BeamInv /\ TypeOK /\ WaitInv
  BY DEF LineWaitInv, BeamInv
<1>2. BeamInv' /\ TypeOK'
  <2>1. [Next]_vars
    BY DEF HNext, HClock, HAccess, Next, hvars
  <2> QED
    BY <1>1, <2>1, BeamInvStep DEF BeamInv
<1> SUFFICES WaitInv'
  BY <1>2
<1>3. ASSUME awaited' = 0 PROVE WaitInv'
  <2>1. (TypeOK /\ awaited = 0 => WaitInv)'
    BY WaitStarts, PTL
  <2> QED
    BY <1>2, <1>3, <2>1
<1>4. CASE HClock
  <2>1. CASE ~(AwaitsLine /\ AwaitsLine')
    BY <1>3, <1>4, <2>1 DEF HClock
  <2>2. CASE AwaitsLine /\ AwaitsLine'
    <3>1. awaited' = awaited + 1
      BY <1>4, <2>2 DEF HClock
    <3>2. CASE EndLine
      BY <1>1, <1>2, <2>2, <3>1, <3>2, WaitAcrossLines
    <3>3. CASE OamScanClock \/ DrawCurrentLine \/ DrawingClock \/ BlankClock \/ EnterHBlank
      <4>1. /\ LYC' = LYC /\ LY' = LY
            /\ currentLineClockCounter' = currentLineClockCounter + 1
        BY <3>3 DEF OamScanClock, DrawCurrentLine, DrawingClock, BlankClock, EnterHBlank,
           CountClock, cpuRegs
      <4>2. CASE EnterHBlank
        <5>1. ~asksSTAT("H_BLANK")
          BY <2>2 DEF AwaitsLine, asksSTAT
        <5>2. STATAlreadyRequestedThisLine' = STATAlreadyRequestedThisLine
          BY <1>1, <4>2, <5>1 DEF EnterHBlank, TypeOK
        <5> QED
          BY <1>1, <1>2, <2>2, <3>1, <4>1, <5>2, WaitWithinLine
      <4>3. CASE OamScanClock \/ DrawCurrentLine \/ DrawingClock \/ BlankClock
        <5>1. STATAlreadyRequestedThisLine' = STATAlreadyRequestedThisLine
          BY <4>3 DEF OamScanClock, DrawCurrentLine, DrawingClock, BlankClock, statVars
        <5> QED
          BY <1>1, <1>2, <2>2, <3>1, <4>1, <5>1, WaitWithinLine
      <4> QED
        BY <3>3, <4>2, <4>3
    <3> QED
      BY <1>4, <3>2, <3>3 DEF HClock, machineClock
  <2> QED
    BY <2>1, <2>2
<1>5. CASE HAccess
  <2>1. CASE ~(AwaitsLine /\ AwaitsLine' /\ LYC' = LYC)
    BY <1>3, <1>5, <2>1 DEF HAccess
  <2>2. CASE AwaitsLine /\ AwaitsLine' /\ LYC' = LYC
    <3>1. awaited' = awaited
      BY <1>5, <2>2 DEF HAccess
    <3>2. UNCHANGED <<LY, currentLineClockCounter, STATAlreadyRequestedThisLine>>
      BY <1>1, <1>5, AccessKeepsBeam DEF HAccess, beamVars, statVars
    <3>3. UNCHANGED <<LinesToMatch, ClocksToMatch>>
      BY <2>2, <3>2 DEF LinesToMatch, ClocksToMatch
    <3> QED
      BY <1>1, <2>2, <3>1, <3>2, <3>3 DEF WaitInv
  <2> QED
    BY <2>1, <2>2
<1>6. CASE UNCHANGED hvars
  <2>1. UNCHANGED <<LY, LYC, statEnable, REG_IF, currentLineClockCounter,
                    STATAlreadyRequestedThisLine, awaited>>
    BY <1>6 DEF hvars, vars, beamVars, statVars, cpuRegs
  <2>2. UNCHANGED <<LinesToMatch, ClocksToMatch, AwaitsLine>>
    BY <2>1 DEF LinesToMatch, ClocksToMatch, AwaitsLine
  <2> QED
    BY <1>1, <2>1, <2>2 DEF WaitInv
<1> QED
  BY <1>2, <1>4, <1>5, <1>6 DEF HNext

\* A program that waits for LYC alone gets its STAT interrupt within a frame
\* and a line, for frames and lines of any size: the filter can swallow one
\* match it finds it shut, never a second.
THEOREM LineInterruptBound == HSpec => []LineInterruptInTime
<1>1. HInit => LineWaitInv
  <2> SUFFICES ASSUME HInit PROVE BeamInv /\ WaitInv
    BY DEF LineWaitInv
  <2>1. BeamInv /\ TypeOK
    BY InitBeamInv DEF HInit, BeamInv
  <2> QED
    BY <2>1, WaitStarts DEF HInit
<1>2. LineWaitInv => LineInterruptInTime
  <2> SUFFICES ASSUME LineWaitInv PROVE awaited < (TotalLines + 1) * LineEnd
    BY DEF LineInterruptInTime
  <2> DEFINE sweep == TotalLines * LineEnd
  <2>1. /\ TotalLines \in Nat /\ LineEnd \in Nat /\ LineEnd > 0 /\ sweep \in Nat
        /\ (TotalLines + 1) * LineEnd = sweep + LineEnd
    BY TimingAssumption, LinesInClocks
  <2>2. awaited \in Nat /\ (~AwaitsLine => awaited = 0)
    BY DEF LineWaitInv, WaitInv
  <2>3. AwaitsLine => /\ ClocksToMatch \in Nat /\ 0 < ClocksToMatch
                      /\ awaited + ClocksToMatch <= sweep + LineEnd
    BY MatchAhead DEF LineWaitInv, WaitInv, BeamInv
  <2> HIDE DEF sweep
  <2> QED
    BY <2>1, <2>2, <2>3
<1> QED
  BY <1>1, <1>2, LineWaitInvStep, PTL DEF HSpec
=============================================================================
