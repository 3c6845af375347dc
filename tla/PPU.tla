-------------------------------- MODULE PPU --------------------------------
(***************************************************************************)
(* The picture processing unit (src/src/PPU/ppu.cpp) with the LCD          *)
(* registers it keeps on the address bus, and the writes the CPU can make  *)
(* to them between two machine clocks.                                     *)
(*                                                                         *)
(* Kept: the mode machine, the line counter, the LY/LYC comparison, every  *)
(* STAT and V-Blank request, the per-line sprite buffer.  Abstracted: the  *)
(* colour of a pixel.  screenBuffer records, for every row, the frame in   *)
(* which drawCurrentLine last wrote it.                                    *)
(*                                                                         *)
(* A definition named Mut_... is not part of the model: it is a plausible  *)
(* mistake in the definition that follows it, used to see that some        *)
(* property notices.                                                       *)
(***************************************************************************)
EXTENDS Types, Integers, Sequences

CONSTANTS
  OamEnd,         \* 20:  clocks of a line spent in OAM_SCAN
  DrawEnd,        \* 63:  clock of a line at which DRAWING ends
  LineEnd,        \* 114: clocks in a line
  VisibleLines,   \* 144: PPU::HEIGHT
  TotalLines,     \* 154
  FrameWrap,      \* 2^64: frameCount is an unsigned long long
  MAX_SPRITES_PER_LINE,   \* 10
  MAX_SPRITE_HEIGHT,      \* 16
  SHORT_SPRITE_HEIGHT,    \* 8
  \* What the program writes: bounds of the environment.
  StatWrites,     \* sets of STAT enable bits
  LycWrites,      \* values of LYC
  SpriteWrites,   \* OAM entries, each with its number
  SizeWrites      \* values of LCDC's SPRITE_SIZE bit

\* STAT bits 6 to 3.  A mode's enable bit is named after the mode.
StatSource == {"LYC", "H_BLANK", "V_BLANK", "OAM_SCAN"}

\* 40 sprites, two of them parsed on each clock of OAM_SCAN.
SpriteNumber == 0 .. 2 * OamEnd - 1
Sprite == [yPos : Nat, xPos : Nat]

ASSUME TimingAssumption ==
  /\ OamEnd \in Nat /\ DrawEnd \in Nat /\ LineEnd \in Nat
  /\ VisibleLines \in Nat /\ TotalLines \in Nat /\ FrameWrap \in Nat
  /\ 0 < OamEnd /\ OamEnd + 1 < DrawEnd /\ DrawEnd < LineEnd
  /\ 0 < VisibleLines /\ VisibleLines < TotalLines
  /\ 0 < FrameWrap

ASSUME SpriteAssumption ==
  /\ MAX_SPRITES_PER_LINE \in Nat
  /\ MAX_SPRITE_HEIGHT \in Nat /\ SHORT_SPRITE_HEIGHT \in Nat
  /\ SHORT_SPRITE_HEIGHT <= MAX_SPRITE_HEIGHT
  /\ SpriteWrites \subseteq SpriteNumber \X Sprite

ASSUME WritesAssumption ==
  /\ StatWrites \subseteq SUBSET StatSource
  /\ LycWrites \subseteq Nat
  /\ SizeWrites \subseteq BOOLEAN

VARIABLES
  mode,           \* STAT bits 1-0
  statEnable,     \* STAT bits 6-3, the set of those that are 1
  lycFlag,        \* STAT bit 2, LY_EQUALS_LYC
  LY, LYC,
  currentLineClockCounter,
  STATAlreadyRequestedThisLine,
  frameCount,
  OAM,            \* object attribute memory
  spriteSize,     \* LCDC bit 2: sprites are double height
  OAMLineBuffer,
  screenBuffer,
  REG_IF          \* the interrupt requests, shared with the CPU

beamVars   == <<mode, LY, currentLineClockCounter, frameCount, screenBuffer>>
statVars   == <<lycFlag, STATAlreadyRequestedThisLine>>
cpuRegs    == <<statEnable, LYC, OAM, spriteSize>>
vars == <<beamVars, statVars, cpuRegs, OAMLineBuffer, REG_IF>>

TypeOK ==
  /\ mode \in PPU_MODE
  /\ statEnable \in SUBSET StatSource
  /\ lycFlag \in BOOLEAN
  /\ LY \in 0 .. TotalLines - 1
  /\ LYC \in Nat
  /\ currentLineClockCounter \in 0 .. LineEnd - 1
  /\ STATAlreadyRequestedThisLine \in BOOLEAN
  /\ frameCount \in 0 .. FrameWrap - 1
  /\ OAM \in [SpriteNumber -> Sprite]
  /\ spriteSize \in BOOLEAN
  /\ OAMLineBuffer \in Seq(Sprite)
  /\ screenBuffer \in [0 .. VisibleLines - 1 -> 0 .. FrameWrap]
  /\ REG_IF \in SUBSET INTERRUPT_ID

Init ==
  /\ mode = "OAM_SCAN"
  /\ statEnable = {} /\ lycFlag = FALSE
  /\ LY = 0 /\ LYC = 0
  /\ currentLineClockCounter = 0
  /\ STATAlreadyRequestedThisLine = FALSE
  /\ frameCount = 0
  /\ OAM = [n \in SpriteNumber |-> [yPos |-> 0, xPos |-> 0]]
  /\ spriteSize = FALSE
  /\ OAMLineBuffer = << >>
  /\ screenBuffer = [row \in 0 .. VisibleLines - 1 |-> FrameWrap]   \* never drawn
  /\ REG_IF = {}

-----------------------------------------------------------------------------
(* Interrupt requests *)

\* A mode entered with its enable bit set asks for a STAT interrupt, which
\* is granted unless one was granted before in this line.
asksSTAT(m) == m \in statEnable
Mut_NoFilter(asked) == asked
tryRequestSTATInterrupt(asked) == asked /\ ~STATAlreadyRequestedThisLine

requestInterrupts(ids) == REG_IF' = REG_IF \cup ids

StatIf(granted) == IF granted THEN {INTERRUPT_STAT} ELSE {}

-----------------------------------------------------------------------------
(* The sprite buffer *)

getSpriteHeight == IF spriteSize THEN MAX_SPRITE_HEIGHT ELSE SHORT_SPRITE_HEIGHT

\* The sprite has a row on the current line.  Its yPos is MAX_SPRITE_HEIGHT
\* more than the line of its first row.
Mut_OneRowTooMany(s) ==
  /\ s.xPos # 0
  /\ s.yPos <= LY + MAX_SPRITE_HEIGHT
  /\ s.yPos + getSpriteHeight >= LY + MAX_SPRITE_HEIGHT
OnCurrentLine(s) ==
  /\ s.xPos # 0
  /\ s.yPos <= LY + MAX_SPRITE_HEIGHT
  /\ s.yPos + getSpriteHeight > LY + MAX_SPRITE_HEIGHT

addSpriteToBufferIfNeeded(buffer, n) ==
  IF Len(buffer) # MAX_SPRITES_PER_LINE /\ OnCurrentLine(OAM[n])
  THEN Append(buffer, OAM[n])
  ELSE buffer

Mut_ScanOverlaps ==
  LET n == currentLineClockCounter
  IN  OAMLineBuffer' =
        addSpriteToBufferIfNeeded(addSpriteToBufferIfNeeded(OAMLineBuffer, n), n + 1)
ScanTwoSprites ==
  LET n == 2 * currentLineClockCounter
  IN  OAMLineBuffer' =
        addSpriteToBufferIfNeeded(addSpriteToBufferIfNeeded(OAMLineBuffer, n), n + 1)

-----------------------------------------------------------------------------
(* machineClock, one action per path through its state machine *)

CountClock == currentLineClockCounter' = currentLineClockCounter + 1

\* A clock of OAM_SCAN; the last one switches to DRAWING, which has no
\* STAT interrupt.
OamScanClock ==
  /\ mode = "OAM_SCAN"
  /\ ScanTwoSprites
  /\ CountClock
  /\ mode' = IF currentLineClockCounter + 1 = OamEnd THEN "DRAWING" ELSE mode
  /\ UNCHANGED <<LY, frameCount, screenBuffer, statVars, cpuRegs, REG_IF>>

\* flushLineToScreenBuffer writes the row of the screen that LY names.
Mut_PaintNextRow(row) ==
  screenBuffer' = [screenBuffer EXCEPT ![row + 1] = frameCount]
flushLineToScreenBuffer(row) == screenBuffer' = [screenBuffer EXCEPT ![row] = frameCount]

\* drawCurrentLine: the whole line is drawn atomically, then the sprite
\* buffer is reset.
DrawCurrentLine ==
  /\ mode = "DRAWING"
  /\ currentLineClockCounter + 1 = OamEnd + 1
  /\ CountClock
  /\ flushLineToScreenBuffer(LY)
  /\ OAMLineBuffer' = << >>
  /\ UNCHANGED <<mode, LY, frameCount, statVars, cpuRegs, REG_IF>>

DrawingClock ==
  /\ mode = "DRAWING"
  /\ currentLineClockCounter + 1 \notin {OamEnd + 1, DrawEnd}
  /\ CountClock
  /\ UNCHANGED <<mode, LY, frameCount, screenBuffer, OAMLineBuffer, statVars, cpuRegs, REG_IF>>

EnterHBlank ==
  /\ mode = "DRAWING"
  /\ currentLineClockCounter + 1 = DrawEnd
  /\ CountClock
  /\ mode' = "H_BLANK"
  /\ STATAlreadyRequestedThisLine' = (STATAlreadyRequestedThisLine \/ asksSTAT("H_BLANK"))
  /\ requestInterrupts(StatIf(tryRequestSTATInterrupt(asksSTAT("H_BLANK"))))
  /\ UNCHANGED <<LY, frameCount, screenBuffer, OAMLineBuffer, lycFlag, cpuRegs>>

BlankClock ==
  /\ mode \in {"H_BLANK", "V_BLANK"}
  /\ currentLineClockCounter + 1 # LineEnd
  /\ CountClock
  /\ UNCHANGED <<mode, LY, frameCount, screenBuffer, OAMLineBuffer, statVars, cpuRegs, REG_IF>>

\* The line, mode and frame that follow the line ly.
Mut_NoWrap(ly) == IF ly = TotalLines THEN 0 ELSE ly + 1
LineAfter(ly) == IF ly = TotalLines - 1 THEN 0 ELSE ly + 1

Mut_LateVBlank(ly) ==
  IF ly = VisibleLines THEN "V_BLANK"
  ELSE IF ly = TotalLines - 1 \/ mode = "H_BLANK" THEN "OAM_SCAN"
  ELSE mode
ModeAfter(ly) ==
  IF ly = VisibleLines - 1 THEN "V_BLANK"
  ELSE IF ly = TotalLines - 1 \/ mode = "H_BLANK" THEN "OAM_SCAN"
  ELSE mode

Mut_CountAtVBlank(ly) == IF ly = VisibleLines - 1 THEN (frameCount + 1) % FrameWrap ELSE frameCount
FrameAfter(ly) == IF ly = TotalLines - 1 THEN (frameCount + 1) % FrameWrap ELSE frameCount

\* A line starts with the filter shut only if it matched an enabled LYC.
Mut_FilterStaysShut(matched) == matched \/ STATAlreadyRequestedThisLine
FilterAfter(matched) == matched

\* lineEndLogic: move to the next line, enter its mode, compare LY with LYC.
\* A match that is enabled leaves STATAlreadyRequestedThisLine set for the
\* new line; anything else resets it, whatever the new mode requested.
lineEndLogic ==
  LET newLY    == LineAfter(LY)
      newMode  == ModeAfter(LY)
      modeAsks == newMode # mode /\ asksSTAT(newMode)
      lycAsks  == newLY = LYC /\ asksSTAT("LYC")
  IN  /\ currentLineClockCounter' = 0
      /\ LY' = newLY
      /\ mode' = newMode
      /\ frameCount' = FrameAfter(LY)
      /\ requestInterrupts(
           StatIf(tryRequestSTATInterrupt(modeAsks \/ lycAsks))
             \cup (IF newMode = "V_BLANK" /\ mode # "V_BLANK" THEN {INTERRUPT_VBLANK} ELSE {}))
      /\ lycFlag' = lycAsks
      /\ STATAlreadyRequestedThisLine' = FilterAfter(lycAsks)

EndLine ==
  /\ mode \in {"H_BLANK", "V_BLANK"}
  /\ currentLineClockCounter + 1 = LineEnd
  /\ lineEndLogic
  /\ UNCHANGED <<screenBuffer, OAMLineBuffer, cpuRegs>>

machineClock ==
  \/ OamScanClock \/ DrawCurrentLine \/ DrawingClock
  \/ EnterHBlank \/ BlankClock \/ EndLine

-----------------------------------------------------------------------------
(* What the CPU does to these registers through the bus, between two clocks. *)
(* Bits 2-0 of STAT and the whole of LY are read-only for it.                *)

WriteSTAT(enable) ==
  /\ statEnable' = enable
  /\ UNCHANGED <<beamVars, statVars, LYC, OAM, spriteSize, OAMLineBuffer, REG_IF>>

WriteLYC(value) ==
  /\ LYC' = value
  /\ UNCHANGED <<beamVars, statVars, statEnable, OAM, spriteSize, OAMLineBuffer, REG_IF>>

WriteOAM(n, sprite) ==
  /\ OAM' = [OAM EXCEPT ![n] = sprite]
  /\ UNCHANGED <<beamVars, statVars, statEnable, LYC, spriteSize, OAMLineBuffer, REG_IF>>

WriteSpriteSize(double) ==
  /\ spriteSize' = double
  /\ UNCHANGED <<beamVars, statVars, statEnable, LYC, OAM, OAMLineBuffer, REG_IF>>

\* Dispatching an interrupt clears its bit; a store to IF sets any value.
WriteIF(flags) ==
  /\ REG_IF' = flags
  /\ UNCHANGED <<beamVars, statVars, cpuRegs, OAMLineBuffer>>

CpuAccess ==
  \/ \E enable \in StatWrites : WriteSTAT(enable)
  \/ \E value \in LycWrites : WriteLYC(value)
  \/ \E entry \in SpriteWrites : WriteOAM(entry[1], entry[2])
  \/ \E double \in SizeWrites : WriteSpriteSize(double)
  \/ \E flags \in SUBSET {INTERRUPT_VBLANK, INTERRUPT_STAT} : WriteIF(flags)

Next == machineClock \/ CpuAccess

\* The main loop clocks the machine for as long as the window is open.
Spec == Init /\ [][Next]_vars /\ WF_vars(machineClock)
=============================================================================
