---------------------------- MODULE MachineProofs ----------------------------
(* The components on one clock, whatever the program and the user do. *)
EXTENDS MachineProperties, MachineParts, TLAPS

\* The identifiers, each component under its own name for it.
LEMMA Identifiers ==
  /\ INTERRUPT_ID = 0 .. 4 /\ cpu!INTERRUPT_ID = 0 .. 4 /\ tcu!INTERRUPT_ID = 0 .. 4
  /\ ppu!INTERRUPT_ID = 0 .. 4
  /\ INTERRUPT_VBLANK = 0 /\ cpu!INTERRUPT_VBLANK = 0 /\ ppu!INTERRUPT_VBLANK = 0
  /\ INTERRUPT_STAT = 1 /\ ppu!INTERRUPT_STAT = 1
  /\ INTERRUPT_TIMER = 2 /\ tcu!INTERRUPT_TIMER = 2
  /\ INTERRUPT_JOYPAD = 4 /\ joypad!INTERRUPT_JOYPAD = 4
  BY DEF INTERRUPT_ID, INTERRUPT_VBLANK, INTERRUPT_STAT, INTERRUPT_TIMER, INTERRUPT_JOYPAD,
     cpu!INTERRUPT_ID, cpu!INTERRUPT_VBLANK, cpu!INTERRUPT_JOYPAD,
     tcu!INTERRUPT_ID, tcu!INTERRUPT_VBLANK, tcu!INTERRUPT_JOYPAD, tcu!INTERRUPT_TIMER,
     ppu!INTERRUPT_ID, ppu!INTERRUPT_VBLANK, ppu!INTERRUPT_JOYPAD, ppu!INTERRUPT_STAT,
     joypad!INTERRUPT_JOYPAD

\* The definitions below an instruction of the processor.
LEMMA Cycles ==
  /\ cpu!getBusyCycles.CALL = 6 /\ cpu!getBusyCycles.HALT = 1 /\ cpu!getBusyCycles.LDH_in_A = 2
  BY DEF cpu!getBusyCycles

\* No instruction that leaves the processor running is charged more cycles
\* than a taken CALL.
LEMMA LongestInstruction ==
  ASSUME cpu!ExecuteOpcode, ~crashed'
  PROVE  busyCycles' \in 0 .. 6
<1> USE DEF cpu!spend, cpu!getBusyCycles
<1>1. ASSUME NEW i \in cpu!OrdinaryInstructions, cpu!ExecuteOrdinary(i) PROVE busyCycles' \in 0 .. 6
  BY <1>1 DEF cpu!ExecuteOrdinary, cpu!OrdinaryInstructions
<1>2. CASE cpu!ExecuteUndefined
  BY <1>2 DEF cpu!ExecuteUndefined
<1>3. CASE cpu!ExecuteHalt \/ cpu!ExecuteJP_HL \/ cpu!ExecuteRST
  BY <1>3 DEF cpu!ExecuteHalt, cpu!ExecuteJP_HL, cpu!ExecuteRST
<1>4. ASSUME NEW enable \in BOOLEAN, cpu!ExecuteSetIME(enable) PROVE busyCycles' \in 0 .. 6
  BY <1>4 DEF cpu!ExecuteSetIME
<1>5. ASSUME NEW condition \in BOOLEAN,
             cpu!jr(condition) \/ cpu!jpImm(condition) \/ cpu!callImm(condition)
      PROVE  busyCycles' \in 0 .. 6
  BY <1>5 DEF cpu!jr, cpu!jpImm, cpu!callImm
<1>6. ASSUME NEW condition \in BOOLEAN, NEW cycles \in 4 .. 5, cpu!ret(condition, cycles)
      PROVE  busyCycles' \in 0 .. 6
  BY <1>6 DEF cpu!ret
<1>7. CASE cpu!ExecuteRET \/ cpu!ExecuteRETI
  <2>1. {cpu!getBusyCycles.RET, cpu!getBusyCycles.RET_cc, cpu!getBusyCycles.RETI} \subseteq 4 .. 5
    OBVIOUS
  <2>2. \E condition \in BOOLEAN, cycles \in 4 .. 5 : cpu!ret(condition, cycles)
    BY <1>7, <2>1, Zenon DEF cpu!ExecuteRET, cpu!ExecuteRETI
  <2> QED
    BY <1>6, <2>2
<1>8. CASE cpu!ExecutePUSH \/ cpu!ExecutePOP \/ cpu!ExecuteLD_SP_nn
  BY <1>8 DEF cpu!ExecutePUSH, cpu!ExecutePOP, cpu!ExecuteLD_SP_nn
<1>9. ASSUME NEW flags \in SUBSET Interrupts,
             cpu!ExecuteStoreIE(flags) \/ cpu!ExecuteStoreIF(flags)
      PROVE  busyCycles' \in 0 .. 6
  BY <1>9 DEF cpu!ExecuteStoreIE, cpu!ExecuteStoreIF
<1> QED
  BY <1>1, <1>2, <1>3, <1>4, <1>5, <1>7, <1>8, <1>9 DEF cpu!ExecuteOpcode

\* An instruction changes the interrupt registers only by a store to them.
LEMMA OnlyStores ==
  ASSUME cpu!ExecuteOpcode
  PROVE  /\ REG_IF' = REG_IF \/ REG_IF' \in SUBSET Interrupts
         /\ REG_IE' = REG_IE \/ REG_IE' \in SUBSET Interrupts
<1>1. CASE \E flags \in SUBSET Interrupts :
             cpu!ExecuteStoreIE(flags) \/ cpu!ExecuteStoreIF(flags)
  BY <1>1 DEF cpu!ExecuteStoreIE, cpu!ExecuteStoreIF
<1>2. CASE ~ \E flags \in SUBSET Interrupts :
               cpu!ExecuteStoreIE(flags) \/ cpu!ExecuteStoreIF(flags)
  BY <1>2 DEF cpu!ExecuteOpcode, cpu!ExecuteOrdinary, cpu!ExecuteUndefined, cpu!ExecuteHalt,
     cpu!ExecuteSetIME, cpu!jr, cpu!jpImm, cpu!callImm, cpu!ExecuteJP_HL, cpu!ExecuteRST,
     cpu!ExecuteRET, cpu!ExecuteRETI, cpu!ExecutePUSH, cpu!ExecutePOP, cpu!ExecuteLD_SP_nn
<1> QED
  BY <1>1, <1>2

LEMMA Least ==
  ASSUME NEW p \in SUBSET (0 .. 4), p # {}
  PROVE  \E x \in p : \A y \in p : x <= y
<1>1. CASE 0 \in p
  BY <1>1
<1>2. CASE 0 \notin p /\ 1 \in p
  BY <1>2
<1>3. CASE 0 \notin p /\ 1 \notin p /\ 2 \in p
  BY <1>3
<1>4. CASE p \subseteq {3, 4} /\ 3 \in p
  BY <1>4
<1>5. CASE p \subseteq {4}
  <2>1. p = {4}
    BY <1>5
  <2> QED
    BY <2>1
<1>6. p \subseteq {0, 1, 2, 3, 4}
  OBVIOUS
<1> QED
  BY <1>1, <1>2, <1>3, <1>4, <1>5, <1>6

\* The interrupt that is taken is one of the pending ones, and none of them
\* comes before it.
LEMMA ChosenIsFirst ==
  ASSUME REG_IF \subseteq INTERRUPT_ID, cpu!pending # {}
  PROVE  cpu!chosen \in cpu!pending /\ \A j \in cpu!pending : cpu!chosen <= j
<1>1. cpu!pending \in SUBSET (0 .. 4)
  BY DEF cpu!pending, INTERRUPT_ID, INTERRUPT_VBLANK, INTERRUPT_JOYPAD
<1>2. \E x \in cpu!pending : \A y \in cpu!pending : x <= y
  BY <1>1, Least
<1> QED
  BY <1>2 DEF cpu!chosen, cpu!Min

-----------------------------------------------------------------------------
(* The interrupt registers.                                                *)

RequestsOK == REG_IF \subseteq INTERRUPT_ID /\ REG_IE \subseteq INTERRUPT_ID

\* The timer unit requests its interrupt and no other.
LEMMA TimerRequests ==
  ASSUME TimerClock
  PROVE  REG_IF' = REG_IF \/ REG_IF' = REG_IF \cup {INTERRUPT_TIMER}
  BY Identifiers DEF TimerClock, tcu!machineClock, tcu!incrementTIMA

\* The PPU requests V-Blank as it enters it, and STAT.
LEMMA PictureRequests ==
  ASSUME PictureClock
  PROVE  \E ids \in SUBSET {INTERRUPT_VBLANK, INTERRUPT_STAT} :
           /\ REG_IF' = REG_IF \cup ids
           /\ INTERRUPT_VBLANK \in ids <=> EntersVBlank
           /\ INTERRUPT_STAT \in ids => statEnable # {}
<1> DEFINE Requests(ids) ==
      /\ ids \in SUBSET {INTERRUPT_VBLANK, INTERRUPT_STAT}
      /\ REG_IF' = REG_IF \cup ids
      /\ INTERRUPT_VBLANK \in ids <=> EntersVBlank
      /\ INTERRUPT_STAT \in ids => statEnable # {}
<1>1. CASE ppu!OamScanClock \/ ppu!DrawCurrentLine \/ ppu!DrawingClock \/ ppu!BlankClock
  <2>1. REG_IF' = REG_IF /\ ~EntersVBlank
    BY <1>1 DEF ppu!OamScanClock, ppu!DrawCurrentLine, ppu!DrawingClock, ppu!BlankClock, EntersVBlank
  <2>2. Requests({})
    BY <2>1
  <2> QED
    BY <2>2
<1>2. CASE ppu!EnterHBlank
  <2> DEFINE ids == ppu!StatIf(ppu!tryRequestSTATInterrupt(ppu!asksSTAT("H_BLANK")))
  <2>1. REG_IF' = REG_IF \cup ids /\ ~EntersVBlank
    BY <1>2 DEF ppu!EnterHBlank, ppu!requestInterrupts, EntersVBlank
  <2>2. ids \subseteq {INTERRUPT_STAT} /\ (ids # {} => statEnable # {})
    BY Identifiers DEF ppu!StatIf, ppu!tryRequestSTATInterrupt, ppu!asksSTAT
  <2>3. Requests(ids)
    BY <2>1, <2>2, Identifiers
  <2> QED
    BY <2>3
<1>3. CASE ppu!EndLine
  <2> DEFINE newMode == ppu!ModeAfter(LY)
             asks == \/ newMode # mode /\ ppu!asksSTAT(newMode)
                     \/ ppu!LineAfter(LY) = LYC /\ ppu!asksSTAT("LYC")
             stat == ppu!StatIf(ppu!tryRequestSTATInterrupt(asks))
             ids == stat \cup (IF newMode = "V_BLANK" /\ mode # "V_BLANK"
                               THEN {INTERRUPT_VBLANK} ELSE {})
  <2>1. REG_IF' = REG_IF \cup ids /\ mode' = newMode
    BY <1>3, Identifiers DEF ppu!EndLine, ppu!lineEndLogic, ppu!requestInterrupts
  <2>2. stat \subseteq {INTERRUPT_STAT} /\ (stat # {} => statEnable # {})
    BY Identifiers DEF ppu!StatIf, ppu!tryRequestSTATInterrupt, ppu!asksSTAT
  <2>3. Requests(ids)
    <3> HIDE DEF newMode, stat
    <3>1. ids \in SUBSET {INTERRUPT_VBLANK, INTERRUPT_STAT}
      BY <2>2
    <3>2. INTERRUPT_VBLANK \in ids <=> EntersVBlank
      BY <2>1, <2>2, Identifiers DEF EntersVBlank
    <3>3. INTERRUPT_STAT \in ids => statEnable # {}
      BY <2>2, Identifiers
    <3> QED
      BY <2>1, <3>1, <3>2, <3>3
  <2> QED
    BY <2>3
<1> QED
  BY <1>1, <1>2, <1>3 DEF PictureClock, ppu!machineClock

\* What a clock of the processor does to the interrupt registers.
LEMMA ProcessorRequests ==
  ASSUME RequestsOK, ProcessorClock
  PROVE  RequestsOK'
<1> USE DEF RequestsOK
<1>1. CASE cpu!executeCurrentInstruction
  BY <1>1, OnlyStores, MachineAssumption DEF cpu!executeCurrentInstruction
<1>2. CASE cpu!DispatchInterrupt
  BY <1>2 DEF cpu!DispatchInterrupt, cpu!triggerInterrupt, cpu!acknowledged
<1>3. CASE cpu!CrashedClock \/ cpu!BusyClock \/ cpu!WakeUp \/ cpu!HaltedClock
  BY <1>3 DEF cpu!CrashedClock, cpu!BusyClock, cpu!WakeUp, cpu!HaltedClock, cpu!vars
<1>4. CASE StoreInstruction
  BY <1>4 DEF StoreInstruction, cpu!ExecuteOrdinary
<1> QED
  BY <1>1, <1>2, <1>3, <1>4 DEF ProcessorClock, cpu!machineClock

\* The others leave the processor's registers alone, and only add requests.
LEMMA OthersRequest ==
  ASSUME TimerClock \/ PictureClock \/ ReportControls
  PROVE  /\ UNCHANGED <<PC, SP, memory, IME, halted, crashed, busyCycles, REG_IE>>
         /\ \E ids \in SUBSET {INTERRUPT_VBLANK, INTERRUPT_STAT, INTERRUPT_TIMER, INTERRUPT_JOYPAD} :
              /\ REG_IF' = REG_IF \cup ids
              /\ INTERRUPT_VBLANK \in ids <=> PictureClock /\ EntersVBlank
              /\ INTERRUPT_STAT \in ids => statEnable # {}
<1>1. UNCHANGED cpuVars
  BY Zenon DEF TimerClock, PictureClock, ReportControls
<1>2. UNCHANGED <<PC, SP, memory, IME, halted, crashed, busyCycles, REG_IE>>
  BY <1>1 DEF cpuVars
<1>3. CASE PictureClock
  <2>1. PICK ids \in SUBSET {INTERRUPT_VBLANK, INTERRUPT_STAT} :
          /\ REG_IF' = REG_IF \cup ids
          /\ INTERRUPT_VBLANK \in ids <=> EntersVBlank
          /\ INTERRUPT_STAT \in ids => statEnable # {}
    BY <1>3, PictureRequests
  <2>2. ids \in SUBSET {INTERRUPT_VBLANK, INTERRUPT_STAT, INTERRUPT_TIMER, INTERRUPT_JOYPAD}
    OBVIOUS
  <2> QED
    BY <1>2, <1>3, <2>1, <2>2
<1>4. CASE TimerClock
  <2>1. ~PictureClock
    BY <1>4 DEF TimerClock, PictureClock
  <2>2. PICK ids \in {{}, {INTERRUPT_TIMER}} : REG_IF' = REG_IF \cup ids
    BY <1>4, TimerRequests
  <2> QED
    BY <1>2, <2>1, <2>2, Identifiers
<1>5. CASE ReportControls
  <2>1. ~PictureClock
    BY <1>5 DEF ReportControls, PictureClock
  <2>2. REG_IF' = REG_IF \cup {INTERRUPT_JOYPAD}
    BY <1>5, Identifiers DEF ReportControls, joypad!setJoypad
  <2>3. INTERRUPT_VBLANK \notin {INTERRUPT_JOYPAD} /\ INTERRUPT_STAT \notin {INTERRUPT_JOYPAD}
    BY Identifiers
  <2>4. {INTERRUPT_JOYPAD}
          \in SUBSET {INTERRUPT_VBLANK, INTERRUPT_STAT, INTERRUPT_TIMER, INTERRUPT_JOYPAD}
    OBVIOUS
  <2> QED
    BY <1>2, <2>1, <2>2, <2>3, <2>4
<1> QED
  BY <1>3, <1>4, <1>5

LEMMA StepRequests == RequestsOK /\ [Next]_vars => RequestsOK'
<1> SUFFICES ASSUME RequestsOK, [Next]_vars PROVE RequestsOK'
  OBVIOUS
<1>1. CASE TimerClock \/ PictureClock \/ ReportControls
  <2>1. PICK ids \in SUBSET {INTERRUPT_VBLANK, INTERRUPT_STAT, INTERRUPT_TIMER, INTERRUPT_JOYPAD} :
          REG_IF' = REG_IF \cup ids
    BY <1>1, OthersRequest
  <2>2. ids \subseteq INTERRUPT_ID
    BY Identifiers
  <2>3. UNCHANGED REG_IE
    BY <1>1, OthersRequest
  <2> QED
    BY <2>1, <2>2, <2>3 DEF RequestsOK
<1>2. CASE ProcessorClock
  BY <1>2, ProcessorRequests
<1>3. CASE UNCHANGED vars
  <2>1. UNCHANGED <<REG_IF, REG_IE>>
    BY <1>3 DEF vars, cpuVars
  <2> QED
    BY <2>1 DEF RequestsOK
<1> QED
  BY <1>1, <1>2, <1>3 DEF Next, machineClock

LEMMA InitRequests == Init => RequestsOK
  BY Identifiers DEF Init, cpu!Init, ppu!Init, RequestsOK

-----------------------------------------------------------------------------
(* One handler for each V-Blank.                                           *)

\* Once the interrupt of this V-Blank is taken, it is not requested again
\* unless the program does so itself.
HandlerInv ==
  /\ taken \in {None, 0, 1}
  /\ taken = 1 => INTERRUPT_VBLANK \notin REG_IF

LEMMA HandlerStep == RequestsOK /\ HandlerInv /\ [HNext]_hvars => HandlerInv'
<1> SUFFICES ASSUME RequestsOK, HandlerInv, [HNext]_hvars PROVE HandlerInv'
  OBVIOUS
<1> USE DEF HandlerInv, None
<1>1. CASE HTimer \/ HReport
  <2>1. UNCHANGED taken /\ (TimerClock \/ ReportControls) /\ ~PictureClock
    BY <1>1 DEF HTimer, HReport, TimerClock, ReportControls, PictureClock
  <2>2. INTERRUPT_VBLANK \in REG_IF' => INTERRUPT_VBLANK \in REG_IF
    BY <2>1, OthersRequest
  <2> QED
    BY <2>1, <2>2
<1>2. CASE HProcessor
  <2>1. CASE taken # None /\ TakesVBlank
    <3>1. INTERRUPT_VBLANK \in REG_IF /\ REG_IF' = REG_IF \ {INTERRUPT_VBLANK}
      <4>1. cpu!pending # {} /\ cpu!chosen = INTERRUPT_VBLANK
        BY <2>1 DEF TakesVBlank, cpu!DispatchInterrupt
      <4>2. INTERRUPT_VBLANK \in cpu!pending
        BY <4>1, ChosenIsFirst DEF RequestsOK
      <4>3. REG_IF' = REG_IF \ {cpu!chosen}
        BY <2>1 DEF TakesVBlank, cpu!DispatchInterrupt, cpu!triggerInterrupt, cpu!acknowledged
      <4> QED
        BY <4>1, <4>2, <4>3 DEF cpu!pending
    <3>2. taken' = 1
      BY <1>2, <2>1, <3>1 DEF HProcessor
    <3> QED
      BY <3>1, <3>2
  <2>2. CASE ~(taken # None /\ TakesVBlank) /\ Forges
    BY <1>2, <2>2 DEF HProcessor
  <2>3. CASE ~(taken # None /\ TakesVBlank) /\ ~Forges
    BY <1>2, <2>3 DEF HProcessor, Forges
  <2> QED
    BY <2>1, <2>2, <2>3
<1>3. CASE HPicture
  <2>1. CASE EntersVBlank
    BY <1>3, <2>1 DEF HPicture
  <2>2. CASE ~EntersVBlank
    <3>1. INTERRUPT_VBLANK \in REG_IF' => INTERRUPT_VBLANK \in REG_IF
      BY <1>3, <2>2, OthersRequest DEF HPicture
    <3> QED
      BY <1>3, <2>2, <3>1 DEF HPicture
  <2> QED
    BY <2>1, <2>2
<1>4. CASE UNCHANGED hvars
  BY <1>4 DEF hvars, vars
<1> QED
  BY <1>1, <1>2, <1>3, <1>4 DEF HNext, HClock

LEMMA HistoryObserves == [HNext]_hvars => [Next]_vars
  BY DEF HNext, HClock, HTimer, HProcessor, HPicture, HReport, Next, machineClock, hvars

\* One V-Blank, one interrupt, whatever the program enables, disables and
\* acknowledges, on a picture of any size.
THEOREM OneHandler == HSpec => []OneHandlerPerVBlank
<1> DEFINE Inv == RequestsOK /\ HandlerInv
<1>1. HInit => Inv
  BY InitRequests DEF HInit, HandlerInv
<1>2. Inv /\ [HNext]_hvars => Inv'
  BY StepRequests, HandlerStep, HistoryObserves
<1>3. Inv => OneHandlerPerVBlank
  BY DEF HandlerInv, OneHandlerPerVBlank, None
<1> QED
  BY <1>1, <1>2, <1>3, PTL DEF HSpec

-----------------------------------------------------------------------------
(* The handler starts in V-Blank.                                          *)

\* The clocks of V-Blank until now, counted by the beam.
BlankClocks == (LY - VisibleLines) * LineEnd + currentLineClockCounter

\* The processor has spent at least the clocks the V-Blank has lasted on the
\* instruction it was in when V-Blank began.
AgeInv ==
  /\ phase \in {"tcu", "cpu", "ppu"}
  /\ ~crashed => busyCycles \in 0 .. 6
  /\ vblankAge # None =>
       /\ vblankAge \in Nat /\ vblankAge = BlankClocks
       /\ ~crashed /\ IME /\ INTERRUPT_VBLANK \in REG_IE \cap REG_IF
       /\ mode = "V_BLANK"
       /\ LY \in VisibleLines .. TotalLines - 1
       /\ currentLineClockCounter \in Nat
       /\ vblankAge + busyCycles + (IF phase = "ppu" THEN 1 ELSE 0) <= 6

\* The processor leaves the interrupt alone only while it is busy.
LEMMA TakenWhenFree ==
  ASSUME ProcessorClock, FreeToTake, ~crashed, IME, INTERRUPT_VBLANK \in REG_IE \cap REG_IF
  PROVE  cpu!BusyClock /\ UNCHANGED ppuVars
<1>1. cpu!pending # {}
  BY DEF cpu!pending
<1>2. ~StoreInstruction /\ ~cpu!executeCurrentInstruction
  BY <1>1 DEF StoreInstruction, cpu!executeCurrentInstruction
<1>3. ~cpu!DispatchInterrupt
  BY DEF FreeToTake, cpu!DispatchInterrupt, cpu!triggerInterrupt
<1>4. ~cpu!CrashedClock /\ ~cpu!WakeUp /\ ~cpu!HaltedClock
  BY <1>1 DEF cpu!CrashedClock, cpu!WakeUp, cpu!HaltedClock
<1> QED
  BY <1>2, <1>3, <1>4 DEF ProcessorClock, cpu!machineClock

\* However the processor spends its clock, its counter stays that of an
\* instruction.
LEMMA Busy ==
  ASSUME ProcessorClock, ~crashed => busyCycles \in 0 .. 6
  PROVE  ~crashed' => busyCycles' \in 0 .. 6
<1> SUFFICES ASSUME ~crashed' PROVE busyCycles' \in 0 .. 6
  OBVIOUS
<1>1. CASE cpu!executeCurrentInstruction
  BY <1>1, LongestInstruction DEF cpu!executeCurrentInstruction
<1>2. CASE cpu!DispatchInterrupt
  BY <1>2 DEF cpu!DispatchInterrupt, cpu!triggerInterrupt, cpu!spend
<1>3. CASE cpu!BusyClock
  BY <1>3 DEF cpu!BusyClock
<1>4. CASE cpu!CrashedClock \/ cpu!WakeUp \/ cpu!HaltedClock
  BY <1>4 DEF cpu!CrashedClock, cpu!WakeUp, cpu!HaltedClock, cpu!vars
<1>5. CASE StoreInstruction
  BY <1>5, Cycles DEF StoreInstruction, cpu!ExecuteOrdinary, cpu!spend
<1> QED
  BY <1>1, <1>2, <1>3, <1>4, <1>5 DEF ProcessorClock, cpu!machineClock

LEMMA OneMoreLine ==
  ASSUME NEW lines \in Int, NEW length \in Nat
  PROVE  (lines + 1) * length = lines * length + length
  OBVIOUS

\* A clock of a picture that stays in V-Blank counts one more clock of it.
LEMMA NextBlankClock ==
  ASSUME PictureClock, mode = "V_BLANK", LY \in VisibleLines .. TotalLines - 1,
         currentLineClockCounter \in Nat, BlankClocks + 1 <= 6
  PROVE  /\ mode' = "V_BLANK" /\ LY' \in VisibleLines .. TotalLines - 1
         /\ currentLineClockCounter' \in Nat
         /\ BlankClocks' = BlankClocks + 1
<1> USE VBlankAssumption
<1>1. CASE ppu!BlankClock
  BY <1>1 DEF ppu!BlankClock, ppu!CountClock, BlankClocks
<1>2. CASE ppu!EndLine
  <2>1. currentLineClockCounter + 1 = LineEnd /\ currentLineClockCounter' = 0
    BY <1>2 DEF ppu!EndLine, ppu!lineEndLogic
  <2>2. LY' = ppu!LineAfter(LY) /\ mode' = ppu!ModeAfter(LY)
    BY <1>2 DEF ppu!EndLine, ppu!lineEndLogic
  <2>3. (LY - VisibleLines + 1) * LineEnd = (LY - VisibleLines) * LineEnd + LineEnd
    BY OneMoreLine
  <2>4. (LY - VisibleLines + 1) * LineEnd = BlankClocks + 1
    BY <2>1, <2>3 DEF BlankClocks
  <2>5. LY # TotalLines - 1
    <3> SUFFICES ASSUME LY = TotalLines - 1 PROVE FALSE
      OBVIOUS
    <3>1. LY - VisibleLines + 1 = TotalLines - VisibleLines
      OBVIOUS
    <3>2. (TotalLines - VisibleLines) * LineEnd = BlankClocks + 1
      BY <2>4, <3>1
    <3> HIDE DEF BlankClocks
    <3> QED
      BY <3>2, Cycles
  <2>6. LY' = LY + 1 /\ mode' = "V_BLANK"
    BY <2>2, <2>5 DEF ppu!LineAfter, ppu!ModeAfter
  <2>7. BlankClocks' = (LY - VisibleLines + 1) * LineEnd
    <3>1. LY' - VisibleLines = LY - VisibleLines + 1
      BY <2>6
    <3>2. BlankClocks' = (LY' - VisibleLines) * LineEnd + 0
      BY <2>1 DEF BlankClocks
    <3>3. (LY - VisibleLines + 1) * LineEnd \in Int
      OBVIOUS
    <3> QED
      BY <3>1, <3>2, <3>3
  <2> QED
    BY <2>1, <2>4, <2>5, <2>6, <2>7
<1>3. ~(ppu!OamScanClock \/ ppu!DrawCurrentLine \/ ppu!DrawingClock \/ ppu!EnterHBlank)
  BY DEF ppu!OamScanClock, ppu!DrawCurrentLine, ppu!DrawingClock, ppu!EnterHBlank
<1> QED
  BY <1>1, <1>2, <1>3 DEF PictureClock, ppu!machineClock

\* V-Blank begins on its first line, with the first clock.
LEMMA FirstBlankClock ==
  ASSUME PictureClock, EntersVBlank
  PROVE  LY' = VisibleLines /\ currentLineClockCounter' = 0 /\ BlankClocks' = 0
<1> USE VBlankAssumption
<1>1. ppu!EndLine
  BY DEF PictureClock, EntersVBlank, ppu!machineClock, ppu!OamScanClock, ppu!DrawCurrentLine,
     ppu!DrawingClock, ppu!EnterHBlank, ppu!BlankClock
<1>2. currentLineClockCounter' = 0 /\ LY' = ppu!LineAfter(LY) /\ mode' = ppu!ModeAfter(LY)
  BY <1>1 DEF ppu!EndLine, ppu!lineEndLogic
<1>3. LY = VisibleLines - 1
  BY <1>2 DEF EntersVBlank, ppu!ModeAfter
<1>4. LY' = VisibleLines
  BY <1>2, <1>3 DEF ppu!LineAfter
<1>5. (VisibleLines - VisibleLines) * LineEnd + 0 = 0
  OBVIOUS
<1> QED
  BY <1>2, <1>4, <1>5 DEF BlankClocks

LEMMA AgeStep == RequestsOK /\ AgeInv /\ [HNext]_hvars => AgeInv'
<1> SUFFICES ASSUME RequestsOK, AgeInv, [HNext]_hvars PROVE AgeInv'
  OBVIOUS
<1> USE DEF None
<1>1. CASE HTimer \/ HReport
  <2>1. UNCHANGED <<mode, LY, currentLineClockCounter, PC, SP, memory, IME, halted, crashed,
                    busyCycles, REG_IE, vblankAge>>
    <3>1. UNCHANGED ppuVars /\ UNCHANGED vblankAge /\ (TimerClock \/ ReportControls)
      BY <1>1 DEF HTimer, HReport, TimerClock, ReportControls
    <3>2. UNCHANGED <<mode, LY, currentLineClockCounter>>
      BY <3>1 DEF ppuVars
    <3> QED
      BY <3>1, <3>2, OthersRequest
  <2>2. INTERRUPT_VBLANK \in REG_IF => INTERRUPT_VBLANK \in REG_IF'
    BY <1>1, OthersRequest DEF HTimer, HReport
  <2>3. phase # "ppu" /\ phase' \in {"tcu", "cpu"}
    BY <1>1 DEF HTimer, HReport, TimerClock, ReportControls, vars
  <2>4. BlankClocks' = BlankClocks
    BY <2>1 DEF BlankClocks
  <2> QED
    BY <2>1, <2>2, <2>3, <2>4 DEF AgeInv
<1>2. CASE HProcessor
  <2>1. ProcessorClock /\ phase = "cpu" /\ phase' = "ppu"
    BY <1>2 DEF HProcessor, ProcessorClock
  <2>2. ~crashed' => busyCycles' \in 0 .. 6
    BY <2>1, Busy DEF AgeInv
  <2>3. CASE vblankAge' = None
    BY <2>1, <2>2, <2>3 DEF AgeInv
  <2>4. CASE vblankAge' # None
    <3>1. FreeToTake /\ vblankAge' = vblankAge /\ vblankAge # None
      BY <1>2, <2>4 DEF HProcessor
    <3>2. cpu!BusyClock /\ UNCHANGED ppuVars
      BY <2>1, <3>1, TakenWhenFree DEF AgeInv
    <3>3. UNCHANGED <<mode, LY, currentLineClockCounter>>
      BY <3>2 DEF ppuVars
    <3>4. busyCycles' = busyCycles - 1 /\ UNCHANGED <<IME, crashed, REG_IE, REG_IF>>
      BY <3>2 DEF cpu!BusyClock
    <3>5. BlankClocks' = BlankClocks
      BY <3>3 DEF BlankClocks
    <3> QED
      BY <2>1, <2>2, <3>1, <3>3, <3>4, <3>5 DEF AgeInv
  <2> QED
    BY <2>3, <2>4
<1>3. CASE HPicture
  <2>1. PictureClock /\ phase = "ppu" /\ phase' = "tcu"
    BY <1>3 DEF HPicture, PictureClock
  <2>2. UNCHANGED <<IME, crashed, busyCycles, REG_IE>>
    BY <2>1, OthersRequest
  <2>3. INTERRUPT_VBLANK \in REG_IF => INTERRUPT_VBLANK \in REG_IF'
    BY <2>1, OthersRequest
  <2>4. CASE EntersVBlank /\ FreeToTake
    <3>1. vblankAge' = 0
      BY <1>3, <2>4 DEF HPicture
    <3>2. LY' = VisibleLines /\ currentLineClockCounter' = 0 /\ BlankClocks' = 0
      BY <2>1, <2>4, FirstBlankClock
    <3> QED
      BY <2>1, <2>2, <2>4, <3>1, <3>2, VBlankAssumption DEF AgeInv, FreeToTake, EntersVBlank
  <2>5. CASE ~(EntersVBlank /\ FreeToTake) /\ vblankAge = None
    BY <1>3, <2>1, <2>2, <2>5 DEF HPicture, AgeInv
  <2>6. CASE ~(EntersVBlank /\ FreeToTake) /\ vblankAge # None
    <3>1. vblankAge' = vblankAge + 1
      BY <1>3, <2>6 DEF HPicture
    <3>2. vblankAge = BlankClocks /\ BlankClocks + 1 <= 6
      BY <2>1, <2>6 DEF AgeInv
    <3>3. /\ mode' = "V_BLANK" /\ LY' \in VisibleLines .. TotalLines - 1
          /\ currentLineClockCounter' \in Nat
          /\ BlankClocks' = BlankClocks + 1
      BY <2>1, <2>6, <3>2, NextBlankClock DEF AgeInv
    <3> QED
      BY <2>1, <2>2, <2>3, <2>6, <3>1, <3>2, <3>3 DEF AgeInv
  <2> QED
    BY <2>4, <2>5, <2>6
<1>4. CASE UNCHANGED hvars
  <2>1. UNCHANGED <<phase, ppuVars, cpuVars, REG_IF, vblankAge>>
    BY <1>4 DEF hvars, vars
  <2>2. UNCHANGED <<mode, LY, currentLineClockCounter, IME, crashed, busyCycles, REG_IE>>
    BY <2>1 DEF ppuVars, cpuVars
  <2>3. BlankClocks' = BlankClocks
    BY <2>2 DEF BlankClocks
  <2> QED
    BY <2>1, <2>2, <2>3 DEF AgeInv
<1> QED
  BY <1>1, <1>2, <1>3, <1>4 DEF HNext, HClock

\* A processor that accepts the V-Blank interrupt reaches its handler within
\* the longest instruction, before the picture is drawn again, as long as
\* V-Blank lasts longer than that.
THEOREM HandlerInTime == HSpec => []HandlerStartsInVBlank
<1> DEFINE Inv == RequestsOK /\ AgeInv
<1>1. HInit => Inv
  BY InitRequests DEF HInit, Init, cpu!Init, AgeInv
<1>2. Inv /\ [HNext]_hvars => Inv'
  BY StepRequests, AgeStep, HistoryObserves
<1>3. Inv => HandlerStartsInVBlank
  <2> SUFFICES ASSUME AgeInv, vblankAge # None PROVE mode = "V_BLANK" /\ vblankAge <= 6
    BY Cycles DEF HandlerStartsInVBlank
  <2>1. ~crashed /\ busyCycles \in 0 .. 6
    BY DEF AgeInv
  <2> QED
    BY <2>1 DEF AgeInv
<1> QED
  BY <1>1, <1>2, <1>3, PTL DEF HSpec

-----------------------------------------------------------------------------
(* HALT ends in time.                                                      *)

\* The mode follows the beam.
BeamInv ==
  /\ LY \in 0 .. TotalLines - 1 /\ currentLineClockCounter \in 0 .. LineEnd - 1
  /\ mode = IF LY >= VisibleLines THEN "V_BLANK"
            ELSE IF currentLineClockCounter < OamEnd THEN "OAM_SCAN"
            ELSE IF currentLineClockCounter < DrawEnd THEN "DRAWING"
            ELSE "H_BLANK"

\* Clocks since the last V-Blank began, as the beam counts them.
FrameClock ==
  (IF LY >= VisibleLines THEN LY - VisibleLines ELSE LY + TotalLines - VisibleLines) * LineEnd
    + currentLineClockCounter

TimerInv ==
  /\ clockCount \in 0 .. ClockWrap - 1
  /\ REG_TIMA \in tcu!Byte /\ REG_TMA \in tcu!Byte
  /\ rateSelector \in tcu!RateSelector

\* Clocks the running timer still needs to overflow.
Rate == tcu!currentTIMARate
Remaining == (ByteSize - 1 - REG_TIMA) * Rate + (Rate - (clockCount % Rate))

\* The first clock of a sleep only ends the HALT instruction.
SleepInv ==
  /\ phase \in {"tcu", "cpu", "ppu"}
  /\ slept # None <=> Sleeps
  /\ slept # None =>
       /\ slept \in Nat /\ ~crashed /\ busyCycles \in 0 .. 1
       /\ busyCycles = 1 => slept = (IF phase = "ppu" THEN 0 ELSE 1)

\* A sleep that V-Blank has not ended yet began after the last one; once
\* V-Blank is requested, the processor's next clock that is its own ends it.
VBlankWakes ==
  slept # None /\ WokenByVBlank =>
    IF INTERRUPT_VBLANK \notin REG_IF THEN slept <= FrameClock
    ELSE slept <= (IF phase = "ppu" THEN 1 ELSE FrameClocks)

\* The same with the timer: what has been slept and what remains to its next
\* overflow is at most the time it takes from 0.
TimerWakes ==
  slept # None /\ WokenByTimer =>
    IF INTERRUPT_TIMER \notin REG_IF
    THEN slept + Remaining <= LongestPeriod + (IF phase = "tcu" THEN 1 ELSE 0)
    ELSE slept <= (IF phase = "ppu" THEN 1 ELSE LongestPeriod)

HaltInv == BeamInv /\ TimerInv /\ SleepInv /\ VBlankWakes /\ TimerWakes

\* Counting counts a remainder.
LEMMA NextRemainder ==
  ASSUME NEW a \in Nat, NEW n \in Nat \ {0}
  PROVE  /\ a % n \in 0 .. n - 1
         /\ (a + 1) % n = IF a % n = n - 1 THEN 0 ELSE (a % n) + 1
<1> DEFINE q == a \div n
<1> DEFINE r == a % n
<1> DEFINE p == (a + 1) \div n
<1> DEFINE s == (a + 1) % n
<1> DEFINE d == (p - q) * n
<1>1. q \in Int /\ p \in Int /\ r \in 0 .. n - 1 /\ s \in 0 .. n - 1
  OBVIOUS
<1>2. a = q * n + r /\ a + 1 = p * n + s
  OBVIOUS
<1> HIDE DEF q, r, p, s
<1>3. d \in Int /\ d = r + 1 - s
  BY <1>1, <1>2
<1>4. p - q <= 0 \/ p - q >= 2 => d # n
  BY <1>1
<1>5. d <= -n \/ d = 0 \/ d >= n
  BY <1>1
<1> HIDE DEF d
<1>6. CASE r = n - 1
  BY <1>1, <1>3, <1>5, <1>6 DEF r, s
<1>7. CASE r # n - 1
  BY <1>1, <1>3, <1>5, <1>7 DEF r, s
<1> QED
  BY <1>1, <1>6, <1>7 DEF r, s

\* So does counting a clock, also when the counter wraps around.
LEMMA NextClock ==
  ASSUME TimerInv, TimerClock, NEW n \in Nat \ {0}, ClockWrap % n = 0
  PROVE  clockCount' % n = IF clockCount % n = n - 1 THEN 0 ELSE (clockCount % n) + 1
<1>1. clockCount \in 0 .. ClockWrap - 1 /\ ClockWrap \in Nat \ {0}
  BY PeriodAssumption DEF TimerInv
<1>2. clockCount' = (clockCount + 1) % ClockWrap
  BY DEF TimerClock, tcu!machineClock
<1>3. clockCount' = IF clockCount + 1 = ClockWrap THEN 0 ELSE clockCount + 1
  BY <1>1, <1>2
<1>4. /\ clockCount % n \in 0 .. n - 1
      /\ (clockCount + 1) % n = IF clockCount % n = n - 1 THEN 0 ELSE (clockCount % n) + 1
  <2>1. clockCount \in Nat
    BY <1>1
  <2> QED
    BY <2>1, NextRemainder
<1>5. 0 % n = 0
  OBVIOUS
<1> QED
  BY <1>1, <1>3, <1>4, <1>5

LEMMA TimerTypes ==
  ASSUME TimerInv
  PROVE  /\ Rate \in Nat \ {0} /\ ClockWrap % Rate = 0
         /\ ByteSize \in Nat \ {0} /\ REG_TIMA \in 0 .. ByteSize - 1
         /\ LongestPeriod \in Nat /\ LongestPeriod > 1 /\ LongestPeriod = ByteSize * Rate
         /\ clockCount % Rate \in 0 .. Rate - 1
<1>1. /\ Rate \in Nat \ {0} /\ ClockWrap % Rate = 0 /\ 1 < ByteSize * Rate
      /\ ByteSize \in Nat \ {0} /\ REG_TIMA \in 0 .. ByteSize - 1
  BY PeriodAssumption DEF TimerInv, Rate, tcu!currentTIMARate, tcu!Byte
<1>2. LongestPeriod = ByteSize * Rate
  BY DEF LongestPeriod, Rate
<1>3. ByteSize * Rate \in Nat
  BY <1>1
<1>4. clockCount % Rate \in 0 .. Rate - 1
  <2>1. clockCount \in Nat
    BY PeriodAssumption DEF TimerInv
  <2> QED
    BY <1>1, <2>1, NextRemainder
<1> QED
  BY <1>1, <1>2, <1>3, <1>4

LEMMA RemainingBounds ==
  ASSUME TimerInv
  PROVE  /\ Remaining \in Nat /\ LongestPeriod \in Nat
         /\ 1 <= Remaining /\ Remaining <= LongestPeriod
<1> DEFINE left == ByteSize - 1 - REG_TIMA
<1> DEFINE x == left * Rate
<1> DEFINE y == ByteSize * Rate
<1>1. left \in 0 .. ByteSize - 1 /\ Rate \in Nat \ {0} /\ ByteSize \in Nat
  BY TimerTypes
<1>2. x \in Nat /\ y \in Nat /\ x <= y - Rate
  <2> HIDE DEF left
  <2> QED
    BY <1>1
<1>3. Remaining = x + (Rate - (clockCount % Rate))
  BY DEF Remaining
<1> HIDE DEF x, y
<1>4. LongestPeriod = y
  BY TimerTypes DEF y
<1> QED
  BY <1>1, <1>2, <1>3, <1>4, TimerTypes

\* A clock brings the running timer one clock nearer to its overflow.
LEMMA TimerCounts ==
  ASSUME TimerInv, TimerClock, timerEnabled, INTERRUPT_TIMER \notin REG_IF
  PROVE  IF INTERRUPT_TIMER \in REG_IF' THEN Remaining = 1 ELSE Remaining' = Remaining - 1
<1> DEFINE c == clockCount % Rate
<1> DEFINE left == ByteSize - 1 - REG_TIMA
<1>1. /\ Rate \in Nat \ {0} /\ ByteSize \in Nat \ {0} /\ left \in Int /\ c \in 0 .. Rate - 1
      /\ REG_TIMA \in 0 .. ByteSize - 1
  BY TimerTypes
<1>2. Rate' = Rate
  BY DEF TimerClock, tcu!machineClock, tcu!tacVars, Rate, tcu!currentTIMARate
<1>3. clockCount' % Rate = IF c = Rate - 1 THEN 0 ELSE c + 1
  BY TimerTypes, NextClock
<1>4. Remaining = left * Rate + (Rate - c)
      /\ Remaining' = (ByteSize - 1 - REG_TIMA') * Rate + (Rate - (clockCount' % Rate))
  BY <1>2 DEF Remaining
<1>5. tcu!ticks(clockCount', Rate) <=> c = Rate - 1
  BY <1>1, <1>3 DEF tcu!ticks
<1> HIDE DEF c, left
<1>6. CASE c # Rate - 1
  <2>1. REG_TIMA' = REG_TIMA /\ REG_IF' = REG_IF
    BY <1>5, <1>6 DEF TimerClock, tcu!machineClock, Rate
  <2>2. left * Rate \in Int /\ Remaining' = left * Rate + (Rate - (c + 1))
    BY <1>1, <1>3, <1>4, <1>6, <2>1 DEF left
  <2> QED
    BY <1>1, <1>4, <2>1, <2>2
<1>7. CASE c = Rate - 1 /\ left # 0
  <2>1. REG_TIMA' = REG_TIMA + 1 /\ REG_IF' = REG_IF
    BY <1>1, <1>5, <1>7 DEF TimerClock, tcu!machineClock, tcu!incrementTIMA, Rate, left
  <2>2. Remaining' = (left - 1) * Rate + Rate
    <3>1. ByteSize - 1 - REG_TIMA' = left - 1
      BY <1>1, <2>1 DEF left
    <3>2. clockCount' % Rate = 0
      BY <1>3, <1>7
    <3>3. Remaining' = (left - 1) * Rate + (Rate - 0)
      BY <1>4, <3>1, <3>2
    <3> QED
      BY <1>1, <3>3
  <2>3. (left - 1) * Rate = left * Rate - Rate /\ left * Rate \in Int
    BY <1>1
  <2> DEFINE x == left * Rate
  <2>4. x \in Int /\ Remaining' = x - Rate + Rate /\ Remaining = x + (Rate - c)
    BY <1>4, <2>2, <2>3
  <2> HIDE DEF x
  <2> QED
    BY <1>1, <1>7, <2>1, <2>4
<1>8. CASE c = Rate - 1 /\ left = 0
  <2>1. INTERRUPT_TIMER \in REG_IF'
    BY <1>1, <1>5, <1>8, Identifiers DEF TimerClock, tcu!machineClock, tcu!incrementTIMA, Rate, left
  <2>2. Remaining = 1
    <3>1. 0 * Rate = 0
      BY <1>1
    <3> QED
      BY <1>1, <1>4, <1>8, <3>1
  <2> QED
    BY <2>1, <2>2
<1> QED
  BY <1>6, <1>7, <1>8

LEMMA BeamTypes ==
  ASSUME BeamInv
  PROVE  /\ LineEnd \in Nat /\ TotalLines \in Nat /\ VisibleLines \in Nat
         /\ 0 < VisibleLines /\ VisibleLines < TotalLines
         /\ FrameClock \in Nat /\ FrameClocks \in Nat /\ FrameClocks > 1
         /\ FrameClock < FrameClocks
<1> USE VBlankAssumption DEF BeamInv
<1>1. LineEnd \in Nat /\ TotalLines \in Nat /\ VisibleLines \in Nat
      /\ 0 < VisibleLines /\ VisibleLines < TotalLines
  OBVIOUS
<1>2. FrameClock \in Nat /\ FrameClock < FrameClocks
  <2> DEFINE lines == IF LY >= VisibleLines THEN LY - VisibleLines ELSE LY + TotalLines - VisibleLines
  <2>1. lines \in Nat /\ lines + 1 <= TotalLines
    OBVIOUS
  <2> HIDE DEF lines
  <2>2. lines * LineEnd \in Nat /\ (lines + 1) * LineEnd <= TotalLines * LineEnd
        /\ (lines + 1) * LineEnd = lines * LineEnd + LineEnd
    <3>1. ASSUME NEW x \in Nat, NEW y \in Nat, NEW n \in Nat, x + 1 <= y
          PROVE  x * n \in Nat /\ (x + 1) * n = x * n + n /\ (x + 1) * n <= y * n
      BY <3>1
    <3> QED
      BY <1>1, <2>1, <3>1
  <2>3. FrameClock = lines * LineEnd + currentLineClockCounter
    BY DEF FrameClock, lines
  <2> DEFINE x == lines * LineEnd
  <2> DEFINE y == TotalLines * LineEnd
  <2>4. x \in Nat /\ y \in Nat /\ x + LineEnd <= y
    BY <2>2
  <2>5. FrameClock = x + currentLineClockCounter /\ FrameClocks = y
    BY <2>3 DEF FrameClocks
  <2> HIDE DEF x, y
  <2> QED
    BY <2>4, <2>5
<1>3. FrameClocks \in Nat /\ FrameClocks > 1
  <2>1. (TotalLines - VisibleLines) * LineEnd > 6
    BY Cycles
  <2>2. TotalLines * LineEnd = (TotalLines - VisibleLines) * LineEnd + VisibleLines * LineEnd
    OBVIOUS
  <2>3. VisibleLines * LineEnd \in Nat /\ (TotalLines - VisibleLines) * LineEnd \in Int
    OBVIOUS
  <2> QED
    BY <2>1, <2>2, <2>3 DEF FrameClocks
<1> QED
  BY <1>1, <1>2, <1>3

\* A clock of the picture is one clock more since V-Blank began, or the first
\* of the next V-Blank, a whole frame later.
LEMMA PictureCounts ==
  ASSUME BeamInv, PictureClock
  PROVE  /\ BeamInv'
         /\ IF EntersVBlank THEN FrameClock + 1 = FrameClocks ELSE FrameClock' = FrameClock + 1
<1> DEFINE lines == IF LY >= VisibleLines THEN LY - VisibleLines ELSE LY + TotalLines - VisibleLines
<1>1. /\ LY \in 0 .. TotalLines - 1 /\ currentLineClockCounter \in 0 .. LineEnd - 1
      /\ mode = "V_BLANK" <=> LY >= VisibleLines
      /\ LineEnd \in Nat /\ TotalLines \in Nat /\ VisibleLines \in Nat
      /\ 0 < VisibleLines /\ VisibleLines < TotalLines
  BY BeamTypes DEF BeamInv
<1>2. lines \in Nat /\ FrameClock = lines * LineEnd + currentLineClockCounter
  BY <1>1 DEF FrameClock
<1>3. lines * LineEnd \in Nat /\ (lines + 1) * LineEnd = lines * LineEnd + LineEnd
  <2> HIDE DEF lines
  <2> QED
    BY <1>1, <1>2
<1>4. CASE ppu!OamScanClock \/ ppu!DrawCurrentLine \/ ppu!DrawingClock \/ ppu!EnterHBlank
           \/ ppu!BlankClock
  <2>1. /\ LY' = LY /\ currentLineClockCounter' = currentLineClockCounter + 1
        /\ mode' = "V_BLANK" <=> mode = "V_BLANK"
    BY <1>4 DEF ppu!OamScanClock, ppu!DrawCurrentLine, ppu!DrawingClock, ppu!EnterHBlank,
       ppu!BlankClock, ppu!CountClock
  <2>2. BeamInv' /\ ~EntersVBlank
    <3>1. currentLineClockCounter' \in 0 .. LineEnd - 1
      BY <1>4, VBlankAssumption DEF BeamInv, ppu!OamScanClock, ppu!DrawCurrentLine, ppu!DrawingClock,
         ppu!EnterHBlank, ppu!BlankClock, ppu!CountClock
    <3>2. mode' = IF LY' >= VisibleLines THEN "V_BLANK"
                  ELSE IF currentLineClockCounter' < OamEnd THEN "OAM_SCAN"
                  ELSE IF currentLineClockCounter' < DrawEnd THEN "DRAWING"
                  ELSE "H_BLANK"
      BY <1>4, VBlankAssumption DEF BeamInv, ppu!OamScanClock, ppu!DrawCurrentLine, ppu!DrawingClock,
         ppu!EnterHBlank, ppu!BlankClock, ppu!CountClock
    <3> QED
      BY <1>1, <2>1, <3>1, <3>2 DEF BeamInv, EntersVBlank
  <2>3. FrameClock' = lines * LineEnd + (currentLineClockCounter + 1)
    BY <2>1 DEF FrameClock
  <2> HIDE DEF lines
  <2> QED
    BY <1>1, <1>2, <1>3, <2>2, <2>3
<1>5. CASE ppu!EndLine
  <2>1. /\ mode \in {"H_BLANK", "V_BLANK"}
        /\ currentLineClockCounter + 1 = LineEnd /\ currentLineClockCounter' = 0
        /\ LY' = ppu!LineAfter(LY) /\ mode' = ppu!ModeAfter(LY)
    BY <1>5 DEF ppu!EndLine, ppu!lineEndLogic
  <2>2. FrameClock + 1 = (lines + 1) * LineEnd
    <3> HIDE DEF lines
    <3> QED
      BY <1>1, <1>2, <1>3, <2>1
  <2>3. CASE LY = VisibleLines - 1
    <3>1. LY' = VisibleLines /\ mode' = "V_BLANK" /\ mode # "V_BLANK"
      BY <1>1, <2>1, <2>3 DEF ppu!LineAfter, ppu!ModeAfter
    <3>2. BeamInv' /\ EntersVBlank
      BY <1>1, <2>1, <3>1, VBlankAssumption DEF BeamInv, EntersVBlank
    <3>3. lines + 1 = TotalLines
      BY <1>1, <2>3
    <3> QED
      BY <2>2, <3>2, <3>3 DEF FrameClocks
  <2>4. CASE LY # VisibleLines - 1
    <3>1. BeamInv' /\ ~EntersVBlank
      BY <1>1, <2>1, <2>4, VBlankAssumption
      DEF ppu!LineAfter, ppu!ModeAfter, BeamInv, EntersVBlank
    <3>2. lines' = lines + 1
      BY <1>1, <2>1, <2>4 DEF ppu!LineAfter
    <3>3. FrameClock' = lines' * LineEnd + 0
      BY <2>1 DEF FrameClock
    <3>4. FrameClock' = (lines + 1) * LineEnd + 0
      BY <3>2, <3>3
    <3> HIDE DEF lines
    <3> QED
      BY <1>1, <1>2, <2>2, <3>1, <3>4
  <2> QED
    BY <2>3, <2>4
<1> QED
  BY <1>4, <1>5 DEF PictureClock, ppu!machineClock

\* Only HALT halts, and it is charged one clock.
LEMMA FallsAsleep ==
  ASSUME ProcessorClock, ~halted, halted'
  PROVE  ~crashed' /\ busyCycles' = 1
<1>1. cpu!ExecuteHalt => crashed' = crashed /\ busyCycles' = 1
  BY Cycles DEF cpu!ExecuteHalt, cpu!spend
<1>2. cpu!ExecuteOpcode => cpu!ExecuteHalt
  BY DEF cpu!ExecuteOpcode, cpu!ExecuteOrdinary, cpu!ExecuteUndefined,
     cpu!ExecuteSetIME, cpu!jr, cpu!jpImm, cpu!callImm, cpu!ExecuteJP_HL, cpu!ExecuteRST,
     cpu!ExecuteRET, cpu!ExecuteRETI, cpu!ExecutePUSH, cpu!ExecutePOP, cpu!ExecuteLD_SP_nn,
     cpu!ExecuteStoreIE, cpu!ExecuteStoreIF
<1>3. cpu!executeCurrentInstruction
  BY DEF ProcessorClock, cpu!machineClock, cpu!CrashedClock, cpu!BusyClock, cpu!WakeUp,
     cpu!HaltedClock, cpu!DispatchInterrupt, cpu!vars, StoreInstruction, cpu!ExecuteOrdinary
<1> QED
  BY <1>1, <1>2, <1>3 DEF cpu!executeCurrentInstruction

\* A halted processor ends its HALT instruction, sleeps on as long as nothing
\* is pending, or wakes up.
LEMMA HaltedStep ==
  ASSUME ProcessorClock, halted, ~crashed, halted'
  PROVE  /\ UNCHANGED <<tcuVars, ppuVars, crashed, REG_IE, REG_IF>>
         /\ \/ busyCycles # 0 /\ busyCycles' = busyCycles - 1
            \/ busyCycles = 0 /\ busyCycles' = busyCycles /\ cpu!pending = {}
<1>1. ~StoreInstruction /\ ~cpu!executeCurrentInstruction
  BY DEF StoreInstruction, cpu!executeCurrentInstruction
<1>2. ~cpu!DispatchInterrupt /\ ~cpu!WakeUp /\ ~cpu!CrashedClock
  BY DEF cpu!DispatchInterrupt, cpu!WakeUp, cpu!CrashedClock
<1>3. (cpu!BusyClock \/ cpu!HaltedClock) /\ UNCHANGED <<tcuVars, ppuVars>>
  BY <1>1, <1>2 DEF ProcessorClock, cpu!machineClock
<1> QED
  BY <1>3 DEF cpu!BusyClock, cpu!HaltedClock, cpu!vars

\* Next to the processor, the registers of the timer keep their types.
LEMMA TimerInvStep == TimerInv /\ [Next]_vars => TimerInv'
<1> SUFFICES ASSUME TimerInv, [Next]_vars PROVE TimerInv'
  OBVIOUS
<1>1. CASE UNCHANGED tcuVars
  BY <1>1 DEF tcuVars, TimerInv
<1>2. CASE TimerClock
  <2>1. clockCount' \in 0 .. ClockWrap - 1
    BY <1>2, PeriodAssumption DEF TimerInv, TimerClock, tcu!machineClock
  <2>2. REG_TIMA' \in tcu!Byte
    BY <1>2, PeriodAssumption DEF TimerInv, TimerClock, tcu!machineClock, tcu!incrementTIMA, tcu!Byte
  <2> QED
    BY <1>2, <2>1, <2>2 DEF TimerInv, TimerClock, tcu!machineClock, tcu!tacVars
<1>3. CASE StoreToTimer
  <2> USE PeriodAssumption, MachineAssumption DEF TimerInv, tcu!tacVars
  <2>1. CASE tcu!WriteDIV
    BY <2>1 DEF tcu!WriteDIV
  <2>2. CASE \E value \in TimaWrites : tcu!WriteTIMA(value)
    BY <2>2 DEF tcu!WriteTIMA
  <2>3. CASE \E value \in TmaWrites : tcu!WriteTMA(value)
    BY <2>3 DEF tcu!WriteTMA
  <2>4. CASE \E enabled \in BOOLEAN, selector \in Rates : tcu!WriteTAC(enabled, selector)
    BY <2>4 DEF tcu!WriteTAC
  <2> QED
    BY <1>3, <2>1, <2>2, <2>3, <2>4 DEF StoreToTimer
<1>4. UNCHANGED vars => UNCHANGED tcuVars
  BY DEF vars
<1> QED
  BY <1>1, <1>2, <1>3, <1>4 DEF Next, machineClock, ProcessorClock, StoreInstruction, StoreToPPU,
     PictureClock, ReportControls

LEMMA BeamInvStep == BeamInv /\ [Next]_vars => BeamInv'
<1> SUFFICES ASSUME BeamInv, [Next]_vars PROVE BeamInv'
  OBVIOUS
<1>1. CASE UNCHANGED <<mode, LY, currentLineClockCounter>>
  BY <1>1 DEF BeamInv
<1>2. CASE PictureClock
  BY <1>2, PictureCounts
<1>3. StoreToPPU => UNCHANGED <<mode, LY, currentLineClockCounter>>
  BY DEF StoreToPPU, ppu!WriteSTAT, ppu!WriteLYC, ppu!beamVars
<1>4. UNCHANGED ppuVars => UNCHANGED <<mode, LY, currentLineClockCounter>>
  BY DEF ppuVars
<1> QED
  BY <1>1, <1>2, <1>3, <1>4 DEF Next, machineClock, ProcessorClock, StoreInstruction, StoreToTimer,
     TimerClock, ReportControls, vars

\* The timer's clock.
LEMMA TimerKeepsHalt ==
  ASSUME HaltInv, HTimer
  PROVE  SleepInv' /\ VBlankWakes' /\ TimerWakes'
<1> USE DEF None
<1>1. TimerClock /\ phase = "tcu" /\ phase' = "cpu" /\ slept' = slept
  BY DEF HTimer, TimerClock
<1>2. UNCHANGED <<halted, crashed, busyCycles, REG_IE>>
  BY <1>1, OthersRequest
<1>3. UNCHANGED <<timerEnabled, rateSelector, mode, LY, currentLineClockCounter>>
  BY <1>1 DEF TimerClock, tcu!machineClock, tcu!tacVars, ppuVars
<1>4. /\ WokenByVBlank' <=> WokenByVBlank
      /\ WokenByTimer' <=> WokenByTimer
      /\ Sleeps' <=> Sleeps
      /\ FrameClock' = FrameClock /\ LongestPeriod' = LongestPeriod
  BY <1>2, <1>3 DEF WokenByVBlank, WokenByTimer, Sleeps, FrameClock, LongestPeriod,
     tcu!currentTIMARate
<1>5. INTERRUPT_VBLANK \in REG_IF' <=> INTERRUPT_VBLANK \in REG_IF
  BY <1>1, TimerRequests, Identifiers
<1>6. SleepInv'
  BY <1>1, <1>2, <1>4 DEF HaltInv, SleepInv
<1>7. VBlankWakes'
  BY <1>1, <1>4, <1>5 DEF HaltInv, VBlankWakes, FrameClocks
<1>8. TimerWakes'
  <2> SUFFICES ASSUME slept # None, WokenByTimer
               PROVE  IF INTERRUPT_TIMER \notin REG_IF'
                      THEN slept + Remaining' <= LongestPeriod
                      ELSE slept <= LongestPeriod
    BY <1>1, <1>4, TimerTypes DEF TimerWakes, HaltInv, SleepInv
  <2>1. slept \in Nat /\ Remaining \in Nat /\ 1 <= Remaining /\ LongestPeriod \in Nat
    BY RemainingBounds, TimerTypes DEF HaltInv, SleepInv
  <2>2. CASE INTERRUPT_TIMER \notin REG_IF
    <3>1. slept + Remaining <= LongestPeriod + 1
      BY <1>1, <2>2 DEF HaltInv, TimerWakes
    <3>2. IF INTERRUPT_TIMER \in REG_IF' THEN Remaining = 1 ELSE Remaining' = Remaining - 1
      BY <1>1, <2>2, TimerCounts DEF WokenByTimer, HaltInv
    <3> QED
      BY <2>1, <3>1, <3>2
  <2>3. CASE INTERRUPT_TIMER \in REG_IF
    <3>1. INTERRUPT_TIMER \in REG_IF'
      BY <1>1, <2>3, TimerRequests
    <3>2. slept <= LongestPeriod
      BY <1>1, <2>3 DEF HaltInv, TimerWakes
    <3> QED
      BY <3>1, <3>2
  <2> QED
    BY <2>2, <2>3
<1> QED
  BY <1>6, <1>7, <1>8

\* The processor's clock: it falls asleep, ends the HALT instruction, sleeps
\* on with nothing pending, or is awake.
LEMMA ProcessorKeepsHalt ==
  ASSUME HaltInv, TimerInv', BeamInv', HProcessor
  PROVE  SleepInv' /\ VBlankWakes' /\ TimerWakes'
<1> USE DEF None
<1>1. ProcessorClock /\ phase = "cpu" /\ phase' = "ppu"
  BY DEF HProcessor, ProcessorClock
<1>2. slept' = IF ~Sleeps' THEN None ELSE IF slept = None THEN 0 ELSE slept
  BY DEF HProcessor
<1>3. CASE ~Sleeps'
  BY <1>1, <1>2, <1>3 DEF SleepInv, VBlankWakes, TimerWakes
<1>4. CASE Sleeps' /\ slept # None
  <2>1. halted /\ halted' /\ slept \in Nat /\ slept' = slept
    BY <1>2, <1>4 DEF HaltInv, SleepInv, Sleeps
  <2>2. ~crashed /\ busyCycles \in 0 .. 1 /\ (busyCycles = 1 => slept = 1)
    BY <1>1, <1>4 DEF HaltInv, SleepInv
  <2>3. /\ UNCHANGED <<tcuVars, ppuVars, crashed, REG_IE, REG_IF>>
        /\ \/ busyCycles # 0 /\ busyCycles' = busyCycles - 1
           \/ busyCycles = 0 /\ busyCycles' = busyCycles /\ cpu!pending = {}
    BY <1>1, <2>1, <2>2, HaltedStep
  <2>4. UNCHANGED <<clockCount, REG_TIMA, REG_TMA, timerEnabled, rateSelector,
                    mode, LY, currentLineClockCounter>>
    BY <2>3 DEF tcuVars, ppuVars
  <2>5. /\ WokenByVBlank' <=> WokenByVBlank
        /\ WokenByTimer' <=> WokenByTimer
        /\ FrameClock' = FrameClock /\ LongestPeriod' = LongestPeriod /\ Remaining' = Remaining
    BY <2>3, <2>4 DEF WokenByVBlank, WokenByTimer, FrameClock, LongestPeriod, Remaining, Rate,
       tcu!currentTIMARate
  <2>6. busyCycles' = 0 /\ (cpu!pending # {} => slept = 1)
    BY <2>2, <2>3
  <2>7. SleepInv'
    BY <1>1, <1>2, <1>4, <2>1, <2>2, <2>3, <2>6 DEF SleepInv
  <2>8. VBlankWakes'
    <3> SUFFICES ASSUME WokenByVBlank
                 PROVE  IF INTERRUPT_VBLANK \notin REG_IF THEN slept <= FrameClock ELSE slept <= 1
      BY <1>1, <2>1, <2>3, <2>5 DEF VBlankWakes
    <3>1. INTERRUPT_VBLANK \in REG_IF => slept = 1
      BY <2>6 DEF WokenByVBlank, cpu!pending
    <3> QED
      BY <1>4, <2>1, <3>1 DEF HaltInv, VBlankWakes
  <2>9. TimerWakes'
    <3> SUFFICES ASSUME WokenByTimer
                 PROVE  IF INTERRUPT_TIMER \notin REG_IF
                        THEN slept + Remaining <= LongestPeriod + 0 ELSE slept <= 1
      BY <1>1, <2>1, <2>3, <2>5 DEF TimerWakes
    <3>1. INTERRUPT_TIMER \in REG_IF => slept = 1
      BY <2>6 DEF WokenByTimer, cpu!pending
    <3> QED
      BY <1>1, <1>4, <2>1, <3>1 DEF HaltInv, TimerWakes
  <2> QED
    BY <2>7, <2>8, <2>9
<1>5. CASE Sleeps' /\ slept = None
  <2>1. slept' = 0 /\ halted' /\ ~Sleeps
    BY <1>2, <1>5 DEF Sleeps, HaltInv, SleepInv
  <2>2. ~halted /\ ~crashed' /\ busyCycles' = 1
    <3>1. CASE halted /\ crashed
      <4>1. UNCHANGED <<halted, REG_IE>> /\ UNCHANGED tcuVars
        BY <1>1, <3>1 DEF ProcessorClock, StoreInstruction, cpu!machineClock, cpu!CrashedClock,
           cpu!BusyClock, cpu!DispatchInterrupt, cpu!WakeUp, cpu!HaltedClock,
           cpu!executeCurrentInstruction, cpu!vars
      <4>2. timerEnabled' = timerEnabled
        BY <4>1 DEF tcuVars
      <4> QED
        BY <1>5, <2>1, <4>1, <4>2 DEF Sleeps, WokenByVBlank, WokenByTimer
    <3>2. CASE halted /\ ~crashed
      <4>1. UNCHANGED <<tcuVars, REG_IE>>
        BY <1>1, <2>1, <3>2, HaltedStep
      <4>2. timerEnabled' = timerEnabled
        BY <4>1 DEF tcuVars
      <4> QED
        BY <1>5, <2>1, <3>2, <4>1, <4>2 DEF Sleeps, WokenByVBlank, WokenByTimer
    <3>3. CASE ~halted
      BY <1>1, <2>1, <3>3, FallsAsleep
    <3> QED
      BY <3>1, <3>2, <3>3
  <2>3. SleepInv'
    BY <1>1, <1>5, <2>1, <2>2 DEF SleepInv
  <2>4. VBlankWakes'
    <3>1. FrameClock' \in Nat
      <4>1. (BeamInv => FrameClock \in Nat)'
        BY BeamTypes, PTL
      <4> QED
        BY <4>1
    <3> QED
      BY <1>1, <2>1, <3>1 DEF VBlankWakes
  <2>5. TimerWakes'
    <3>1. Remaining' \in Nat /\ Remaining' <= LongestPeriod' /\ LongestPeriod' \in Nat
      <4>1. (TimerInv => /\ Remaining \in Nat /\ LongestPeriod \in Nat
                         /\ 1 <= Remaining /\ Remaining <= LongestPeriod)'
        BY RemainingBounds, PTL
      <4> QED
        BY <4>1
    <3>2. \A x, y \in Nat : x <= y => 0 + x <= y + 0 /\ 0 <= 1
      OBVIOUS
    <3>3. phase' # "tcu" /\ phase' = "ppu"
      BY <1>1
    <3> QED
      BY <2>1, <3>1, <3>2, <3>3, Zenon DEF TimerWakes
  <2> QED
    BY <2>3, <2>4, <2>5
<1> QED
  BY <1>3, <1>4, <1>5

\* The picture's clock, which the sleep is counted by.
LEMMA PictureKeepsHalt ==
  ASSUME HaltInv, HPicture
  PROVE  SleepInv' /\ VBlankWakes' /\ TimerWakes'
<1> USE DEF None
<1>1. PictureClock /\ phase = "ppu" /\ phase' = "tcu"
  BY DEF HPicture, PictureClock
<1>2. slept' = IF slept = None THEN None ELSE slept + 1
  BY DEF HPicture
<1>3. UNCHANGED <<halted, crashed, busyCycles, REG_IE>>
  BY <1>1, OthersRequest
<1>4. UNCHANGED <<clockCount, REG_TIMA, REG_TMA, timerEnabled, rateSelector>>
  BY <1>1 DEF PictureClock, tcuVars
<1>5. /\ WokenByVBlank' <=> WokenByVBlank
      /\ WokenByTimer' <=> WokenByTimer
      /\ Sleeps' <=> Sleeps
      /\ LongestPeriod' = LongestPeriod /\ Remaining' = Remaining
  BY <1>3, <1>4 DEF WokenByVBlank, WokenByTimer, Sleeps, LongestPeriod, Remaining, Rate,
     tcu!currentTIMARate
<1>6. CASE slept = None
  BY <1>1, <1>2, <1>5, <1>6 DEF HaltInv, SleepInv, VBlankWakes, TimerWakes
<1>7. CASE slept # None
  <2>1. slept \in Nat /\ slept' = slept + 1 /\ slept' # None
    BY <1>2, <1>7 DEF HaltInv, SleepInv
  <2>2. SleepInv'
    BY <1>1, <1>3, <1>5, <1>7, <2>1 DEF HaltInv, SleepInv
  <2>3. VBlankWakes'
    <3> SUFFICES ASSUME WokenByVBlank
                 PROVE  IF INTERRUPT_VBLANK \notin REG_IF' THEN slept + 1 <= FrameClock'
                        ELSE slept + 1 <= FrameClocks
      BY <1>1, <1>5, <2>1 DEF VBlankWakes, FrameClocks
    <3>1. INTERRUPT_VBLANK \in REG_IF' <=> INTERRUPT_VBLANK \in REG_IF \/ EntersVBlank
      BY <1>1, OthersRequest
    <3>2. FrameClock \in Nat /\ FrameClocks \in Nat /\ FrameClocks > 1
      BY BeamTypes DEF HaltInv
    <3>3. IF EntersVBlank THEN FrameClock + 1 = FrameClocks ELSE FrameClock' = FrameClock + 1
      BY <1>1, PictureCounts DEF HaltInv
    <3>4. IF INTERRUPT_VBLANK \notin REG_IF THEN slept <= FrameClock ELSE slept <= 1
      BY <1>1, <1>7 DEF HaltInv, VBlankWakes
    <3> QED
      BY <2>1, <3>1, <3>2, <3>3, <3>4
  <2>4. TimerWakes'
    <3> SUFFICES ASSUME WokenByTimer
                 PROVE  IF INTERRUPT_TIMER \notin REG_IF'
                        THEN slept + 1 + Remaining <= LongestPeriod + 1
                        ELSE slept + 1 <= LongestPeriod
      BY <1>1, <1>5, <2>1 DEF TimerWakes
    <3>1. INTERRUPT_TIMER \in REG_IF' <=> INTERRUPT_TIMER \in REG_IF
      BY <1>1, PictureRequests, Identifiers
    <3>2. Remaining \in Nat /\ LongestPeriod \in Nat /\ LongestPeriod > 1
      BY RemainingBounds, TimerTypes DEF HaltInv
    <3>3. IF INTERRUPT_TIMER \notin REG_IF THEN slept + Remaining <= LongestPeriod + 0
          ELSE slept <= 1
      BY <1>1, <1>7 DEF HaltInv, TimerWakes
    <3> QED
      BY <2>1, <3>1, <3>2, <3>3
  <2> QED
    BY <2>2, <2>3, <2>4
<1> QED
  BY <1>6, <1>7

LEMMA ReportKeepsHalt ==
  ASSUME HaltInv, HReport
  PROVE  SleepInv' /\ VBlankWakes' /\ TimerWakes'
<1>1. ReportControls /\ UNCHANGED <<phase, slept, halted, crashed, busyCycles, REG_IE>>
  BY OthersRequest DEF HReport, ReportControls
<1>2. UNCHANGED <<clockCount, REG_TIMA, timerEnabled, rateSelector, LY, currentLineClockCounter>>
  BY <1>1 DEF ReportControls, tcuVars, ppuVars
<1>3. /\ INTERRUPT_VBLANK \in REG_IF' <=> INTERRUPT_VBLANK \in REG_IF
      /\ INTERRUPT_TIMER \in REG_IF' <=> INTERRUPT_TIMER \in REG_IF
  BY <1>1, Identifiers DEF ReportControls, joypad!setJoypad
<1> QED
  BY <1>1, <1>2, <1>3 DEF HaltInv, SleepInv, VBlankWakes, TimerWakes, Sleeps, WokenByVBlank,
     WokenByTimer, FrameClock, FrameClocks, LongestPeriod, Remaining, Rate, tcu!currentTIMARate

LEMMA HaltStep == HaltInv /\ [HNext]_hvars => HaltInv'
<1> SUFFICES ASSUME HaltInv, [HNext]_hvars PROVE HaltInv'
  OBVIOUS
<1>1. BeamInv' /\ TimerInv'
  BY BeamInvStep, TimerInvStep, HistoryObserves DEF HaltInv
<1>2. CASE HTimer \/ HProcessor \/ HPicture \/ HReport
  BY <1>1, <1>2, TimerKeepsHalt, ProcessorKeepsHalt, PictureKeepsHalt, ReportKeepsHalt DEF HaltInv
<1>3. CASE UNCHANGED hvars
  <2>1. UNCHANGED <<phase, tcuVars, cpuVars, ppuVars, REG_IF, slept>>
    BY <1>3 DEF hvars, vars
  <2> QED
    BY <1>1, <2>1 DEF tcuVars, cpuVars, ppuVars, HaltInv, SleepInv, VBlankWakes, TimerWakes, Sleeps,
       WokenByVBlank, WokenByTimer, FrameClock, FrameClocks, LongestPeriod, Remaining, Rate,
       tcu!currentTIMARate
<1> QED
  BY <1>2, <1>3 DEF HNext, HClock

LEMMA InitHalt == HInit => HaltInv
<1> SUFFICES ASSUME HInit PROVE HaltInv
  OBVIOUS
<1>1. BeamInv
  BY VBlankAssumption DEF HInit, Init, ppu!Init, BeamInv
<1>2. TimerInv
  BY PeriodAssumption DEF HInit, Init, tcu!Init, TimerInv, tcu!Byte, tcu!RateSelector
<1>3. phase = "tcu" /\ slept = None /\ ~Sleeps
  BY DEF HInit, Init, cpu!Init, Sleeps
<1> QED
  BY <1>1, <1>2, <1>3 DEF HaltInv, SleepInv, VBlankWakes, TimerWakes

\* A program that halts with the V-Blank interrupt enabled goes on within a
\* frame, and one that halts with the timer's enabled and the timer running
\* goes on within the timer's longest period, whatever else is enabled,
\* requested or taken, and on a picture and a timer of any size.
THEOREM HaltEnds == HSpec => []HaltEndsInTime
<1>1. HaltInv => HaltEndsInTime
  <2> SUFFICES ASSUME HaltInv, slept # None PROVE HaltEndsInTime
    BY DEF HaltEndsInTime
  <2>1. slept \in Nat
    BY DEF HaltInv, SleepInv
  <2>2. ASSUME WokenByVBlank PROVE slept <= FrameClocks
    <3>1. FrameClock \in Nat /\ FrameClocks \in Nat /\ FrameClocks > 1 /\ FrameClock < FrameClocks
      BY BeamTypes DEF HaltInv
    <3> QED
      BY <2>1, <2>2, <3>1 DEF HaltInv, VBlankWakes
  <2>3. ASSUME WokenByTimer PROVE slept <= LongestPeriod
    <3>1. Remaining \in Nat /\ 1 <= Remaining /\ LongestPeriod \in Nat /\ LongestPeriod > 1
      BY RemainingBounds, TimerTypes DEF HaltInv
    <3> QED
      BY <2>1, <2>3, <3>1 DEF HaltInv, TimerWakes
  <2> QED
    BY <2>2, <2>3 DEF HaltEndsInTime
<1> QED
  BY <1>1, InitHalt, HaltStep, PTL DEF HSpec

-----------------------------------------------------------------------------
(* The components in the machine: each behaves as its module says.         *)

\* STAT is requested only if the program enables a source of it.
SourcesOK == statEnable # {} => INTERRUPT_STAT \in Interrupts

LEMMA StepSources == SourcesOK /\ [Next]_vars => SourcesOK'
<1> SUFFICES ASSUME SourcesOK, [Next]_vars PROVE SourcesOK'
  OBVIOUS
<1>1. CASE UNCHANGED statEnable
  BY <1>1 DEF SourcesOK
<1>2. ASSUME NEW enable \in StatWrites, statEnable' = enable PROVE SourcesOK'
  BY <1>2, MachineAssumption DEF SourcesOK
<1>3. ASSUME UNCHANGED ppuVars PROVE UNCHANGED statEnable
  BY <1>3 DEF ppuVars
<1>4. CASE TimerClock \/ ReportControls
  <2>1. UNCHANGED ppuVars
    BY <1>4 DEF TimerClock, ReportControls
  <2> QED
    BY <1>1, <1>3, <2>1
<1>5. CASE ProcessorClock
  <2>1. CASE UNCHANGED ppuVars
    BY <1>1, <1>3, <2>1
  <2>2. CASE StoreToPPU
    <3>1. CASE \E enable \in StatWrites : ppu!WriteSTAT(enable)
      BY <1>2, <3>1 DEF ppu!WriteSTAT
    <3>2. CASE \E value \in LycWrites : ppu!WriteLYC(value)
      BY <1>1, <3>2 DEF ppu!WriteLYC
    <3> QED
      BY <2>2, <3>1, <3>2 DEF StoreToPPU
  <2> QED
    BY <1>5, <2>1, <2>2 DEF ProcessorClock, StoreInstruction, StoreToTimer
<1>6. CASE PictureClock
  <2>1. UNCHANGED ppu!cpuRegs
    BY <1>6 DEF PictureClock, ppu!machineClock, ppu!OamScanClock, ppu!DrawCurrentLine,
       ppu!DrawingClock, ppu!EnterHBlank, ppu!BlankClock, ppu!EndLine
  <2> QED
    BY <1>1, <2>1 DEF ppu!cpuRegs
<1>7. CASE UNCHANGED vars
  BY <1>1, <1>3, <1>7 DEF vars
<1> QED
  BY <1>4, <1>5, <1>6, <1>7 DEF Next, machineClock

LEMMA InitSources == Init => SourcesOK
  BY DEF Init, ppu!Init, SourcesOK

\* The processor sees the others as requests between its clocks.
LEMMA ProcessorStep ==
  ASSUME SourcesOK, [Next]_vars
  PROVE  [cpu!Next]_(cpu!vars)
<1>1. CASE TimerClock \/ PictureClock \/ ReportControls
  <2>1. UNCHANGED <<PC, SP, memory, IME, halted, crashed, busyCycles, REG_IE>>
    BY <1>1, OthersRequest
  <2>2. PICK ids \in SUBSET {INTERRUPT_VBLANK, INTERRUPT_STAT, INTERRUPT_TIMER, INTERRUPT_JOYPAD} :
          /\ REG_IF' = REG_IF \cup ids
          /\ INTERRUPT_STAT \in ids => statEnable # {}
    BY <1>1, OthersRequest
  <2>3. ids \in SUBSET Interrupts
    BY <2>2, MachineAssumption DEF SourcesOK
  <2>4. cpu!RequestInterrupt(ids)
    BY <2>1, <2>2 DEF cpu!RequestInterrupt, cpu!stackVars
  <2> QED
    BY <2>3, <2>4 DEF cpu!Next
<1>2. CASE StoreInstruction
  <2>1. [bytes |-> 2, cycles |-> cpu!getBusyCycles.LDH_in_A] \in cpu!OrdinaryInstructions
    BY Cycles DEF cpu!OrdinaryInstructions
  <2>2. cpu!ExecuteOpcode
    BY <1>2, <2>1 DEF StoreInstruction, cpu!ExecuteOpcode
  <2>3. cpu!executeCurrentInstruction
    BY <1>2, <2>2 DEF StoreInstruction, cpu!executeCurrentInstruction
  <2> QED
    BY <2>3 DEF cpu!Next, cpu!machineClock
<1>3. CASE cpu!machineClock
  BY <1>3 DEF cpu!Next
<1>4. CASE UNCHANGED vars
  BY <1>4 DEF vars, cpuVars, cpu!vars, cpu!stackVars
<1> QED
  BY <1>1, <1>2, <1>3, <1>4 DEF Next, machineClock, ProcessorClock

\* The others leave the timer's registers and its interrupt alone, or do to
\* them what a program may.
LEMMA TimerStep ==
  ASSUME [Next]_vars
  PROVE  [TimerAlone!Next]_(TimerAlone!vars)
<1> DEFINE flags == REG_IF' \cap {INTERRUPT_TIMER}
<1> USE DEF TimerAlone!tacVars, TimerAlone!vars
<1>1. ASSUME UNCHANGED tcuVars
      PROVE  UNCHANGED <<clockCount, REG_DIV, REG_TIMA, REG_TMA, timerEnabled, rateSelector>>
  BY <1>1 DEF tcuVars
<1>2. CASE TimerClock
  <2>1. tcu!machineClock
    BY <1>2 DEF TimerClock
  <2>2. tcu!incrementTIMA => TimerAlone!incrementTIMA
    BY Identifiers DEF tcu!incrementTIMA, TimerAlone!incrementTIMA, TimerAlone!INTERRUPT_TIMER
  <2>3. TimerAlone!machineClock
    BY <2>1, <2>2 DEF tcu!machineClock, TimerAlone!machineClock, tcu!tacVars,
       tcu!ticks, TimerAlone!ticks, tcu!currentTIMARate, TimerAlone!currentTIMARate,
       tcu!incrementDIV, TimerAlone!incrementDIV
  <2> QED
    BY <2>3 DEF TimerAlone!Next
<1>3. CASE PictureClock \/ ReportControls
  <2>1. UNCHANGED tcuVars
    BY <1>3 DEF PictureClock, ReportControls
  <2>2. flags = REG_IF \cap {INTERRUPT_TIMER}
    <3>1. CASE PictureClock
      BY <3>1, PictureRequests, Identifiers
    <3>2. CASE ReportControls
      BY <3>2, Identifiers DEF ReportControls, joypad!setJoypad
    <3> QED
      BY <1>3, <3>1, <3>2
  <2> QED
    BY <1>1, <2>1, <2>2
<1>4. CASE UNCHANGED tcuVars /\ ProcessorClock
  <2>1. flags \in SUBSET {TimerAlone!INTERRUPT_TIMER}
    BY Identifiers DEF TimerAlone!INTERRUPT_TIMER
  <2>2. TimerAlone!WriteIF(flags)
    BY <1>1, <1>4 DEF TimerAlone!WriteIF
  <2>3. TimerAlone!CpuAccess
    BY <2>1, <2>2 DEF TimerAlone!CpuAccess
  <2> QED
    BY <2>3 DEF TimerAlone!Next
<1>5. CASE StoreInstruction /\ StoreToTimer
  <2>1. REG_IF' = REG_IF
    BY <1>5 DEF StoreInstruction, cpu!ExecuteOrdinary
  <2>2. TimerAlone!CpuAccess
    <3> USE DEF tcu!tacVars
    <3>1. CASE tcu!WriteDIV
      BY <2>1, <3>1 DEF tcu!WriteDIV, TimerAlone!WriteDIV, TimerAlone!CpuAccess
    <3>2. CASE \E value \in TimaWrites : tcu!WriteTIMA(value)
      BY <2>1, <3>2 DEF tcu!WriteTIMA, TimerAlone!WriteTIMA, TimerAlone!CpuAccess
    <3>3. CASE \E value \in TmaWrites : tcu!WriteTMA(value)
      BY <2>1, <3>3 DEF tcu!WriteTMA, TimerAlone!WriteTMA, TimerAlone!CpuAccess
    <3>4. CASE \E enabled \in BOOLEAN, selector \in Rates : tcu!WriteTAC(enabled, selector)
      BY <2>1, <3>4, MachineAssumption
      DEF tcu!WriteTAC, TimerAlone!WriteTAC, TimerAlone!CpuAccess, tcu!RateSelector,
          TimerAlone!RateSelector
    <3> QED
      BY <1>5, <3>1, <3>2, <3>3, <3>4 DEF StoreToTimer
  <2> QED
    BY <2>2 DEF TimerAlone!Next
<1>6. CASE UNCHANGED vars
  BY <1>1, <1>6 DEF vars
<1> QED
  BY <1>2, <1>3, <1>4, <1>5, <1>6
  DEF Next, machineClock, ProcessorClock, StoreInstruction, StoreToPPU

\* The PPU next to the others, clock by clock.
LEMMA PictureStep ==
  ASSUME ppu!machineClock
  PROVE  PPUAlone!machineClock
<1> USE DEF ppu!CountClock, PPUAlone!CountClock, ppu!cpuRegs, PPUAlone!cpuRegs,
            ppu!statVars, PPUAlone!statVars
<1>1. CASE ppu!OamScanClock
  <2>1. ppu!ScanTwoSprites => PPUAlone!ScanTwoSprites
    BY DEF ppu!ScanTwoSprites, PPUAlone!ScanTwoSprites,
       ppu!addSpriteToBufferIfNeeded, PPUAlone!addSpriteToBufferIfNeeded,
       ppu!OnCurrentLine, PPUAlone!OnCurrentLine, ppu!getSpriteHeight, PPUAlone!getSpriteHeight
  <2>2. PPUAlone!OamScanClock
    BY <1>1, <2>1 DEF ppu!OamScanClock, PPUAlone!OamScanClock
  <2> QED
    BY <2>2 DEF PPUAlone!machineClock
<1>2. CASE ppu!DrawCurrentLine
  <2>1. PPUAlone!DrawCurrentLine
    BY <1>2 DEF ppu!DrawCurrentLine, PPUAlone!DrawCurrentLine,
       ppu!flushLineToScreenBuffer, PPUAlone!flushLineToScreenBuffer
  <2> QED
    BY <2>1 DEF PPUAlone!machineClock
<1>3. CASE ppu!DrawingClock
  <2>1. PPUAlone!DrawingClock
    BY <1>3 DEF ppu!DrawingClock, PPUAlone!DrawingClock
  <2> QED
    BY <2>1 DEF PPUAlone!machineClock
<1>4. CASE ppu!EnterHBlank
  <2> DEFINE ids == ppu!StatIf(ppu!tryRequestSTATInterrupt(ppu!asksSTAT("H_BLANK")))
  <2>1. ids = PPUAlone!StatIf(PPUAlone!tryRequestSTATInterrupt(PPUAlone!asksSTAT("H_BLANK")))
    BY Identifiers DEF ppu!StatIf, PPUAlone!StatIf, PPUAlone!INTERRUPT_STAT, ppu!asksSTAT,
       PPUAlone!asksSTAT, ppu!tryRequestSTATInterrupt, PPUAlone!tryRequestSTATInterrupt
  <2>2. REG_IF' = REG_IF \cup ids
    BY <1>4 DEF ppu!EnterHBlank, ppu!requestInterrupts
  <2>3. ids \subseteq {INTERRUPT_STAT}
    BY Identifiers DEF ppu!StatIf
  <2> HIDE DEF ids
  <2>4. PPUAlone!requestInterrupts(ids)
    BY <2>2, <2>3 DEF PPUAlone!requestInterrupts
  <2>5. PPUAlone!EnterHBlank
    BY <1>4, <2>1, <2>4 DEF ppu!EnterHBlank, PPUAlone!EnterHBlank, ppu!asksSTAT, PPUAlone!asksSTAT
  <2> QED
    BY <2>5 DEF PPUAlone!machineClock
<1>5. CASE ppu!BlankClock
  <2>1. PPUAlone!BlankClock
    BY <1>5 DEF ppu!BlankClock, PPUAlone!BlankClock
  <2> QED
    BY <2>1 DEF PPUAlone!machineClock
<1>6. CASE ppu!EndLine
  <2> DEFINE newMode == ppu!ModeAfter(LY)
             lycAsks == ppu!LineAfter(LY) = LYC /\ ppu!asksSTAT("LYC")
             asks == (newMode # mode /\ ppu!asksSTAT(newMode)) \/ lycAsks
             ids == ppu!StatIf(ppu!tryRequestSTATInterrupt(asks))
                      \cup (IF newMode = "V_BLANK" /\ mode # "V_BLANK"
                            THEN {INTERRUPT_VBLANK} ELSE {})
  <2>1. /\ PPUAlone!LineAfter(LY) = ppu!LineAfter(LY) /\ PPUAlone!ModeAfter(LY) = ppu!ModeAfter(LY)
        /\ PPUAlone!FrameAfter(LY) = ppu!FrameAfter(LY)
        /\ PPUAlone!FilterAfter(lycAsks) = ppu!FilterAfter(lycAsks)
        /\ PPUAlone!asksSTAT(newMode) = ppu!asksSTAT(newMode)
        /\ PPUAlone!asksSTAT("LYC") = ppu!asksSTAT("LYC")
    BY DEF ppu!LineAfter, PPUAlone!LineAfter, ppu!ModeAfter, PPUAlone!ModeAfter, ppu!FrameAfter,
       PPUAlone!FrameAfter, ppu!FilterAfter, PPUAlone!FilterAfter, ppu!asksSTAT, PPUAlone!asksSTAT
  <2>2. PPUAlone!StatIf(PPUAlone!tryRequestSTATInterrupt(asks)) =
          ppu!StatIf(ppu!tryRequestSTATInterrupt(asks))
    BY Identifiers DEF ppu!StatIf, PPUAlone!StatIf, PPUAlone!INTERRUPT_STAT,
       ppu!tryRequestSTATInterrupt, PPUAlone!tryRequestSTATInterrupt
  <2>3. ppu!StatIf(ppu!tryRequestSTATInterrupt(asks)) \subseteq {INTERRUPT_STAT}
    BY Identifiers DEF ppu!StatIf
  <2>4. REG_IF' = REG_IF \cup ids
    BY <1>6, Identifiers DEF ppu!EndLine, ppu!lineEndLogic, ppu!requestInterrupts
  <2>5. PPUAlone!requestInterrupts(ids)
    BY <2>3, <2>4 DEF PPUAlone!requestInterrupts
  <2>6. PPUAlone!INTERRUPT_VBLANK = INTERRUPT_VBLANK
    BY DEF PPUAlone!INTERRUPT_VBLANK, INTERRUPT_VBLANK
  <2>7. /\ currentLineClockCounter' = 0 /\ LY' = ppu!LineAfter(LY) /\ mode' = newMode
        /\ frameCount' = ppu!FrameAfter(LY) /\ lycFlag' = lycAsks
        /\ STATAlreadyRequestedThisLine' = ppu!FilterAfter(lycAsks)
    BY <1>6, Zenon DEF ppu!EndLine, ppu!lineEndLogic
  <2>8. PPUAlone!lineEndLogic
    BY <2>1, <2>2, <2>5, <2>6, <2>7, Zenon DEF PPUAlone!lineEndLogic
  <2>9. PPUAlone!EndLine
    BY <1>6, <2>8 DEF ppu!EndLine, PPUAlone!EndLine
  <2> QED
    BY <2>9 DEF PPUAlone!machineClock
<1> QED
  BY <1>1, <1>2, <1>3, <1>4, <1>5, <1>6 DEF ppu!machineClock

\* The others leave the registers of the PPU and its interrupts alone, or do
\* to them what a program may.
LEMMA BeamStep ==
  ASSUME [Next]_vars
  PROVE  [PPUAlone!Next]_(PPUAlone!vars)
<1> DEFINE Own == {INTERRUPT_VBLANK, INTERRUPT_STAT}
           flags == REG_IF' \cap Own
<1> USE DEF PPUAlone!vars, PPUAlone!beamVars, PPUAlone!statVars, PPUAlone!cpuRegs
<1>1. ASSUME UNCHANGED ppuVars
      PROVE  UNCHANGED <<mode, statEnable, lycFlag, LY, LYC, currentLineClockCounter,
                         STATAlreadyRequestedThisLine, frameCount, OAM, spriteSize,
                         OAMLineBuffer, screenBuffer>>
  BY <1>1 DEF ppuVars
<1>2. CASE PictureClock
  BY <1>2, PictureStep DEF PictureClock, PPUAlone!Next
<1>3. CASE TimerClock \/ ReportControls
  <2>1. UNCHANGED ppuVars
    BY <1>3 DEF TimerClock, ReportControls
  <2>2. flags = REG_IF \cap Own
    <3>1. CASE TimerClock
      BY <3>1, TimerRequests, Identifiers
    <3>2. CASE ReportControls
      BY <3>2, Identifiers DEF ReportControls, joypad!setJoypad
    <3> QED
      BY <1>3, <3>1, <3>2
  <2> QED
    BY <1>1, <2>1, <2>2
<1>4. CASE UNCHANGED ppuVars /\ ProcessorClock
  <2>1. flags \in SUBSET {PPUAlone!INTERRUPT_VBLANK, PPUAlone!INTERRUPT_STAT}
    BY Identifiers DEF PPUAlone!INTERRUPT_VBLANK, PPUAlone!INTERRUPT_STAT
  <2>2. PPUAlone!WriteIF(flags)
    BY <1>1, <1>4 DEF PPUAlone!WriteIF
  <2>3. PPUAlone!CpuAccess
    BY <2>1, <2>2 DEF PPUAlone!CpuAccess
  <2> QED
    BY <2>3 DEF PPUAlone!Next
<1>5. CASE StoreInstruction /\ StoreToPPU
  <2>1. REG_IF' = REG_IF
    BY <1>5 DEF StoreInstruction, cpu!ExecuteOrdinary
  <2>2. PPUAlone!CpuAccess
    <3> USE DEF ppu!beamVars, ppu!statVars
    <3>1. CASE \E enable \in StatWrites : ppu!WriteSTAT(enable)
      BY <2>1, <3>1 DEF ppu!WriteSTAT, PPUAlone!WriteSTAT, PPUAlone!CpuAccess
    <3>2. CASE \E value \in LycWrites : ppu!WriteLYC(value)
      BY <2>1, <3>2 DEF ppu!WriteLYC, PPUAlone!WriteLYC, PPUAlone!CpuAccess
    <3> QED
      BY <1>5, <3>1, <3>2 DEF StoreToPPU
  <2> QED
    BY <2>2 DEF PPUAlone!Next
<1>6. CASE UNCHANGED vars
  BY <1>1, <1>6 DEF vars
<1> QED
  BY <1>2, <1>3, <1>4, <1>5, <1>6
  DEF Next, machineClock, ProcessorClock, StoreInstruction, StoreToTimer

LEMMA InitFits == Init => TimerAlone!Init /\ PPUAlone!Init /\ cpu!Init
  BY DEF Init, tcu!Init, TimerAlone!Init, ppu!Init, PPUAlone!Init, PPUAlone!SpriteNumber,
     ppu!SpriteNumber

\* The timer unit, the PPU and the processor each keep, next to the others, to
\* what the module that models them alone allows them and the others: whatever
\* holds of every behaviour of such a module holds of the machine.
THEOREM MachineFits ==
  Spec => /\ TimerAlone!Init /\ [][TimerAlone!Next]_(TimerAlone!vars)
          /\ PPUAlone!Init /\ [][PPUAlone!Next]_(PPUAlone!vars)
          /\ cpu!Init /\ [][cpu!Next]_(cpu!vars)
<1>1. Init => TimerAlone!Init /\ PPUAlone!Init /\ cpu!Init /\ SourcesOK
  BY InitFits, InitSources
<1>2. SourcesOK /\ [Next]_vars => SourcesOK'
  BY StepSources
<1>3. SourcesOK /\ [Next]_vars =>
        [TimerAlone!Next]_(TimerAlone!vars) /\ [PPUAlone!Next]_(PPUAlone!vars) /\ [cpu!Next]_(cpu!vars)
  BY TimerStep, BeamStep, ProcessorStep
<1> QED
  BY <1>1, <1>2, <1>3, PTL DEF Spec
-----------------------------------------------------------------------------
(* The picture of the machine is that of the abstract beam.                *)

Picture == INSTANCE Raster WITH
  FrameWrap <- 1, line <- LY, column <- currentLineClockCounter, frame <- frameCount,
  painted <- screenBuffer, vblankRequested <- INTERRUPT_VBLANK \in REG_IF

PictureInv == BeamInv /\ frameCount = 0

\* Every clock of the picture is a step of the beam.
LEMMA PictureMovesBeam ==
  ASSUME PictureInv, PictureClock
  PROVE  Picture!Sweep \/ Picture!Retrace
<1> USE VBlankAssumption
<1>a. /\ mode = Picture!ModeAt(LY, currentLineClockCounter)
      /\ mode' = Picture!ModeAt(LY', currentLineClockCounter')
      /\ currentLineClockCounter' \in 0 .. LineEnd - 1
  BY PictureCounts DEF PictureInv, BeamInv, Picture!ModeAt
<1>b. /\ LY \in 0 .. TotalLines - 1 /\ currentLineClockCounter \in 0 .. LineEnd - 1
      /\ TotalLines \in Nat /\ frameCount = 0
  BY BeamTypes DEF PictureInv, BeamInv
<1>c. (INTERRUPT_VBLANK \in REG_IF)' <=> (INTERRUPT_VBLANK \in REG_IF \/ EntersVBlank)
  BY PictureRequests
<1>1. CASE ppu!OamScanClock \/ ppu!DrawCurrentLine \/ ppu!DrawingClock \/ ppu!EnterHBlank
           \/ ppu!BlankClock
  <2>1. /\ currentLineClockCounter' = currentLineClockCounter + 1
        /\ LY' = LY /\ frameCount' = frameCount
    BY <1>1 DEF ppu!OamScanClock, ppu!DrawCurrentLine, ppu!DrawingClock, ppu!EnterHBlank,
       ppu!BlankClock, ppu!CountClock
  <2>2. ~EntersVBlank
    BY <1>1 DEF EntersVBlank, ppu!OamScanClock, ppu!DrawCurrentLine, ppu!DrawingClock,
       ppu!EnterHBlank, ppu!BlankClock
  <2>3. screenBuffer' = IF LY < VisibleLines /\ currentLineClockCounter = OamEnd
                        THEN [screenBuffer EXCEPT ![LY] = frameCount]
                        ELSE screenBuffer
    BY <1>a, <1>b, <1>1 DEF ppu!OamScanClock, ppu!DrawCurrentLine, ppu!DrawingClock,
       ppu!EnterHBlank, ppu!BlankClock, ppu!flushLineToScreenBuffer, Picture!ModeAt
  <2>4. currentLineClockCounter + 1 < LineEnd
    BY <1>a, <1>b, <2>1
  <2>5. Picture!Sweep
    BY <1>a, <1>c, <2>1, <2>2, <2>3, <2>4 DEF Picture!Sweep
  <2> QED
    BY <2>5
<1>2. CASE ppu!EndLine
  <2>1. /\ currentLineClockCounter + 1 = LineEnd /\ currentLineClockCounter' = 0
        /\ LY' = ppu!LineAfter(LY) /\ frameCount' = ppu!FrameAfter(LY)
        /\ screenBuffer' = screenBuffer
    BY <1>2 DEF ppu!EndLine, ppu!lineEndLogic
  <2>2. LY' = IF LY + 1 = TotalLines THEN 0 ELSE LY + 1
    BY <1>b, <2>1 DEF ppu!LineAfter
  <2>3. frameCount' = IF LY' = 0 THEN Picture!NextFrame(frameCount) ELSE frameCount
    BY <1>b, <2>1, <2>2 DEF ppu!FrameAfter, Picture!NextFrame
  <2>4. EntersVBlank <=> LY' = VisibleLines
    BY <1>a, <1>b, <2>1, <2>2 DEF EntersVBlank, Picture!ModeAt
  <2>5. Picture!Retrace
    BY <1>a, <1>c, <2>1, <2>2, <2>3, <2>4 DEF Picture!Retrace
  <2> QED
    BY <2>5
<1> QED
  BY <1>1, <1>2 DEF PictureClock, ppu!machineClock

\* The machine shows the raster: whatever the program stores and is
\* interrupted by, each clock moves the beam once, after the turn of the
\* processor, and everything else can only take or forge the V-Blank request.
THEOREM MachineShowsRaster == Spec => Picture!Init /\ [][Picture!Next]_(Picture!vars)
<1>1. Init => Picture!Init /\ PictureInv
  BY VBlankAssumption DEF Init, ppu!Init, Picture!Init, Picture!ModeAt, PictureInv, BeamInv,
     INTERRUPT_VBLANK
<1>2. PictureInv /\ [Next]_vars => PictureInv' /\ [Picture!Next]_(Picture!vars)
  <2> SUFFICES ASSUME PictureInv, [Next]_vars PROVE PictureInv' /\ [Picture!Next]_(Picture!vars)
    OBVIOUS
  <2>1. BeamInv'
    BY BeamInvStep DEF PictureInv
  <2>2. CASE PictureClock
    <3>1. Picture!Sweep \/ Picture!Retrace
      BY <2>2, PictureMovesBeam
    <3>2. frameCount' = 0
      BY <3>1 DEF PictureInv, Picture!Sweep, Picture!Retrace, Picture!NextFrame
    <3> QED
      BY <2>1, <3>1, <3>2 DEF PictureInv, Picture!Next
  <2>3. CASE ~PictureClock
    <3>1. UNCHANGED <<mode, LY, currentLineClockCounter, frameCount, screenBuffer>>
      <4>1. StoreToPPU => UNCHANGED <<mode, LY, currentLineClockCounter, frameCount, screenBuffer>>
        BY DEF StoreToPPU, ppu!WriteSTAT, ppu!WriteLYC, ppu!beamVars
      <4>2. UNCHANGED ppuVars => UNCHANGED <<mode, LY, currentLineClockCounter, frameCount, screenBuffer>>
        BY DEF ppuVars
      <4> QED
        BY <2>3, <4>1, <4>2 DEF Next, machineClock, ProcessorClock, StoreInstruction, StoreToTimer,
           TimerClock, ReportControls, vars
    <3>2. (INTERRUPT_VBLANK \in REG_IF)' \in BOOLEAN
      OBVIOUS
    <3>3. Picture!Program
      BY <3>1, <3>2 DEF Picture!Program
    <3> QED
      BY <2>1, <3>1, <3>3 DEF PictureInv, Picture!Next
  <2> QED
    BY <2>2, <2>3
<1> QED
  BY <1>1, <1>2, PTL DEF Spec
=============================================================================
