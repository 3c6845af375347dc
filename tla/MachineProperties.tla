------------------------- MODULE MachineProperties -------------------------
(***************************************************************************)
(* Correctness of the components together, with three history variables    *)
(* that only observe.                                                      *)
(***************************************************************************)
EXTENDS Machine

\* V-Blank lasts longer than the longest instruction: ten lines of 114 clocks.
ASSUME VBlankAssumption ==
  /\ {OamEnd, DrawEnd, LineEnd, VisibleLines, TotalLines} \subseteq Nat
  /\ 0 < OamEnd /\ OamEnd + 1 < DrawEnd /\ DrawEnd < LineEnd
  /\ 0 < VisibleLines /\ VisibleLines < TotalLines
  /\ cpu!getBusyCycles.CALL < (TotalLines - VisibleLines) * LineEnd

\* The timer's registers, its rates and the clock counter behind it; even the
\* fastest timer takes more than one clock from one overflow to the next.
ASSUME PeriodAssumption ==
  /\ ByteSize \in Nat \ {0} /\ ClockWrap \in Nat \ {0}
  /\ TIMA_RATES \in [tcu!RateSelector -> Nat \ {0}]
  /\ \A s \in tcu!RateSelector :
       ClockWrap % TIMA_RATES[s] = 0 /\ 1 < ByteSize * TIMA_RATES[s]
  /\ TimaWrites \cup TmaWrites \subseteq tcu!Byte

VARIABLES
  vblankAge,   \* clocks since the V-Blank began whose interrupt the processor
               \* has been free to take ever since and has not taken; or None
  taken,       \* V-Blank interrupts taken since the last V-Blank began, at
               \* most 2; None once the program has requested one itself
  slept        \* clocks the processor has been halted, with the V-Blank or
               \* the running timer to wake it; None if it is not

None == -1
hvars == <<vars, vblankAge, taken, slept>>

EntersVBlank == mode # "V_BLANK" /\ mode' = "V_BLANK"
FreeToTake == ~crashed' /\ IME' /\ INTERRUPT_VBLANK \in REG_IE' \cap REG_IF'
\* The program requests V-Blank itself, by a store to IF.
Forges == INTERRUPT_VBLANK \in REG_IF' \ REG_IF
TakesVBlank == cpu!DispatchInterrupt /\ cpu!chosen = INTERRUPT_VBLANK

WokenByVBlank == INTERRUPT_VBLANK \in REG_IE
WokenByTimer == INTERRUPT_TIMER \in REG_IE /\ timerEnabled
Sleeps == halted /\ (WokenByVBlank \/ WokenByTimer)

\* Clocks in a frame, and the longest the running timer takes to overflow.
FrameClocks == TotalLines * LineEnd
LongestPeriod == ByteSize * tcu!currentTIMARate

HInit == Init /\ vblankAge = None /\ taken = 0 /\ slept = None

HTimer == TimerClock /\ UNCHANGED <<vblankAge, taken, slept>>

HProcessor ==
  /\ ProcessorClock
  /\ vblankAge' = IF FreeToTake THEN vblankAge ELSE None
  /\ taken' = IF taken # None /\ TakesVBlank THEN (IF taken = 0 THEN 1 ELSE 2)
              ELSE IF Forges THEN None
              ELSE taken
  /\ slept' = IF ~Sleeps' THEN None ELSE IF slept = None THEN 0 ELSE slept

HPicture ==
  /\ PictureClock
  /\ vblankAge' = IF EntersVBlank /\ FreeToTake THEN 0
                  ELSE IF vblankAge = None THEN None ELSE vblankAge + 1
  /\ taken' = IF EntersVBlank THEN 0 ELSE taken
  /\ slept' = IF slept = None THEN None ELSE slept + 1

HReport == ReportControls /\ UNCHANGED <<vblankAge, taken, slept>>

HClock == HTimer \/ HProcessor \/ HPicture
HNext == HClock \/ HReport
HSpec == HInit /\ [][HNext]_hvars /\ WF_hvars(HClock)

-----------------------------------------------------------------------------
\* The program's V-Blank handler starts while the picture is not being drawn:
\* a processor that accepts the interrupt reaches it within the longest
\* instruction, which ends well before V-Blank does.
HandlerStartsInVBlank ==
  vblankAge # None => mode = "V_BLANK" /\ vblankAge <= cpu!getBusyCycles.CALL

\* One V-Blank, one interrupt: whatever the program enables, disables and
\* acknowledges, its handler runs at most once for every V-Blank.
OneHandlerPerVBlank == taken <= 1

\* A program that halts until the next frame, or until the timer fires, goes
\* on by then: the other components keep the time while the processor sleeps,
\* and the request that wakes it is not lost, whether or not it is taken.
HaltEndsInTime ==
  slept # None =>
    /\ WokenByVBlank => slept <= FrameClocks
    /\ WokenByTimer => slept <= LongestPeriod
=============================================================================
