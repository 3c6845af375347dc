-------------------------- MODULE TimerController --------------------------
(***************************************************************************)
(* The timer unit (src/src/TimerController/timer-controller.cpp): one      *)
(* counter of machine clocks drives the DIV register and, at a rate chosen *)
(* by TAC, the TIMA register, whose overflow requests an interrupt.        *)
(* Definitions named Mut_... are mistakes used to test the properties.     *)
(***************************************************************************)
EXTENDS Types, Integers

CONSTANTS
  ByteSize,    \* 2^8:  values of a register
  ClockWrap,   \* 2^64: clockCount is an unsigned long long
  DIV_RATE,    \* 64
  TIMA_RATES,  \* <<256, 4, 16, 64>>, indexed from 0
  BootDIV,     \* 0x18: DIV as skipBoot leaves it
  TimaWrites, TmaWrites   \* values the program stores in TIMA and TMA

Byte == 0 .. ByteSize - 1
RateSelector == 0 .. 3

ASSUME RatesAssumption ==
  /\ ByteSize \in Nat \ {0} /\ DIV_RATE \in Nat \ {0}
  /\ TIMA_RATES \in [RateSelector -> Nat \ {0}]
  /\ ClockWrap \in Nat \ {0}
  /\ ClockWrap % (DIV_RATE * ByteSize) = 0
  /\ \A s \in RateSelector : ClockWrap % TIMA_RATES[s] = 0
  /\ BootDIV \in Byte /\ TimaWrites \subseteq Byte /\ TmaWrites \subseteq Byte

VARIABLES
  clockCount,
  REG_DIV, REG_TIMA, REG_TMA,
  timerEnabled, rateSelector,   \* bits 2 and 1-0 of TAC
  REG_IF

tacVars == <<timerEnabled, rateSelector>>
vars == <<clockCount, REG_DIV, REG_TIMA, REG_TMA, tacVars, REG_IF>>

TypeOK ==
  /\ clockCount \in 0 .. ClockWrap - 1
  /\ {REG_DIV, REG_TIMA, REG_TMA} \subseteq Byte
  /\ timerEnabled \in BOOLEAN
  /\ rateSelector \in RateSelector
  /\ REG_IF \in SUBSET INTERRUPT_ID

\* Through the boot ROM, or past it with skipBoot.
Init ==
  /\ clockCount = 0
  /\ REG_DIV \in {0, BootDIV}
  /\ REG_TIMA = 0 /\ REG_TMA = 0
  /\ timerEnabled = FALSE /\ rateSelector = 0
  /\ REG_IF = {}

-----------------------------------------------------------------------------
currentTIMARate == TIMA_RATES[rateSelector]

Mut_AnyClock(count, rate) == TRUE
ticks(count, rate) == count % rate = 0

Mut_WiderDIV == REG_DIV' = REG_DIV + 1
incrementDIV == REG_DIV' = (REG_DIV + 1) % ByteSize

Mut_ReloadZero ==
  IF REG_TIMA # ByteSize - 1
  THEN REG_TIMA' = REG_TIMA + 1 /\ UNCHANGED REG_IF
  ELSE REG_TIMA' = 0 /\ REG_IF' = REG_IF \cup {INTERRUPT_TIMER}

Mut_StopAtMax ==
  IF REG_TIMA # ByteSize - 1
  THEN REG_TIMA' = REG_TIMA + 1 /\ UNCHANGED REG_IF
  ELSE UNCHANGED <<REG_TIMA, REG_IF>>

Mut_OverwriteRequests ==
  IF REG_TIMA # ByteSize - 1
  THEN REG_TIMA' = REG_TIMA + 1 /\ UNCHANGED REG_IF
  ELSE REG_TIMA' = REG_TMA /\ REG_IF' = {INTERRUPT_TIMER}

\* An overflow reloads TMA and requests the interrupt.
incrementTIMA ==
  IF REG_TIMA # ByteSize - 1
  THEN REG_TIMA' = REG_TIMA + 1 /\ UNCHANGED REG_IF
  ELSE REG_TIMA' = REG_TMA /\ REG_IF' = REG_IF \cup {INTERRUPT_TIMER}

machineClock ==
  /\ clockCount' = (clockCount + 1) % ClockWrap
  /\ \/ ticks(clockCount', DIV_RATE) /\ incrementDIV
     \/ ~ticks(clockCount', DIV_RATE) /\ UNCHANGED REG_DIV
  /\ \/ timerEnabled /\ ticks(clockCount', currentTIMARate) /\ incrementTIMA
     \/ /\ ~(timerEnabled /\ ticks(clockCount', currentTIMARate))
        /\ UNCHANGED <<REG_TIMA, REG_IF>>
  /\ UNCHANGED <<REG_TMA, tacVars>>

-----------------------------------------------------------------------------
(* Stores by the program.  Any store to DIV clears it; the clock counter   *)
(* behind it is not a register and keeps its value.                        *)

WriteDIV ==
  /\ REG_DIV' = 0
  /\ UNCHANGED <<clockCount, REG_TIMA, REG_TMA, tacVars, REG_IF>>

WriteTIMA(value) ==
  /\ REG_TIMA' = value
  /\ UNCHANGED <<clockCount, REG_DIV, REG_TMA, tacVars, REG_IF>>

WriteTMA(value) ==
  /\ REG_TMA' = value
  /\ UNCHANGED <<clockCount, REG_DIV, REG_TIMA, tacVars, REG_IF>>

WriteTAC(enabled, selector) ==
  /\ timerEnabled' = enabled
  /\ rateSelector' = selector
  /\ UNCHANGED <<clockCount, REG_DIV, REG_TIMA, REG_TMA, REG_IF>>

WriteIF(flags) ==
  /\ REG_IF' = flags
  /\ UNCHANGED <<clockCount, REG_DIV, REG_TIMA, REG_TMA, tacVars>>

CpuAccess ==
  \/ WriteDIV
  \/ \E value \in TimaWrites : WriteTIMA(value)
  \/ \E value \in TmaWrites : WriteTMA(value)
  \/ \E enabled \in BOOLEAN, selector \in RateSelector : WriteTAC(enabled, selector)
  \/ \E flags \in SUBSET {INTERRUPT_TIMER} : WriteIF(flags)

Next == machineClock \/ CpuAccess

Spec == Init /\ [][Next]_vars /\ WF_vars(machineClock)
=============================================================================
