-------------------------- MODULE TimerProperties --------------------------
(***************************************************************************)
(* Correctness of the timer unit.  The history variable counts the clocks  *)
(* since the unit last requested the interrupt; it is -1 before the first  *)
(* request and once TIMA, TMA or TAC has been changed since.               *)
(***************************************************************************)
EXTENDS TimerController

VARIABLE sinceRequest

hvars == <<vars, sinceRequest>>

\* Clocks from one overflow to the next.
Period == (ByteSize - REG_TMA) * currentTIMARate

Requests == INTERRUPT_TIMER \notin REG_IF /\ INTERRUPT_TIMER \in REG_IF'
timerRegs == <<REG_TIMA, REG_TMA, tacVars>>

HInit == Init /\ sinceRequest = -1

\* An overflow that is due while the last request is still pending cannot be
\* seen in IF; the count starts again all the same.
HClock ==
  /\ machineClock
  /\ sinceRequest' = IF Requests \/ sinceRequest + 1 = Period THEN 0
                     ELSE IF sinceRequest = -1 THEN -1 ELSE sinceRequest + 1

HAccess ==
  /\ CpuAccess
  /\ sinceRequest' = IF UNCHANGED timerRegs THEN sinceRequest ELSE -1

HNext == HClock \/ HAccess
HSpec == HInit /\ [][HNext]_hvars /\ WF_hvars(HClock)

-----------------------------------------------------------------------------
\* While the program leaves TIMA, TMA and TAC alone, the interrupt is
\* requested exactly every (256 - TMA) * rate clocks: never early, never late.
TimerPeriodExact ==
  [][(HClock /\ sinceRequest # -1 /\ INTERRUPT_TIMER \notin REG_IF)
       => (Requests <=> sinceRequest + 1 = Period)]_hvars

\* "DIV timer increments at a fixed rate of once every 64 machine clocks"
\* (timer-controller.hpp:22): between stores to it, DIV runs with the quotient
\* of the clock counter, through the wrap-around of either.
Boundaries == clockCount \div DIV_RATE
DivFollowsClock ==
  [][HClock => (REG_DIV' - Boundaries') % ByteSize = (REG_DIV - Boundaries) % ByteSize]_hvars

\* A timer that is left running keeps requesting its interrupt, whatever
\* register values it was left with.
LeftRunning == <>[]timerEnabled /\ <>[][HClock \/ UNCHANGED timerRegs]_hvars
TimerKeepsFiring == LeftRunning => []<>(INTERRUPT_TIMER \in REG_IF)
=============================================================================
