--------------------------- MODULE CPUProperties ---------------------------
(***************************************************************************)
(* Correctness of the processor's control, with three history variables    *)
(* that only observe.                                                      *)
(***************************************************************************)
EXTENDS CPU

VARIABLES
  waiting,   \* clocks an acceptable interrupt has been kept waiting
  charged,   \* cycles charged for the last thing started; 0 before the first
             \* and across HALT
  elapsed    \* clocks since then

timing == <<charged, elapsed>>
hvars == <<vars, waiting, timing>>

Starts == executeCurrentInstruction \/ DispatchInterrupt
Acceptable == IME /\ pending # {} /\ ~crashed

HInit == Init /\ waiting = 0 /\ charged = 0 /\ elapsed = 0

HClock ==
  /\ machineClock
  /\ waiting' = IF Acceptable /\ ~DispatchInterrupt THEN waiting + 1 ELSE 0
  /\ IF crashed' \/ halted \/ halted' THEN charged' = 0 /\ elapsed' = 0
     ELSE IF busyCycles = 0 THEN charged' = busyCycles' /\ elapsed' = 1
     ELSE elapsed' = elapsed + 1 /\ UNCHANGED charged

HRequest == /\ \E ids \in SUBSET Interrupts : RequestInterrupt(ids)
            /\ UNCHANGED <<waiting, timing>>

HNext == HClock \/ HRequest
HSpec == HInit /\ [][HNext]_hvars /\ WF_hvars(HClock)

-----------------------------------------------------------------------------
\* The stack's memory read as 16-bit frames, innermost first.
Frames == [i \in 1 .. (StackBytes - SP) \div 2 |->
             twoWordToDword(memory[SP + 2 * i - 1], memory[SP + 2 * i - 2])]

Stack == INSTANCE CallStack WITH
  Space <- AddressSpace,
  Vectors <- {INTERRUPT_JUMP_ADDRESSES[i] : i \in INTERRUPT_ID},
  pc <- PC, frames <- Frames, ime <- IME

\* Word by word through memory, calls, returns, PUSH, POP and interrupts at
\* any instruction boundary keep a last-in-first-out stack, and an interrupt
\* returns to the very instruction it displaced.
ImplementsCallStack == Stack!Spec

\* A request leaves IF only by a store of the program, or because exactly
\* that interrupt was dispatched: it was enabled, the master switch was on,
\* and execution is at its handler.
Stores == executeCurrentInstruction /\ \E flags \in SUBSET Interrupts : ExecuteStoreIF(flags)
RequestsLeaveByDispatch ==
  [][\A i \in REG_IF \ REG_IF' :
       \/ Stores
       \/ /\ IME /\ ~IME' /\ i \in REG_IE
          /\ PC' = INTERRUPT_JUMP_ADDRESSES[i]
          /\ REG_IF \ REG_IF' = {i}
          /\ \A j \in pending : i <= j]_hvars

\* An acceptable interrupt waits at most for the longest instruction.
DispatchLatency == waiting <= getBusyCycles.CALL

\* The V-Blank request is never starved: a program that keeps V-Blank enabled
\* and interrupts coming back on has each request taken, even if it turns
\* them off again in the very next instruction.
VBlankTaken ==
  ([]~crashed /\ <>[](INTERRUPT_VBLANK \in REG_IE) /\ []<>IME)
    => (INTERRUPT_VBLANK \in REG_IF ~> INTERRUPT_VBLANK \notin REG_IF)

\* "execution is still delayed by the correct amount of cycles" (README.md:31):
\* the next thing starts as many clocks after the last as getBusyCycles says it
\* "is supposed to take" (cpu.hpp:165), and a dispatch "takes 5 machine cycles"
\* (cpu.cpp:312).
DelayedByCycles == [][(HClock /\ Starts /\ charged # 0) => elapsed = charged]_hvars
=============================================================================
