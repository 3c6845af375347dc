----------------------------- MODULE CPUProofs -----------------------------
(***************************************************************************)
(* Proofs about the processor, for every word size, stack, set of          *)
(* interrupts and table of handlers.                                       *)
(***************************************************************************)
EXTENDS CPUProperties, SequenceTheorems, TLAPS

\* Interrupts are accepted only while there is room to push a return address.
RoomInv == IME => SP >= 2
CpuInv == TypeOK /\ RoomInv

\* The address space is not empty.
LEMMA AddressSpacePositive == AddressSpace \in Nat /\ AddressSpace > 0
  BY CpuAssumption DEF AddressSpace

\* Fetching an instruction leaves PC, an unsigned dword, in the address space.
LEMMA FetchType == ASSUME TypeOK, NEW n \in 1 .. 3 PROVE popPC(n) \in Address
<1>1. PC + n \in Nat
  BY AddressSpacePositive DEF TypeOK, Address
<1> QED
  BY <1>1, AddressSpacePositive DEF popPC, Address

\* The two halves of an address are words.
LEMMA SplitType ==
  ASSUME NEW value \in Address
  PROVE  dwordMsb(value) \in Word /\ dwordLsb(value) \in Word
  BY CpuAssumption DEF Address, AddressSpace, Word, dwordMsb, dwordLsb

\* Two words make an address.
LEMMA JoinType ==
  ASSUME NEW msb \in Word, NEW lsb \in Word
  PROVE  twoWordToDword(msb, lsb) \in Address
  BY CpuAssumption DEF Address, AddressSpace, Word, twoWordToDword

\* A return address is pushed inside the stack's memory.
LEMMA PushType ==
  ASSUME CpuInv, NEW value \in Address, SP >= 2, push(value)
  PROVE  SP' \in 0 .. StackBytes /\ SP' = SP - 2
         /\ memory' \in [0 .. StackBytes - 1 -> Word]
<1>1. dwordMsb(value) \in Word /\ dwordLsb(value) \in Word
  BY SplitType
<1> QED
  BY <1>1, CpuAssumption DEF CpuInv, TypeOK, push

\* What a return pops is an address.
LEMMA PopType ==
  ASSUME CpuInv, CanPop, popSP
  PROVE  SP' \in 0 .. StackBytes /\ SP' = SP + 2 /\ memory' = memory
         /\ popped \in Address
<1>1. memory[SP + 1] \in Word /\ memory[SP] \in Word
  BY CpuAssumption DEF CpuInv, TypeOK, CanPop
<1>2. popped \in Address
  BY <1>1, JoinType DEF popped
<1> QED
  BY <1>2, CpuAssumption DEF CpuInv, TypeOK, CanPop, popSP

\* Every instruction keeps the types, and room for an interrupt while the
\* master switch is on.
LEMMA ExecuteStep ==
  ASSUME CpuInv, ExecuteOpcode, ~crashed, ~halted
  PROVE  CpuInv'
<1> USE DEF CpuInv, TypeOK, RoomInv
<1> DEFINE Still == UNCHANGED <<stackVars, IME>>
           Flags == UNCHANGED <<halted, crashed, REG_IE, REG_IF>>
<1>1. ASSUME NEW i \in OrdinaryInstructions, ExecuteOrdinary(i) PROVE CpuInv'
  <2>1. i.bytes \in 1 .. 3 /\ i.cycles \in 0 .. 7
    BY <1>1 DEF OrdinaryInstructions
  <2>2. popPC(i.bytes) \in Address
    BY <2>1, FetchType
  <2> QED
    BY <1>1, <2>1, <2>2 DEF ExecuteOrdinary, spend, stackVars, INT_MAX
<1>2. CASE ExecuteUndefined \/ ExecuteHalt
  <2>1. getBusyCycles.UNDEFINED = 7 /\ getBusyCycles.HALT = 1
    BY DEF getBusyCycles, INT_MAX
  <2>2. CASE ExecuteUndefined
    BY <2>1, <2>2, FetchType DEF ExecuteUndefined, spend, stackVars, INT_MAX
  <2>3. CASE ExecuteHalt
    BY <2>1, <2>3, FetchType DEF ExecuteHalt, spend, stackVars, INT_MAX
  <2> QED
    BY <1>2, <2>2, <2>3
<1>3. ASSUME NEW enable \in BOOLEAN, ExecuteSetIME(enable) PROVE CpuInv'
  BY <1>3, FetchType DEF ExecuteSetIME, spend, stackVars, INT_MAX, getBusyCycles, Room
<1>4. ASSUME NEW condition \in BOOLEAN, jr(condition) \/ jpImm(condition) PROVE CpuInv'
  BY <1>4, FetchType DEF jr, jpImm, spend, stackVars, INT_MAX, getBusyCycles
<1>5. ASSUME NEW condition \in BOOLEAN, callImm(condition) PROVE CpuInv'
  <2>1. CASE condition
    <3>1. CanPush /\ push(popPC(3)) /\ PC' \in Address /\ spend(getBusyCycles.CALL)
          /\ UNCHANGED <<IME, halted, crashed, REG_IE, REG_IF>>
      BY <1>5, <2>1 DEF callImm
    <3>2. SP' \in 0 .. StackBytes /\ SP' = SP - 2 /\ memory' \in [0 .. StackBytes - 1 -> Word]
      BY <3>1, FetchType, PushType DEF CanPush
    <3> QED
      BY <3>1, <3>2, CpuAssumption DEF CanPush, Room, spend, INT_MAX, getBusyCycles
  <2>2. CASE ~condition
    BY <1>5, <2>2, FetchType DEF callImm, spend, stackVars, INT_MAX, getBusyCycles
  <2> QED
    BY <2>1, <2>2
<1>6. CASE ExecuteJP_HL
  BY <1>6 DEF ExecuteJP_HL, spend, stackVars, INT_MAX, getBusyCycles
<1>7. CASE ExecuteRST
  <2>1. SP' \in 0 .. StackBytes /\ SP' = SP - 2 /\ memory' \in [0 .. StackBytes - 1 -> Word]
    BY <1>7, FetchType, PushType DEF ExecuteRST, CanPush
  <2> QED
    BY <1>7, <2>1, CpuAssumption DEF ExecuteRST, CanPush, Room, spend, INT_MAX, getBusyCycles
<1>8. ASSUME NEW condition \in BOOLEAN, NEW cycles \in 4 .. 5, ret(condition, cycles)
      PROVE  /\ PC' \in Address /\ busyCycles' \in 0 .. INT_MAX
             /\ SP' \in 0 .. StackBytes /\ SP' >= SP
             /\ memory' \in [0 .. StackBytes - 1 -> Word]
             /\ condition => SP' >= 2
  <2>1. CASE condition
    BY <1>8, <2>1, PopType DEF ret, spend, INT_MAX
  <2>2. CASE ~condition
    BY <1>8, <2>2, FetchType DEF ret, spend, stackVars, INT_MAX
  <2> QED
    BY <2>1, <2>2
<1>9. CASE ExecuteRET
  <2>1. getBusyCycles.RET \in 4 .. 5 /\ getBusyCycles.RET_cc \in 4 .. 5
    BY DEF getBusyCycles
  <2>2. PICK condition \in BOOLEAN, cycles \in 4 .. 5 : ret(condition, cycles)
    BY <1>9, <2>1 DEF ExecuteRET
  <2>3. IME' = IME /\ UNCHANGED <<halted, crashed, REG_IE, REG_IF>>
    BY <1>9 DEF ExecuteRET
  <2>4. /\ PC' \in Address /\ busyCycles' \in 0 .. INT_MAX
        /\ SP' \in 0 .. StackBytes /\ SP' >= SP
        /\ memory' \in [0 .. StackBytes - 1 -> Word]
    BY <1>8, <2>2
  <2> QED
    BY <2>3, <2>4, CpuAssumption
<1>10. CASE ExecuteRETI
  <2>1. getBusyCycles.RETI \in 4 .. 5
    BY DEF getBusyCycles
  <2>2. /\ PC' \in Address /\ busyCycles' \in 0 .. INT_MAX
        /\ SP' \in 0 .. StackBytes /\ SP' >= 2
        /\ memory' \in [0 .. StackBytes - 1 -> Word]
    BY <1>8, <1>10, <2>1 DEF ExecuteRETI
  <2> QED
    BY <1>10, <2>2 DEF ExecuteRETI
<1>11. CASE ExecutePUSH
  <2>1. SP' \in 0 .. StackBytes /\ SP' = SP - 2 /\ memory' \in [0 .. StackBytes - 1 -> Word]
    BY <1>11, PushType DEF ExecutePUSH, CanPush
  <2> QED
    BY <1>11, <2>1, FetchType, CpuAssumption
    DEF ExecutePUSH, CanPush, Room, spend, INT_MAX, getBusyCycles
<1>12. CASE ExecutePOP
  BY <1>12, FetchType, PopType DEF ExecutePOP, spend, INT_MAX, getBusyCycles
<1>13. CASE ExecuteLD_SP_nn
  BY <1>13, FetchType, CpuAssumption DEF ExecuteLD_SP_nn, spend, INT_MAX, getBusyCycles
<1>14. ASSUME NEW flags \in SUBSET Interrupts, ExecuteStoreIE(flags) \/ ExecuteStoreIF(flags)
       PROVE  CpuInv'
  BY <1>14, FetchType, CpuAssumption
  DEF ExecuteStoreIE, ExecuteStoreIF, spend, stackVars, INT_MAX, getBusyCycles
<1> QED
  BY <1>1, <1>2, <1>3, <1>4, <1>5, <1>6, <1>7, <1>9, <1>10, <1>11, <1>12, <1>13, <1>14
  DEF ExecuteOpcode

\* The pending interrupt that is taken is one of the enabled ones, and none
\* of the pending ones comes before it.
LEMMA ChosenIsFirst ==
  ASSUME TypeOK, pending # {}
  PROVE  chosen \in pending /\ \A j \in pending : chosen <= j
<1>1. pending \subseteq 0 .. 4
  BY DEF TypeOK, pending, INTERRUPT_ID, INTERRUPT_VBLANK, INTERRUPT_JOYPAD
<1>2. \E x \in pending : \A y \in pending : x <= y
  <2>1. CASE 0 \in pending
    BY <1>1, <2>1
  <2>2. CASE 0 \notin pending /\ 1 \in pending
    BY <1>1, <2>2
  <2>3. CASE 0 \notin pending /\ 1 \notin pending /\ 2 \in pending
    BY <1>1, <2>3
  <2>4. CASE pending \subseteq {3, 4} /\ 3 \in pending
    BY <2>4
  <2>5. CASE pending \subseteq {4}
    <3>1. pending = {4}
      BY <2>5
    <3> QED
      BY <3>1
  <2>6. pending \subseteq {0, 1, 2, 3, 4}
    BY <1>1
  <2> QED
    BY <2>1, <2>2, <2>3, <2>4, <2>5, <2>6
<1> QED
  BY <1>1, <1>2 DEF chosen, Min

\* Every clock and every request keeps the invariant.
LEMMA CpuInvStep ==
  ASSUME CpuInv, [Next]_vars
  PROVE  CpuInv'
<1> USE DEF CpuInv, TypeOK, RoomInv
<1>1. CASE BusyClock
  BY <1>1 DEF BusyClock, stackVars, INT_MAX
<1>2. CASE DispatchInterrupt
  <2>1. chosen \in INTERRUPT_ID
    BY <1>2, ChosenIsFirst DEF DispatchInterrupt, pending
  <2>2. SP' \in 0 .. StackBytes /\ memory' \in [0 .. StackBytes - 1 -> Word]
    BY <1>2, PushType DEF DispatchInterrupt, triggerInterrupt
  <2>3. PC' \in Address
    BY <1>2, <2>1, CpuAssumption DEF DispatchInterrupt, triggerInterrupt
  <2>4. REG_IF' \in SUBSET INTERRUPT_ID /\ REG_IE' \in SUBSET INTERRUPT_ID
    BY <1>2 DEF DispatchInterrupt, triggerInterrupt, acknowledged
  <2>5. busyCycles' \in 0 .. INT_MAX /\ IME' = FALSE /\ halted' = FALSE /\ crashed' = crashed
    BY <1>2 DEF DispatchInterrupt, triggerInterrupt, spend, INT_MAX
  <2> QED
    BY <2>2, <2>3, <2>4, <2>5
<1>3. CASE WakeUp
  BY <1>3 DEF WakeUp, stackVars
<1>4. CASE executeCurrentInstruction
  BY <1>4, ExecuteStep DEF executeCurrentInstruction
<1>5. ASSUME NEW ids \in SUBSET Interrupts, RequestInterrupt(ids) PROVE CpuInv'
  BY <1>5, CpuAssumption DEF RequestInterrupt, stackVars
<1>6. CASE CrashedClock \/ HaltedClock \/ UNCHANGED vars
  BY <1>6 DEF CrashedClock, HaltedClock, vars, stackVars
<1> QED
  BY <1>1, <1>2, <1>3, <1>4, <1>5, <1>6 DEF Next, machineClock

\* The state skipBoot leaves is a good one.
LEMMA InitCpuInv == Init => CpuInv
<1>1. 0 \in Word /\ INTERRUPT_VBLANK \in INTERRUPT_ID
  BY CpuAssumption DEF Word, INTERRUPT_ID, INTERRUPT_VBLANK, INTERRUPT_JOYPAD
<1>2. ASSUME Init PROVE memory \in [0 .. StackBytes - 1 -> Word]
  BY <1>1, <1>2 DEF Init
<1>3. ASSUME Init PROVE REG_IE \in SUBSET INTERRUPT_ID /\ REG_IF \in SUBSET INTERRUPT_ID
  BY <1>1, <1>3 DEF Init
<1>4. ASSUME Init PROVE PC \in Address /\ SP \in 0 .. StackBytes /\ busyCycles \in 0 .. INT_MAX
  BY <1>4, CpuAssumption DEF Init, INT_MAX
<1>5. ASSUME Init PROVE {IME, halted, crashed} \subseteq BOOLEAN /\ RoomInv
  BY <1>5 DEF Init, RoomInv
<1> QED
  BY <1>2, <1>3, <1>4, <1>5 DEF CpuInv, TypeOK

\* The registers, the stack pointer and the busy counter stay in range
\* whatever the program, CPU::machineClock included.
THEOREM TypeCorrect == Spec => []TypeOK
<1>1. Init => CpuInv
  BY InitCpuInv
<1>2. CpuInv /\ [Next]_vars => CpuInv'
  BY CpuInvStep
<1>3. CpuInv => TypeOK
  BY DEF CpuInv
<1> QED
  BY <1>1, <1>2, <1>3, PTL DEF Spec

-----------------------------------------------------------------------------
\* The observed processor takes the processor's steps.
LEMMA ObservedSteps == HNext => Next
  BY DEF HNext, HClock, HRequest, Next

\* So the invariant holds of the observed processor too.
LEMMA ObservedInv == HSpec => []CpuInv
<1>1. HInit => CpuInv
  BY InitCpuInv DEF HInit
<1>2. CpuInv /\ [HNext]_hvars => CpuInv'
  BY CpuInvStep, ObservedSteps DEF hvars
<1> QED
  BY <1>1, <1>2, PTL DEF HSpec

\* An instruction that changes IF is a store to it.
LEMMA OnlyStoresChangeIF ==
  ASSUME ExecuteOpcode, REG_IF' # REG_IF
  PROVE  \E flags \in SUBSET Interrupts : ExecuteStoreIF(flags)
  BY DEF ExecuteOpcode, ExecuteOrdinary, ExecuteUndefined, ExecuteHalt, ExecuteSetIME, jr, jpImm,
         callImm, ExecuteJP_HL, ExecuteRST, ExecuteRET, ExecuteRETI, ExecutePUSH, ExecutePOP,
         ExecuteLD_SP_nn, ExecuteStoreIE

\* CPU::triggerInterrupt clears the bit of the interrupt it serves and no
\* other; nothing but a store of the program clears any bit otherwise.
THEOREM RequestsLeave == HSpec => RequestsLeaveByDispatch
<1> DEFINE Leaves(i) == \/ Stores
                        \/ /\ IME /\ ~IME' /\ i \in REG_IE
                           /\ PC' = INTERRUPT_JUMP_ADDRESSES[i]
                           /\ REG_IF \ REG_IF' = {i}
                           /\ \A j \in pending : i <= j
<1>1. ASSUME CpuInv, HNext, NEW i \in REG_IF \ REG_IF'
      PROVE  Leaves(i)
  <2>1. CASE DispatchInterrupt
    <3>1. chosen \in pending /\ \A j \in pending : chosen <= j
      BY <1>1, <2>1, ChosenIsFirst DEF CpuInv, DispatchInterrupt
    <3>2. REG_IF' = REG_IF \ {chosen} /\ IME /\ IME' = FALSE
          /\ PC' = INTERRUPT_JUMP_ADDRESSES[chosen]
      BY <2>1 DEF DispatchInterrupt, triggerInterrupt, acknowledged
    <3>3. i = chosen
      BY <1>1, <3>2
    <3>4. REG_IF \ REG_IF' = {i} /\ i \in REG_IE
      BY <3>1, <3>2, <3>3 DEF pending
    <3> QED
      BY <3>1, <3>2, <3>3, <3>4
  <2>2. CASE executeCurrentInstruction
    BY <1>1, <2>2, OnlyStoresChangeIF DEF executeCurrentInstruction, Stores
  <2>3. CASE CrashedClock \/ BusyClock \/ WakeUp \/ HaltedClock
    BY <1>1, <2>3 DEF CrashedClock, BusyClock, WakeUp, HaltedClock, vars
  <2>4. CASE \E ids \in SUBSET Interrupts : RequestInterrupt(ids)
    BY <1>1, <2>4 DEF RequestInterrupt
  <2> QED
    BY <1>1, <2>1, <2>2, <2>3, <2>4, ObservedSteps DEF Next, machineClock
<1>2. CpuInv /\ [HNext]_hvars => [\A i \in REG_IF \ REG_IF' : Leaves(i)]_hvars
  BY <1>1
<1> QED
  BY <1>2, ObservedInv, PTL DEF HSpec, RequestsLeaveByDispatch

-----------------------------------------------------------------------------
\* No instruction that leaves the processor running is charged more cycles
\* than a taken CALL.
LEMMA LongestInstruction ==
  ASSUME ExecuteOpcode, ~crashed'
  PROVE  busyCycles' \in 0 .. 6
<1> USE DEF spend, getBusyCycles
<1>1. ASSUME NEW i \in OrdinaryInstructions, ExecuteOrdinary(i) PROVE busyCycles' \in 0 .. 6
  BY <1>1 DEF ExecuteOrdinary, OrdinaryInstructions
<1>2. CASE ExecuteUndefined
  BY <1>2 DEF ExecuteUndefined
<1>3. CASE ExecuteHalt \/ ExecuteJP_HL \/ ExecuteRST
  BY <1>3 DEF ExecuteHalt, ExecuteJP_HL, ExecuteRST
<1>4. ASSUME NEW enable \in BOOLEAN, ExecuteSetIME(enable) PROVE busyCycles' \in 0 .. 6
  BY <1>4 DEF ExecuteSetIME
<1>5. ASSUME NEW condition \in BOOLEAN, jr(condition) \/ jpImm(condition) \/ callImm(condition)
      PROVE  busyCycles' \in 0 .. 6
  BY <1>5 DEF jr, jpImm, callImm
<1>6. ASSUME NEW condition \in BOOLEAN, NEW cycles \in 4 .. 5, ret(condition, cycles)
      PROVE  busyCycles' \in 0 .. 6
  BY <1>6 DEF ret
<1>7. CASE ExecuteRET \/ ExecuteRETI
  <2>1. {getBusyCycles.RET, getBusyCycles.RET_cc, getBusyCycles.RETI} \subseteq 4 .. 5
    OBVIOUS
  <2>2. \E condition \in BOOLEAN, cycles \in 4 .. 5 : ret(condition, cycles)
    BY <1>7, <2>1, Zenon DEF ExecuteRET, ExecuteRETI
  <2> QED
    BY <1>6, <2>2
<1>8. CASE ExecutePUSH \/ ExecutePOP \/ ExecuteLD_SP_nn
  BY <1>8 DEF ExecutePUSH, ExecutePOP, ExecuteLD_SP_nn
<1>9. ASSUME NEW flags \in SUBSET Interrupts, ExecuteStoreIE(flags) \/ ExecuteStoreIF(flags)
      PROVE  busyCycles' \in 0 .. 6
  BY <1>9 DEF ExecuteStoreIE, ExecuteStoreIF
<1> QED
  BY <1>1, <1>2, <1>3, <1>4, <1>5, <1>7, <1>8, <1>9 DEF ExecuteOpcode

\* What an interrupt has waited and what the running instruction still takes
\* never exceed the longest instruction together: the first grows by one
\* exactly on the clocks on which the second shrinks.
LatencyInv ==
  /\ waiting \in 0 .. 6
  /\ ~crashed => waiting + busyCycles <= 6

\* One clock, one request or a stutter keeps that budget.
LEMMA LatencyStep ==
  ASSUME CpuInv, LatencyInv, [HNext]_hvars
  PROVE  LatencyInv'
<1> USE DEF CpuInv, TypeOK, LatencyInv, INT_MAX
<1>1. CASE HRequest
  BY <1>1 DEF HRequest, RequestInterrupt
<1>2. CASE UNCHANGED hvars
  BY <1>2 DEF hvars, vars
<1>3. CASE HClock /\ BusyClock
  <2>1. waiting' = 0 \/ waiting' = waiting + 1
    BY <1>3 DEF HClock
  <2>2. ~crashed /\ busyCycles \in 1 .. INT_MAX /\ busyCycles' = busyCycles - 1 /\ crashed' = crashed
    BY <1>3 DEF BusyClock
  <2> QED
    BY <2>1, <2>2
<1>4. ASSUME HClock, ~BusyClock PROVE waiting' = 0
  BY <1>4 DEF HClock, machineClock, Acceptable, CrashedClock, WakeUp, HaltedClock, executeCurrentInstruction
<1>5. CASE HClock /\ DispatchInterrupt
  BY <1>4, <1>5 DEF DispatchInterrupt, triggerInterrupt, spend, BusyClock
<1>6. CASE HClock /\ executeCurrentInstruction
  BY <1>4, <1>6, LongestInstruction DEF executeCurrentInstruction, BusyClock
<1>7. CASE HClock /\ (CrashedClock \/ WakeUp \/ HaltedClock)
  BY <1>4, <1>7 DEF CrashedClock, WakeUp, HaltedClock, BusyClock, vars
<1> QED
  BY <1>1, <1>2, <1>3, <1>5, <1>6, <1>7 DEF HNext, HClock, machineClock

\* CPU::machineClock tries interrupts before it fetches, so an acceptable one
\* is kept waiting by at most the instruction that was running.
THEOREM LatencyBound == HSpec => []DispatchLatency
<1>1. HInit => LatencyInv
  BY DEF HInit, Init, LatencyInv
<1>2. CpuInv /\ LatencyInv /\ [HNext]_hvars => LatencyInv'
  BY LatencyStep
<1>3. LatencyInv => DispatchLatency
  BY DEF LatencyInv, DispatchLatency, getBusyCycles
<1> QED
  BY <1>1, <1>2, <1>3, ObservedInv, PTL DEF HSpec

-----------------------------------------------------------------------------
(* The stack of frames.                                                    *)

\* The stack pointer is always between two frames.
StackInv == CpuInv /\ SP % 2 = 0

LEMMA PlainSequences ==
  ASSUME NEW S, NEW n \in Nat, NEW f \in [1 .. n -> S]
  PROVE  /\ f \in Seq(S) /\ Len(f) = n
         /\ n = 0 => f = << >>
         /\ n # 0 => /\ f # << >> /\ Head(f) = f[1]
                     /\ Tail(f) = [i \in 1 .. n - 1 |-> f[i + 1]]
         /\ \A v \in S : <<v>> \o f = [i \in 1 .. n + 1 |-> IF i = 1 THEN v ELSE f[i - 1]]
<1>1. f \in Seq(S) /\ Len(f) = n
  OBVIOUS
<1>2. n = 0 => f = << >>
  BY <1>1
<1>3. ASSUME n # 0
      PROVE  f # << >> /\ Head(f) = f[1] /\ Tail(f) = [i \in 1 .. n - 1 |-> f[i + 1]]
  <2>1. f # << >> /\ Head(f) = f[1]
    BY <1>1, <1>3
  <2>2. /\ Tail(f) \in Seq(S) /\ Len(Tail(f)) = n - 1
        /\ \A i \in 1 .. n - 1 : Tail(f)[i] = f[i + 1]
    BY <1>1, <2>1, HeadTailProperties
  <2>3. Tail(f) \in [1 .. n - 1 -> S]
    BY <2>2, LenProperties
  <2>4. Tail(f) = [i \in 1 .. n - 1 |-> Tail(f)[i]]
    BY <2>3
  <2> QED
    BY <2>1, <2>2, <2>4
<1>4. ASSUME NEW v \in S
      PROVE  <<v>> \o f = [i \in 1 .. n + 1 |-> IF i = 1 THEN v ELSE f[i - 1]]
  BY <1>1
<1> QED
  BY <1>1, <1>2, <1>3, <1>4

\* The words of a frame, put together again.
LEMMA SplitJoin ==
  ASSUME NEW value \in Address
  PROVE  twoWordToDword(dwordMsb(value), dwordLsb(value)) = value
  BY CpuAssumption DEF Address, AddressSpace, twoWordToDword, dwordMsb, dwordLsb

Depth == (StackBytes - SP) \div 2

LEMMA FramesType ==
  ASSUME StackInv
  PROVE  /\ Depth \in Nat /\ Frames \in [1 .. Depth -> Address]
         /\ SP + 2 * Depth = StackBytes
<1>1. SP \in 0 .. StackBytes /\ SP % 2 = 0 /\ StackBytes % 2 = 0 /\ StackBytes \in Nat
  BY CpuAssumption DEF StackInv, CpuInv, TypeOK
<1>2. Depth \in Nat /\ SP + 2 * Depth = StackBytes
  BY <1>1 DEF Depth
<1>3. ASSUME NEW i \in 1 .. Depth
      PROVE  twoWordToDword(memory[SP + 2 * i - 1], memory[SP + 2 * i - 2]) \in Address
  <2>1. SP + 2 * i - 1 \in 0 .. StackBytes - 1 /\ SP + 2 * i - 2 \in 0 .. StackBytes - 1
    BY <1>1, <1>2
  <2>2. memory[SP + 2 * i - 1] \in Word /\ memory[SP + 2 * i - 2] \in Word
    BY <2>1 DEF StackInv, CpuInv, TypeOK
  <2> QED
    BY <2>2, JoinType
<1> QED
  BY <1>2, <1>3 DEF Frames, Depth

\* Pushing puts a frame before the others.
LEMMA PushFrame ==
  ASSUME StackInv, NEW value \in Address, SP >= 2, push(value)
  PROVE  Frames' = <<value>> \o Frames /\ (SP % 2 = 0)'
<1>1. SP \in 0 .. StackBytes /\ SP % 2 = 0 /\ StackBytes \in Nat /\ SP' = SP - 2
      /\ memory \in [0 .. StackBytes - 1 -> Word]
  BY CpuAssumption DEF StackInv, CpuInv, TypeOK, push
<1>2. Depth \in Nat /\ SP + 2 * Depth = StackBytes /\ Frames \in [1 .. Depth -> Address]
  BY FramesType
<1>3. (StackBytes - SP') \div 2 = Depth + 1
  BY <1>1, <1>2
<1>4. /\ memory'[SP - 1] = dwordMsb(value) /\ memory'[SP - 2] = dwordLsb(value)
      /\ \A a \in SP .. StackBytes - 1 : memory'[a] = memory[a]
  BY <1>1 DEF push
<1>5. ASSUME NEW i \in 1 .. Depth + 1
      PROVE  twoWordToDword(memory'[SP' + 2 * i - 1], memory'[SP' + 2 * i - 2])
               = IF i = 1 THEN value ELSE Frames[i - 1]
  <2>1. CASE i = 1
    <3>1. SP' + 2 * i - 1 = SP - 1 /\ SP' + 2 * i - 2 = SP - 2
      BY <1>1, <2>1
    <3> QED
      BY <1>4, <2>1, <3>1, SplitJoin
  <2>2. CASE i # 1
    <3>1. SP' + 2 * i - 1 = SP + 2 * (i - 1) - 1 /\ SP' + 2 * i - 2 = SP + 2 * (i - 1) - 2
          /\ i - 1 \in 1 .. Depth
      BY <1>1, <1>2, <2>2
    <3>2. SP + 2 * (i - 1) - 1 \in SP .. StackBytes - 1
          /\ SP + 2 * (i - 1) - 2 \in SP .. StackBytes - 1
      BY <1>1, <1>2, <3>1
    <3>3. Frames[i - 1] = twoWordToDword(memory[SP + 2 * (i - 1) - 1], memory[SP + 2 * (i - 1) - 2])
      BY <3>1 DEF Frames, Depth
    <3> QED
      BY <1>4, <2>2, <3>1, <3>2, <3>3
  <2> QED
    BY <2>1, <2>2
<1>6. Frames' = [i \in 1 .. Depth + 1 |-> IF i = 1 THEN value ELSE Frames[i - 1]]
  BY <1>3, <1>5 DEF Frames
<1>7. <<value>> \o Frames = [i \in 1 .. Depth + 1 |-> IF i = 1 THEN value ELSE Frames[i - 1]]
  BY <1>2, PlainSequences
<1> QED
  BY <1>1, <1>6, <1>7

\* Popping takes the innermost frame away.
LEMMA PopFrame ==
  ASSUME StackInv, CanPop, popSP
  PROVE  /\ Frames # << >> /\ popped = Head(Frames) /\ Frames' = Tail(Frames)
         /\ (SP % 2 = 0)'
<1>1. SP \in 0 .. StackBytes /\ SP % 2 = 0 /\ StackBytes \in Nat /\ SP' = SP + 2
      /\ SP + 2 <= StackBytes /\ memory' = memory
  BY CpuAssumption DEF StackInv, CpuInv, TypeOK, popSP, CanPop
<1>2. Depth \in Nat /\ SP + 2 * Depth = StackBytes /\ Frames \in [1 .. Depth -> Address]
  BY FramesType
<1>3. (StackBytes - SP') \div 2 = Depth - 1 /\ Depth # 0
  BY <1>1, <1>2
<1>4. popped = Frames[1]
  <2>1. Frames[1] = twoWordToDword(memory[SP + 2 * 1 - 1], memory[SP + 2 * 1 - 2])
    BY <1>2, <1>3 DEF Frames, Depth
  <2>2. SP + 2 * 1 - 1 = SP + 1 /\ SP + 2 * 1 - 2 = SP
    BY <1>1
  <2> QED
    BY <2>1, <2>2 DEF popped
<1>5. ASSUME NEW i \in 1 .. Depth - 1
      PROVE  twoWordToDword(memory'[SP' + 2 * i - 1], memory'[SP' + 2 * i - 2]) = Frames[i + 1]
  <2>1. SP' + 2 * i - 1 = SP + 2 * (i + 1) - 1 /\ SP' + 2 * i - 2 = SP + 2 * (i + 1) - 2
        /\ i + 1 \in 1 .. Depth
    BY <1>1, <1>2
  <2>2. Frames[i + 1] = twoWordToDword(memory[SP + 2 * (i + 1) - 1], memory[SP + 2 * (i + 1) - 2])
    BY <2>1 DEF Frames, Depth
  <2> QED
    BY <1>1, <2>1, <2>2
<1>6. Frames' = [i \in 1 .. Depth - 1 |-> Frames[i + 1]]
  BY <1>3, <1>5 DEF Frames
<1>7. /\ Frames # << >> /\ Head(Frames) = Frames[1]
      /\ Tail(Frames) = [i \in 1 .. Depth - 1 |-> Frames[i + 1]]
  BY <1>2, <1>3, PlainSequences
<1> QED
  BY <1>1, <1>4, <1>6, <1>7

LEMMA FramesKept == UNCHANGED stackVars => UNCHANGED Frames
  BY DEF stackVars, Frames

StackStep == Stack!Next \/ UNCHANGED Stack!vars

LEMMA StackAddress == Stack!Address = Address /\ \A n : Stack!After(n) = popPC(n)
  BY DEF Stack!Address, Address, Stack!After, popPC

\* The ways in which an instruction uses the stack.
LEMMA Runs ==
  ASSUME UNCHANGED stackVars, PC' \in Address, IME' \in BOOLEAN, SP % 2 = 0
  PROVE  StackStep /\ (SP % 2 = 0)'
<1>1. Frames' = Frames
  BY FramesKept
<1>2. Stack!Run
  BY <1>1, StackAddress DEF Stack!Run
<1> QED
  BY <1>2 DEF StackStep, Stack!Next, stackVars

LEMMA Calls ==
  ASSUME StackInv, NEW length \in {1, 3}, CanPush, push(popPC(length)), PC' \in Address, IME' = IME
  PROVE  StackStep /\ (SP % 2 = 0)'
<1>1. popPC(length) \in Address
  <2>1. length \in 1 .. 3
    OBVIOUS
  <2> QED
    BY <2>1, FetchType DEF StackInv, CpuInv
<1>2. Frames' = <<popPC(length)>> \o Frames /\ (SP % 2 = 0)'
  BY <1>1, PushFrame DEF CanPush
<1>3. Stack!Call
  BY <1>2, StackAddress DEF Stack!Call
<1> QED
  BY <1>2, <1>3 DEF StackStep, Stack!Next

LEMMA Returns ==
  ASSUME StackInv, NEW condition \in BOOLEAN, NEW cycles, ret(condition, cycles),
         IME' = IME \/ (condition /\ IME' = TRUE)
  PROVE  StackStep /\ (SP % 2 = 0)'
<1>1. CASE condition
  <2>1. CanPop /\ PC' = popped /\ popSP
    BY <1>1 DEF ret
  <2>2. /\ Frames # << >> /\ popped = Head(Frames) /\ Frames' = Tail(Frames)
        /\ (SP % 2 = 0)'
    BY <2>1, PopFrame
  <2>3. Stack!Return
    BY <2>1, <2>2 DEF Stack!Return
  <2> QED
    BY <2>2, <2>3 DEF StackStep, Stack!Next
<1>2. CASE ~condition
  <2>1. PC' = popPC(1) /\ UNCHANGED stackVars /\ IME' = IME
    BY <1>2 DEF ret
  <2>2. PC' \in Address /\ IME' \in BOOLEAN /\ SP % 2 = 0
    BY <2>1, FetchType DEF StackInv, CpuInv, TypeOK
  <2> QED
    BY <2>1, <2>2, Runs
<1> QED
  BY <1>1, <1>2

LEMMA ExecuteImplements ==
  ASSUME StackInv, ExecuteOpcode
  PROVE  StackStep /\ (SP % 2 = 0)'
<1>0. IME \in BOOLEAN /\ SP % 2 = 0 /\ (\A n \in 1 .. 3 : popPC(n) \in Address)
  BY FetchType DEF StackInv, CpuInv, TypeOK
<1>1. ASSUME NEW i \in OrdinaryInstructions, ExecuteOrdinary(i) PROVE StackStep /\ (SP % 2 = 0)'
  <2>1. i.bytes \in 1 .. 3
    BY DEF OrdinaryInstructions
  <2> QED
    BY <1>0, <1>1, <2>1, Runs DEF ExecuteOrdinary
<1>2. CASE ExecuteUndefined \/ ExecuteHalt \/ ExecuteJP_HL
  BY <1>0, <1>2, Runs DEF ExecuteUndefined, ExecuteHalt, ExecuteJP_HL
<1>3. ASSUME NEW enable \in BOOLEAN, ExecuteSetIME(enable) PROVE StackStep /\ (SP % 2 = 0)'
  BY <1>0, <1>3, Runs DEF ExecuteSetIME
<1>4. ASSUME NEW condition \in BOOLEAN, jr(condition) \/ jpImm(condition)
      PROVE  StackStep /\ (SP % 2 = 0)'
  BY <1>0, <1>4, Runs DEF jr, jpImm
<1>5. ASSUME NEW condition \in BOOLEAN, callImm(condition) PROVE StackStep /\ (SP % 2 = 0)'
  <2>1. CASE condition
    BY <1>5, <2>1, Calls DEF callImm
  <2>2. CASE ~condition
    BY <1>0, <1>5, <2>2, Runs DEF callImm
  <2> QED
    BY <2>1, <2>2
<1>6. CASE ExecuteRST
  BY <1>6, Calls DEF ExecuteRST
<1>7. CASE ExecuteRET
  <2>1. PICK condition \in BOOLEAN, cycles \in {getBusyCycles.RET, getBusyCycles.RET_cc} :
          ret(condition, cycles)
    BY <1>7 DEF ExecuteRET
  <2> QED
    BY <1>7, <2>1, Returns DEF ExecuteRET
<1>8. CASE ExecuteRETI
  BY <1>8, Returns DEF ExecuteRETI
<1>9. CASE ExecutePUSH
  <2>1. PICK value \in Address : push(value)
    BY <1>9 DEF ExecutePUSH
  <2>2. Frames' = <<value>> \o Frames /\ (SP % 2 = 0)'
    BY <1>9, <2>1, PushFrame DEF ExecutePUSH, CanPush
  <2>3. Stack!Push
    BY <1>9, <2>2, StackAddress DEF ExecutePUSH, Stack!Push
  <2> QED
    BY <2>2, <2>3 DEF StackStep, Stack!Next
<1>10. CASE ExecutePOP
  <2>1. Frames # << >> /\ Frames' = Tail(Frames) /\ (SP % 2 = 0)'
    BY <1>10, PopFrame DEF ExecutePOP
  <2>2. Stack!Pop
    BY <1>10, <2>1, StackAddress DEF ExecutePOP, Stack!Pop
  <2> QED
    BY <2>1, <2>2 DEF StackStep, Stack!Next
<1>11. CASE ExecuteLD_SP_nn
  <2>1. Frames' = << >> /\ (SP % 2 = 0)'
    <3>1. SP' = StackBytes /\ StackBytes \in Nat /\ StackBytes % 2 = 0
      BY <1>11, CpuAssumption DEF ExecuteLD_SP_nn
    <3>2. (StackBytes - SP') \div 2 = 0
      BY <3>1
    <3> QED
      BY <3>1, <3>2 DEF Frames
  <2>2. Stack!Restart
    BY <1>0, <1>11, <2>1, StackAddress DEF ExecuteLD_SP_nn, Stack!Restart
  <2> QED
    BY <2>1, <2>2 DEF StackStep, Stack!Next
<1>12. ASSUME NEW flags \in SUBSET Interrupts, ExecuteStoreIE(flags) \/ ExecuteStoreIF(flags)
       PROVE  StackStep /\ (SP % 2 = 0)'
  BY <1>0, <1>12, Runs DEF ExecuteStoreIE, ExecuteStoreIF
<1> QED
  BY <1>1, <1>2, <1>3, <1>4, <1>5, <1>6, <1>7, <1>8, <1>9, <1>10, <1>11, <1>12 DEF ExecuteOpcode

LEMMA StackInvStep ==
  ASSUME StackInv, [HNext]_hvars
  PROVE  StackInv' /\ [Stack!Next]_(Stack!vars)
<1>1. CpuInv'
  BY CpuInvStep, ObservedSteps DEF StackInv, hvars
<1>2. ASSUME UNCHANGED <<PC, stackVars, IME>>
      PROVE  StackStep /\ (SP % 2 = 0)'
  <2>1. Frames' = Frames /\ SP' = SP
    BY <1>2, FramesKept DEF stackVars
  <2> QED
    BY <1>2, <2>1 DEF StackInv, StackStep, Stack!vars
<1>3. CASE CrashedClock \/ BusyClock \/ WakeUp \/ HaltedClock
  BY <1>1, <1>2, <1>3 DEF CrashedClock, BusyClock, WakeUp, HaltedClock, vars, StackInv, StackStep
<1>4. CASE DispatchInterrupt
  <2>1. IME /\ IME' = FALSE /\ push(PC) /\ PC' = INTERRUPT_JUMP_ADDRESSES[chosen]
        /\ PC \in Address /\ SP >= 2 /\ chosen \in INTERRUPT_ID
    BY <1>4, ChosenIsFirst
       DEF DispatchInterrupt, triggerInterrupt, StackInv, CpuInv, TypeOK, RoomInv, pending
  <2>2. Frames' = <<PC>> \o Frames /\ (SP % 2 = 0)'
    BY <2>1, PushFrame
  <2>3. Stack!Interrupt
    BY <2>1, <2>2 DEF Stack!Interrupt
  <2> QED
    BY <1>1, <2>2, <2>3 DEF StackInv, Stack!Next
<1>5. CASE executeCurrentInstruction
  BY <1>1, <1>5, ExecuteImplements DEF executeCurrentInstruction, StackInv, StackStep
<1>6. CASE \E ids \in SUBSET Interrupts : RequestInterrupt(ids)
  BY <1>1, <1>2, <1>6 DEF RequestInterrupt, StackInv, StackStep
<1>7. CASE UNCHANGED hvars
  BY <1>1, <1>2, <1>7 DEF hvars, vars, StackInv, StackStep
<1> QED
  BY <1>1, <1>3, <1>4, <1>5, <1>6, <1>7, ObservedSteps
     DEF HNext, Next, machineClock, StackInv, StackStep

\* Through memory, word by word, the processor keeps a last-in-first-out stack
\* of return addresses and saved registers, with interrupts as calls between
\* instructions, for every stack and word size: ImplementsCallStack.
THEOREM RefinesCallStack == HSpec => ImplementsCallStack
<1>1. HInit => StackInv /\ Stack!Init
  <2> SUFFICES ASSUME HInit PROVE StackInv /\ Stack!Init
    OBVIOUS
  <2>1. CpuInv
    BY InitCpuInv DEF HInit
  <2>2. SP = StackBytes /\ PC = BootPC /\ IME = FALSE
    BY DEF HInit, Init
  <2>3. SP % 2 = 0 /\ (StackBytes - SP) \div 2 = 0
    BY <2>2, CpuAssumption
  <2>4. Frames = << >>
    BY <2>3 DEF Frames
  <2> QED
    BY <2>1, <2>2, <2>3, <2>4, StackAddress, CpuAssumption DEF StackInv, Stack!Init
<1>2. StackInv /\ [HNext]_hvars => StackInv' /\ [Stack!Next]_(Stack!vars)
  BY StackInvStep
<1> QED
  BY <1>1, <1>2, PTL DEF HSpec, ImplementsCallStack, Stack!Spec
=============================================================================
