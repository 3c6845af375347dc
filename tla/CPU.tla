-------------------------------- MODULE CPU --------------------------------
(***************************************************************************)
(* The processor (src/src/CPU/cpu.cpp, opcodes.hpp, timings.hpp): fetch    *)
(* and control flow, the stack in memory, interrupts, HALT, the busy       *)
(* counter that spends an instruction's cycles.                            *)
(*                                                                         *)
(* The program is not fixed: whenever an instruction is fetched, it may be *)
(* any.  Instructions that neither jump nor use the stack nor touch the    *)
(* interrupt machinery differ in their length and cycles only.             *)
(* Definitions named Mut_... are mistakes used to test the properties.     *)
(***************************************************************************)
EXTENDS Types, Integers, Sequences, FiniteSetsExt

CONSTANTS
  WordSize,     \* 2^8
  StackBytes,   \* bytes of memory the program gives to its stack
  BootPC,       \* where execution starts
  INTERRUPT_JUMP_ADDRESSES,
  Interrupts    \* the interrupts the environment and the program use

Word == 0 .. WordSize - 1
AddressSpace == WordSize * WordSize
Address == 0 .. AddressSpace - 1

ASSUME CpuAssumption ==
  /\ WordSize \in Nat \ {0} /\ StackBytes \in Nat
  /\ StackBytes % 2 = 0 /\ StackBytes >= 4
  /\ BootPC \in Address
  /\ Interrupts \subseteq INTERRUPT_ID
  /\ INTERRUPT_JUMP_ADDRESSES \in [INTERRUPT_ID -> Address]

VARIABLES
  PC, SP,        \* SP counts from the bottom of the stack's memory
  memory,        \* the stack's memory
  IME,           \* interrupt master enable
  halted, crashed,
  busyCycles,
  REG_IE, REG_IF \* interrupts enabled, and requested

stackVars == <<SP, memory>>
vars == <<PC, stackVars, IME, halted, crashed, busyCycles, REG_IE, REG_IF>>

\* timings.hpp; UNDEFINED is INT_MAX, which no clock ever counts down.
INT_MAX == 7
getBusyCycles ==
  [NOP |-> 1, HALT |-> 1, DI |-> 1, EI |-> 1, UNDEFINED |-> INT_MAX,
   JR |-> 3, JP |-> 4, JP_HL |-> 1, CALL |-> 6, RST |-> 4,
   RET |-> 4, RETI |-> 4, RET_cc |-> 5,
   PUSH |-> 4, POP |-> 3, LD_SP_nn |-> 3, LDH_in_A |-> 2]

\* Bytes and cycles of the instructions that have no effect on control.
OrdinaryInstructions ==
  { [bytes |-> 1, cycles |-> 1], [bytes |-> 1, cycles |-> 2], [bytes |-> 1, cycles |-> 3],
    [bytes |-> 2, cycles |-> 2], [bytes |-> 2, cycles |-> 3], [bytes |-> 2, cycles |-> 4],
    [bytes |-> 3, cycles |-> 3], [bytes |-> 3, cycles |-> 4], [bytes |-> 3, cycles |-> 5] }

TypeOK ==
  /\ PC \in Address
  /\ SP \in 0 .. StackBytes
  /\ memory \in [0 .. StackBytes - 1 -> Word]
  /\ {IME, halted, crashed} \subseteq BOOLEAN
  /\ busyCycles \in 0 .. INT_MAX
  /\ REG_IE \in SUBSET INTERRUPT_ID /\ REG_IF \in SUBSET INTERRUPT_ID

\* The state skipBoot leaves, with or without its V-Blank request.
Init ==
  /\ PC = BootPC
  /\ SP = StackBytes /\ memory = [a \in 0 .. StackBytes - 1 |-> 0]
  /\ IME = FALSE /\ halted = FALSE /\ crashed = FALSE
  /\ busyCycles = 0
  /\ REG_IE = {} /\ REG_IF \in {{}, {INTERRUPT_VBLANK}}

-----------------------------------------------------------------------------
(* Words, and the stack.                                                   *)

twoWordToDword(msb, lsb) == msb * WordSize + lsb
dwordMsb(value) == value \div WordSize
dwordLsb(value) == value % WordSize

\* The address after the n bytes fetched from PC.
popPC(n) == (PC + n) % AddressSpace

\* The most significant word goes first, to the higher address.
Mut_LsbFirst(value) ==
  /\ SP' = SP - 2
  /\ memory' = [memory EXCEPT ![SP - 1] = dwordLsb(value), ![SP - 2] = dwordMsb(value)]
push(value) ==
  /\ SP' = SP - 2
  /\ memory' = [memory EXCEPT ![SP - 1] = dwordMsb(value), ![SP - 2] = dwordLsb(value)]

popSP == SP' = SP + 2 /\ UNCHANGED memory
popped == twoWordToDword(memory[SP + 1], memory[SP])

\* Bounds on the program: it keeps its stack inside the memory it gave it,
\* and leaves room for an interrupt while interrupts are accepted.
Room(sp, ime) == sp >= (IF ime THEN 2 ELSE 0)
CanPush == SP >= 2 /\ Room(SP - 2, IME)
CanPop  == SP + 2 <= StackBytes

-----------------------------------------------------------------------------
(* Instructions: each sets the busy counter and the registers atomically.  *)

spend(cycles) == busyCycles' = cycles

ExecuteOrdinary(i) ==
  /\ spend(i.cycles)
  /\ PC' = popPC(i.bytes)
  /\ UNCHANGED <<stackVars, IME, halted, crashed, REG_IE, REG_IF>>

ExecuteUndefined ==
  /\ spend(getBusyCycles.UNDEFINED)
  /\ crashed' = TRUE
  /\ PC' = popPC(1)
  /\ UNCHANGED <<stackVars, IME, halted, REG_IE, REG_IF>>

\* HALT, and STOP which the code treats the same way.
ExecuteHalt ==
  /\ spend(getBusyCycles.HALT)
  /\ halted' = TRUE
  /\ PC' = popPC(1)
  /\ UNCHANGED <<stackVars, IME, crashed, REG_IE, REG_IF>>

\* DI and EI take effect at once.
ExecuteSetIME(enable) ==
  /\ Room(SP, enable)
  /\ spend(IF enable THEN getBusyCycles.EI ELSE getBusyCycles.DI)
  /\ IME' = enable
  /\ PC' = popPC(1)
  /\ UNCHANGED <<stackVars, halted, crashed, REG_IE, REG_IF>>

\* A relative jump may reach any address of its page; the offset is in ROM.
jr(condition) ==
  /\ IF condition
     THEN PC' \in Address /\ spend(getBusyCycles.JR)
     ELSE PC' = popPC(2) /\ spend(getBusyCycles.JR - 1)
  /\ UNCHANGED <<stackVars, IME, halted, crashed, REG_IE, REG_IF>>

jpImm(condition) ==
  /\ IF condition
     THEN PC' \in Address /\ spend(getBusyCycles.JP)
     ELSE PC' = popPC(3) /\ spend(getBusyCycles.JP - 1)
  /\ UNCHANGED <<stackVars, IME, halted, crashed, REG_IE, REG_IF>>

ExecuteJP_HL ==
  /\ PC' \in Address /\ spend(getBusyCycles.JP_HL)
  /\ UNCHANGED <<stackVars, IME, halted, crashed, REG_IE, REG_IF>>

callImm(condition) ==
  /\ IF condition
     THEN CanPush /\ push(popPC(3)) /\ PC' \in Address /\ spend(getBusyCycles.CALL)
     ELSE PC' = popPC(3) /\ UNCHANGED stackVars /\ spend(getBusyCycles.CALL - 3)
  /\ UNCHANGED <<IME, halted, crashed, REG_IE, REG_IF>>

\* RST jumps to one of eight fixed addresses.
ExecuteRST ==
  /\ CanPush /\ push(popPC(1))
  /\ PC' \in Address
  /\ spend(getBusyCycles.RST)
  /\ UNCHANGED <<IME, halted, crashed, REG_IE, REG_IF>>

\* Conditional returns cost a cycle more than RET.
ret(condition, cycles) ==
  /\ IF condition
     THEN CanPop /\ PC' = popped /\ popSP /\ spend(cycles)
     ELSE PC' = popPC(1) /\ UNCHANGED stackVars /\ spend(cycles - 3)

ExecuteRET ==
  /\ \/ ret(TRUE, getBusyCycles.RET)
     \/ \E condition \in BOOLEAN : ret(condition, getBusyCycles.RET_cc)
  /\ UNCHANGED <<IME, halted, crashed, REG_IE, REG_IF>>

ExecuteRETI ==
  /\ ret(TRUE, getBusyCycles.RETI)
  /\ IME' = TRUE
  /\ UNCHANGED <<halted, crashed, REG_IE, REG_IF>>

\* PUSH and POP of a register pair; what the pair holds is left open.
ExecutePUSH ==
  /\ CanPush /\ \E value \in Address : push(value)
  /\ PC' = popPC(1)
  /\ spend(getBusyCycles.PUSH)
  /\ UNCHANGED <<IME, halted, crashed, REG_IE, REG_IF>>

ExecutePOP ==
  /\ CanPop /\ popSP
  /\ PC' = popPC(1)
  /\ spend(getBusyCycles.POP)
  /\ UNCHANGED <<IME, halted, crashed, REG_IE, REG_IF>>

\* Bound: a program sets SP only to start a new stack.
ExecuteLD_SP_nn ==
  /\ SP' = StackBytes /\ UNCHANGED memory
  /\ PC' = popPC(3)
  /\ spend(getBusyCycles.LD_SP_nn)
  /\ UNCHANGED <<IME, halted, crashed, REG_IE, REG_IF>>

\* A store to one of the interrupt registers.
ExecuteStoreIE(flags) ==
  /\ REG_IE' = flags
  /\ PC' = popPC(2)
  /\ spend(getBusyCycles.LDH_in_A)
  /\ UNCHANGED <<stackVars, IME, halted, crashed, REG_IF>>

ExecuteStoreIF(flags) ==
  /\ REG_IF' = flags
  /\ PC' = popPC(2)
  /\ spend(getBusyCycles.LDH_in_A)
  /\ UNCHANGED <<stackVars, IME, halted, crashed, REG_IE>>

ExecuteOpcode ==
  \/ \E i \in OrdinaryInstructions : ExecuteOrdinary(i)
  \/ ExecuteUndefined \/ ExecuteHalt
  \/ \E enable \in BOOLEAN : ExecuteSetIME(enable)
  \/ \E condition \in BOOLEAN : jr(condition) \/ jpImm(condition) \/ callImm(condition)
  \/ ExecuteJP_HL \/ ExecuteRST \/ ExecuteRET \/ ExecuteRETI
  \/ ExecutePUSH \/ ExecutePOP \/ ExecuteLD_SP_nn
  \/ \E flags \in SUBSET Interrupts : ExecuteStoreIE(flags) \/ ExecuteStoreIF(flags)

-----------------------------------------------------------------------------
(* machineClock, one action per path.                                      *)

pending == REG_IE \cap REG_IF

\* A crashed processor lets its clocks pass.
CrashedClock ==
  /\ crashed
  /\ UNCHANGED vars

Mut_CountBelowZero ==
  /\ ~crashed
  /\ busyCycles' = busyCycles - 1
  /\ UNCHANGED <<PC, stackVars, IME, halted, crashed, REG_IE, REG_IF>>
BusyClock ==
  /\ ~crashed /\ busyCycles # 0
  /\ busyCycles' = busyCycles - 1
  /\ UNCHANGED <<PC, stackVars, IME, halted, crashed, REG_IE, REG_IF>>

\* The requested and enabled interrupt of highest priority is taken.
Mut_LowestFirst == Max(pending)
chosen == Min(pending)

Mut_ClearAll(i) == {}
Mut_KeepRequest(i) == REG_IF
acknowledged(i) == REG_IF \ {i}

triggerInterrupt(i) ==
  /\ IME' = FALSE
  /\ REG_IF' = acknowledged(i)
  /\ push(PC)
  /\ PC' = INTERRUPT_JUMP_ADDRESSES[i]
  /\ spend(5)

DispatchInterrupt ==
  /\ ~crashed /\ busyCycles = 0
  /\ IME /\ pending # {}
  /\ triggerInterrupt(chosen)
  /\ halted' = FALSE
  /\ UNCHANGED <<crashed, REG_IE>>

\* With the master switch off, a request only ends HALT.
Mut_SleepOn ==
  /\ ~crashed /\ busyCycles = 0
  /\ ~IME /\ halted /\ pending # {}
  /\ UNCHANGED vars
WakeUp ==
  /\ ~crashed /\ busyCycles = 0
  /\ ~IME /\ halted /\ pending # {}
  /\ halted' = FALSE
  /\ UNCHANGED <<PC, stackVars, IME, crashed, busyCycles, REG_IE, REG_IF>>

HaltedClock ==
  /\ ~crashed /\ busyCycles = 0
  /\ halted /\ pending = {}
  /\ UNCHANGED vars

Mut_IgnoreRequests ==
  /\ ~crashed /\ busyCycles = 0
  /\ ~halted
  /\ ExecuteOpcode
executeCurrentInstruction ==
  /\ ~crashed /\ busyCycles = 0
  /\ ~halted /\ ~(IME /\ pending # {})
  /\ ExecuteOpcode

machineClock ==
  \/ CrashedClock \/ BusyClock \/ DispatchInterrupt \/ WakeUp
  \/ HaltedClock \/ executeCurrentInstruction

\* Another component requests interrupts between two clocks.
RequestInterrupt(ids) ==
  /\ REG_IF' = REG_IF \cup ids
  /\ UNCHANGED <<PC, stackVars, IME, halted, crashed, busyCycles, REG_IE>>

Next == machineClock \/ \E ids \in SUBSET Interrupts : RequestInterrupt(ids)

Spec == Init /\ [][Next]_vars /\ WF_vars(machineClock)
=============================================================================
