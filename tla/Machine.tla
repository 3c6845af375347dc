------------------------------ MODULE Machine ------------------------------
(***************************************************************************)
(* The whole machine (src/src/Gameboy/gameboy.cpp): on every clock the     *)
(* timer unit, the processor and the PPU are stepped in this order; they   *)
(* share the interrupt requests, and the program reaches the registers of  *)
(* the others with its stores.  Between two clocks the frontend may report *)
(* the controls.                                                           *)
(*                                                                         *)
(* The components are the modules TimerController, CPU, PPU and Joypad;    *)
(* sprites are left to the module PPU, which checks them alone.            *)
(* Definitions named Mut_... are mistakes used to test the properties.     *)
(***************************************************************************)
EXTENDS Types, Integers, Sequences

CONSTANTS
  OamEnd, DrawEnd, LineEnd, VisibleLines, TotalLines, StatWrites, LycWrites,
  ByteSize, ClockWrap, DIV_RATE, TIMA_RATES, TimaWrites, TmaWrites, Rates,
  WordSize, StackBytes, BootPC, INTERRUPT_JUMP_ADDRESSES, Interrupts,
  Statuses

VARIABLES
  phase,         \* the component whose turn it is
  mode, statEnable, lycFlag, LY, LYC, currentLineClockCounter,
  STATAlreadyRequestedThisLine, frameCount, OAM, spriteSize, OAMLineBuffer,
  screenBuffer,
  clockCount, REG_DIV, REG_TIMA, REG_TMA, timerEnabled, rateSelector,
  PC, SP, memory, IME, halted, crashed, busyCycles, REG_IE,
  joypadStatus, REG_JOIP,
  REG_IF         \* shared by all of them

tcu == INSTANCE TimerController WITH BootDIV <- 0
cpu == INSTANCE CPU
ppu == INSTANCE PPU WITH
  FrameWrap <- 1, MAX_SPRITES_PER_LINE <- 0, MAX_SPRITE_HEIGHT <- 0,
  SHORT_SPRITE_HEIGHT <- 0, SpriteWrites <- {}, SizeWrites <- {}
joypad == INSTANCE Joypad WITH SelectWrites <- {}

tcuVars == <<clockCount, REG_DIV, REG_TIMA, REG_TMA, timerEnabled, rateSelector>>
cpuVars == <<PC, SP, memory, IME, halted, crashed, busyCycles, REG_IE>>
ppuVars == <<mode, statEnable, lycFlag, LY, LYC, currentLineClockCounter,
             STATAlreadyRequestedThisLine, frameCount, OAM, spriteSize,
             OAMLineBuffer, screenBuffer>>
joypadVars == <<joypadStatus, REG_JOIP>>
vars == <<phase, tcuVars, cpuVars, ppuVars, joypadVars, REG_IF>>

\* The timer, the PPU and the controls request interrupts the program may use
\* as well; STAT is among them if the program ever enables a source of it.
ASSUME MachineAssumption ==
  /\ Interrupts \subseteq INTERRUPT_ID
  /\ {INTERRUPT_VBLANK, INTERRUPT_TIMER, INTERRUPT_JOYPAD} \subseteq Interrupts
  /\ INTERRUPT_STAT \in Interrupts \/ StatWrites \subseteq {{}}
  /\ Rates \subseteq tcu!RateSelector

\* Switched on.
Init == phase = "tcu" /\ tcu!Init /\ cpu!Init /\ ppu!Init /\ joypad!JoypadInit

-----------------------------------------------------------------------------
TimerClock ==
  /\ phase = "tcu" /\ phase' = "cpu"
  /\ tcu!machineClock
  /\ UNCHANGED <<cpuVars, ppuVars, joypadVars>>

\* What one instruction can store in a register of another component.
StoreToTimer ==
  /\ \/ tcu!WriteDIV
     \/ \E value \in TimaWrites : tcu!WriteTIMA(value)
     \/ \E value \in TmaWrites : tcu!WriteTMA(value)
     \/ \E enabled \in BOOLEAN, selector \in Rates : tcu!WriteTAC(enabled, selector)
  /\ UNCHANGED ppuVars

StoreToPPU ==
  /\ \/ \E enable \in StatWrites : ppu!WriteSTAT(enable)
     \/ \E value \in LycWrites : ppu!WriteLYC(value)
  /\ UNCHANGED tcuVars

\* LDH, a store to 0xFF00 + n: to the processor, an ordinary instruction.
StoreInstruction ==
  /\ ~crashed /\ busyCycles = 0
  /\ ~halted /\ ~(IME /\ cpu!pending # {})
  /\ cpu!ExecuteOrdinary([bytes |-> 2, cycles |-> cpu!getBusyCycles.LDH_in_A])
  /\ StoreToTimer \/ StoreToPPU

ProcessorClock ==
  /\ phase = "cpu" /\ phase' = "ppu"
  /\ \/ cpu!machineClock /\ UNCHANGED <<tcuVars, ppuVars>>
     \/ StoreInstruction
  /\ UNCHANGED joypadVars

PictureClock ==
  /\ phase = "ppu" /\ phase' = "tcu"
  /\ ppu!machineClock
  /\ UNCHANGED <<tcuVars, cpuVars, joypadVars>>

\* The frontend reports the controls between two clocks only.
ReportControls ==
  /\ phase = "tcu"
  /\ \E value \in Statuses : joypad!setJoypad(value)
  /\ UNCHANGED <<phase, tcuVars, cpuVars, ppuVars>>

machineClock == TimerClock \/ ProcessorClock \/ PictureClock

Next == machineClock \/ ReportControls

\* The main loop clocks the machine for as long as the window is open.
Spec == Init /\ [][Next]_vars /\ WF_vars(machineClock)
=============================================================================
