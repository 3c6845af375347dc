------------------------------- MODULE Joypad -------------------------------
(***************************************************************************)
(* The controls: Gameboy::setJoypad (src/src/Gameboy/gameboy.cpp), which   *)
(* the frontend calls between two machine clocks, and the JOIP register of *)
(* the address bus (src/src/AddressBus/address-bus.cpp), through which the *)
(* program selects a group of controls and reads it.                       *)
(*                                                                         *)
(* A register is the set of its bits that are 1; a control that is pressed *)
(* reads 0.  Definitions named Mut_... are mistakes used to test the       *)
(* properties.                                                             *)
(***************************************************************************)
EXTENDS Types, Integers

CONSTANTS
  Statuses,      \* what the frontend may report: sets of bits 7-0,
                 \* START SELECT B A down up left right
  SelectWrites   \* what the program stores in JOIP

Nibble == 0 .. 3          \* bits 3-0
HighNibble == 4 .. 7      \* bits 7-4
Bits == 0 .. 7
AllReleased == Bits

SelectDPad == 4           \* each group is selected by a bit that is 0
SelectButtons == 5

ASSUME StatusesAssumption ==
  /\ Statuses \subseteq SUBSET Bits
  /\ SelectWrites \subseteq SUBSET Bits

VARIABLES
  joypadStatus,
  REG_JOIP,
  REG_IF

joypadVars == <<joypadStatus, REG_JOIP, REG_IF>>

JoypadTypeOK ==
  /\ joypadStatus \in SUBSET Bits
  /\ REG_JOIP \in SUBSET Bits
  /\ REG_IF \in SUBSET INTERRUPT_ID

\* Through the boot ROM, or past it: skipBoot stores 0xCF, both groups selected.
JoypadInit ==
  /\ joypadStatus = AllReleased
  /\ REG_JOIP \in {{}, {7, 6} \cup Nibble}
  /\ REG_IF = {}

\* A report that changes nothing is ignored; any other also lands in JOIP,
\* over the program's selection.
setJoypad(value) ==
  /\ value # joypadStatus
  /\ joypadStatus' = value
  /\ REG_JOIP' = value
  /\ REG_IF' = REG_IF \cup {INTERRUPT_JOYPAD}

\* The program's store keeps every bit.
WriteJOIP(value) ==
  /\ REG_JOIP' = value
  /\ UNCHANGED <<joypadStatus, REG_IF>>

WriteIF(flags) ==
  /\ REG_IF' = flags
  /\ UNCHANGED <<joypadStatus, REG_JOIP>>

buttons == {b - 4 : b \in joypadStatus \cap HighNibble}
dpad    == joypadStatus \cap Nibble

\* What the program reads: the buttons go before the D-pad.
Mut_DPadFirst ==
  IF SelectDPad \notin REG_JOIP THEN (REG_JOIP \cap HighNibble) \cup dpad
  ELSE IF SelectButtons \notin REG_JOIP THEN (REG_JOIP \cap HighNibble) \cup buttons
  ELSE REG_JOIP \cup Nibble
getJoypad ==
  IF SelectButtons \notin REG_JOIP THEN (REG_JOIP \cap HighNibble) \cup buttons
  ELSE IF SelectDPad \notin REG_JOIP THEN (REG_JOIP \cap HighNibble) \cup dpad
  ELSE REG_JOIP \cup Nibble

JoypadNext ==
  \/ \E value \in Statuses : setJoypad(value)
  \/ \E value \in SelectWrites : WriteJOIP(value)
  \/ \E flags \in SUBSET {INTERRUPT_JOYPAD} : WriteIF(flags)

JoypadSpec == JoypadInit /\ [][JoypadNext]_joypadVars
=============================================================================
