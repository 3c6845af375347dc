---------------------------- MODULE Controllers ----------------------------
(***************************************************************************)
(* The cartridge in the machine: Gameboy's constructor                     *)
(* (src/src/Gameboy/gameboy.cpp) creates the controller the header names,  *)
(* and everything the program does with the cartridge goes to it.          *)
(***************************************************************************)
EXTENDS Cartridge

VARIABLES
  controller,
  romBank, ramBank, externalRamEnabled,   \* of either controller
  modeFlag                                \* of MBC1; FALSE otherwise
\* MBC0 has none of them; romBank is the bank in the upper half of its ROM.

mbc1 == INSTANCE MBC1Properties
mbc3 == INSTANCE MBC3

vars == <<controller, romBank, ramBank, externalRamEnabled, modeFlag, memVars>>

Init ==
  \/ controller = "MBC1" /\ mbc1!Init
  \/ controller = "MBC3" /\ mbc3!Init /\ modeFlag = FALSE
  \/ /\ controller = "MBC0" /\ MemInit /\ modeFlag = FALSE
     /\ romBank = {0} /\ ramBank = {} /\ externalRamEnabled = FALSE

\* Addresses are indices into the ROM, stores are ignored.  A program reads
\* RAM only from a cartridge that has one.
Mbc0Step ==
  /\ controller = "MBC0" /\ ~ended
  /\ IF ROMSize = 0 \/ NDEBUG
     THEN \E bank \in {{}, {0}}, offset \in RomOffset : ReadRom(bank, offset)
     ELSE ended' = TRUE /\ UNCHANGED <<ram, out>>
  /\ UNCHANGED <<controller, romBank, ramBank, externalRamEnabled, modeFlag>>

Mbc1Step == controller = "MBC1" /\ mbc1!Next /\ UNCHANGED controller
Mbc3Step == controller = "MBC3" /\ mbc3!Next /\ UNCHANGED <<controller, modeFlag>>

Next == Mbc0Step \/ Mbc1Step \/ Mbc3Step

Spec == Init /\ [][Next]_vars
=============================================================================
