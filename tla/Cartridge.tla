------------------------------ MODULE Cartridge ------------------------------
(***************************************************************************)
(* What every cartridge has (class Cartridge,                              *)
(* src/src/Cartridge/cartridge.cpp): a ROM, which is here the function     *)
(* from a bank and an offset to themselves, and a RAM whose size is given  *)
(* by the header.  A word, and the number of a bank, is the set of its     *)
(* bits that are 1.                                                        *)
(***************************************************************************)
EXTENDS Integers

CONSTANTS
  BankSize,   \* 0x2000, a bank of RAM; a bank of ROM has twice as many bytes
  ROMSize,    \* from the header: the ROM has 2^(ROMSize + 1) banks
  RAMSize,    \* from the header
  NDEBUG,     \* a Release build, without assertions
  RomValues,  \* what the program stores in the register of the ROM bank
  Values,     \* what it stores in the other registers of the controller
  RamData     \* what it stores in the RAM

Word == SUBSET (0 .. 7)
NoWord == 0 .. 7          \* 0xFF

\* The ROM file is as long as its header says; the code does not check this.
\* MBC1 refuses a ROMSize above 6 and MBC3 addresses as many banks.
ASSUME CartridgeAssumption ==
  /\ BankSize \in Nat \ {0}
  /\ ROMSize \in 0 .. 6
  /\ RAMSize \in Nat
  /\ NDEBUG \in BOOLEAN
  /\ RomValues \subseteq Word
  /\ Values \subseteq Word
  /\ RamData \subseteq Word

\* Number of the bytes of RAM; 0x800, 0x2000 and 0x8000 in the code.
setRAMSize ==
  IF RAMSize = 1 THEN BankSize \div 4
  ELSE IF RAMSize = 2 THEN BankSize
  ELSE IF RAMSize = 3 THEN 4 * BankSize
  ELSE 0

RomBank == SUBSET (0 .. ROMSize)
RomOffset == 0 .. 2 * BankSize - 1
RamAddress == 0 .. setRAMSize - 1

CartRamBase == 5 * BankSize
CartRam == CartRamBase .. 6 * BankSize - 1

VARIABLES
  ram,
  out,     \* what was read last
  ended    \* an assertion or an access out of bounds has ended the program

memVars == <<ram, out, ended>>

MemTypeOK ==
  /\ ram \in [RamAddress -> Word]
  /\ out \in [bank : RomBank, offset : RomOffset] \cup [value : Word]
  /\ ended \in BOOLEAN

MemInit ==
  /\ ram = [a \in RamAddress |-> {}]
  /\ out = [value |-> NoWord]
  /\ ended = FALSE

\* Nothing in C++ forbids an access beyond the end of a vector: it returns
\* any word, leaves the RAM as it is, or ends the program.
ReadRom(bank, offset) ==
  /\ IF bank \in RomBank
     THEN out' = [bank |-> bank, offset |-> offset] /\ ended' = FALSE
     ELSE out' \in [value : Word] /\ ended' \in BOOLEAN
  /\ ram' = ram
ReadRam(a) ==
  /\ IF a \in RamAddress
     THEN out' = [value |-> ram[a]] /\ ended' = FALSE
     ELSE out' \in [value : Word] /\ ended' \in BOOLEAN
  /\ ram' = ram
StoreRam(a, value) ==
  /\ IF a \in RamAddress
     THEN ram' = [ram EXCEPT ![a] = value] /\ ended' = FALSE
     ELSE ram' = ram /\ ended' \in BOOLEAN
  /\ out' = out

ReadNothing == out' = [value |-> NoWord] /\ UNCHANGED <<ram, ended>>
=============================================================================
