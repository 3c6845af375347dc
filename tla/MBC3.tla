-------------------------------- MODULE MBC3 --------------------------------
(***************************************************************************)
(* The MBC3 cartridge controller (src/src/Cartridge/Controllers/mbc3.hpp), *)
(* whose real-time clock is not implemented.  Definitions named Mut_...    *)
(* are mistakes used to test the properties.                               *)
(***************************************************************************)
EXTENDS Cartridge

VARIABLES
  romBank,
  ramBank,
  externalRamEnabled

registers == <<romBank, ramBank, externalRamEnabled>>
vars == <<registers, memVars>>

Init ==
  /\ romBank = {}
  /\ ramBank = {}
  /\ externalRamEnabled = FALSE
  /\ MemInit

\* Banks 0 to 3 are RAM, banks 8 to 12 registers of the clock.
RamBank == SUBSET {0, 1}
ClockRegister == {{3}, {0, 3}, {1, 3}, {0, 1, 3}, {2, 3}}

Number(bits) == (IF 0 \in bits THEN 1 ELSE 0) + (IF 1 \in bits THEN 2 ELSE 0)
ramAddress(address) == BankSize * Number(ramBank) + address - CartRamBase

Mut_RamOnly == externalRamEnabled
RamMapped == externalRamEnabled /\ ramBank \in RamBank

-----------------------------------------------------------------------------
\* read().  The clock's registers fail an assertion, or are 0xFF without it.
ReadZero == \E offset \in RomOffset : ReadRom({}, offset) /\ UNCHANGED registers
ReadHigh == \E offset \in RomOffset : ReadRom(romBank, offset) /\ UNCHANGED registers
ReadExternal ==
  /\ \E address \in CartRam :
       IF RamMapped THEN ReadRam(ramAddress(address))
       ELSE IF ramBank \in ClockRegister /\ ~NDEBUG THEN ended' = TRUE /\ UNCHANGED <<ram, out>>
       ELSE ReadNothing
  /\ UNCHANGED registers

\* write().  A store to the latch, or to a register of the clock, is ignored.
StoreRamEnable ==
  /\ \E value \in Values : externalRamEnabled' = (value \cap 0 .. 3 = {1, 3})
  /\ UNCHANGED <<romBank, ramBank, memVars>>

BankOf(value) == IF value \cap 0 .. 6 = {} THEN {0} ELSE value \cap 0 .. 6
StoreRomBank ==
  /\ \E value \in RomValues : romBank' = BankOf(value)
  /\ UNCHANGED <<ramBank, externalRamEnabled, memVars>>
StoreRamBank ==
  /\ ramBank' \in Values
  /\ UNCHANGED <<romBank, externalRamEnabled, memVars>>
StoreExternal ==
  /\ \E address \in CartRam, value \in RamData :
       IF RamMapped THEN StoreRam(ramAddress(address), value) ELSE UNCHANGED memVars
  /\ UNCHANGED registers

Next ==
  /\ ~ended
  /\ \/ ReadZero \/ ReadHigh \/ ReadExternal
     \/ StoreRamEnable \/ StoreRomBank \/ StoreRamBank \/ StoreExternal

Spec == Init /\ [][Next]_vars
=============================================================================
