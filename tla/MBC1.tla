-------------------------------- MODULE MBC1 --------------------------------
(***************************************************************************)
(* The MBC1 cartridge controller (src/src/Cartridge/Controllers/mbc1.hpp). *)
(* Definitions named Mut_... are mistakes used to test the properties.     *)
(***************************************************************************)
EXTENDS Cartridge

VARIABLES
  romBank,
  ramBank,
  modeFlag,
  externalRamEnabled

registers == <<romBank, ramBank, modeFlag, externalRamEnabled>>
vars == <<registers, memVars>>

getBankBitmask == 0 .. (IF ROMSize < 4 THEN ROMSize ELSE 4)

TypeOK ==
  /\ romBank \in SUBSET getBankBitmask
  /\ ramBank \in SUBSET {0, 1}
  /\ modeFlag \in BOOLEAN
  /\ externalRamEnabled \in BOOLEAN
  /\ MemTypeOK

Init ==
  /\ romBank = {0}
  /\ ramBank = {}
  /\ modeFlag = FALSE
  /\ externalRamEnabled = FALSE
  /\ MemInit

Number(bits) == (IF 0 \in bits THEN 1 ELSE 0) + (IF 1 \in bits THEN 2 ELSE 0)

\* The bits of ramBank that a ROM of 1 MB or 2 MB uses, as bits 5 and 6.
UpperBits == {b + 5 : b \in ramBank \cap 0 .. ROMSize - 5}

Mut_AllUpperBits == IF modeFlag THEN {b + 5 : b \in ramBank} ELSE {}
getZeroBank == IF modeFlag /\ ROMSize >= 5 THEN UpperBits ELSE {}

getHighBank ==
  IF ROMSize < 5
  THEN romBank \cap getBankBitmask
  ELSE romBank \cap getBankBitmask \cap UpperBits

\* Addresses are 16 bits wide, eight banks of RAM, and wrap around.
Mut_AlwaysBanked(mode, address) == BankSize * Number(ramBank) + address - CartRamBase
getRamAddress(mode, address) ==
  LET AddressSpace == 8 * BankSize
      base == (address - CartRamBase) % AddressSpace
  IN  IF mode
      THEN (BankSize * Number(ramBank) + base) % AddressSpace
      ELSE base % setRAMSize

HasRam == externalRamEnabled /\ setRAMSize # 0

-----------------------------------------------------------------------------
\* read().
ReadZero == \E offset \in RomOffset : ReadRom(getZeroBank, offset) /\ UNCHANGED registers
ReadHigh == \E offset \in RomOffset : ReadRom(getHighBank, offset) /\ UNCHANGED registers
ReadExternal ==
  /\ \E address \in CartRam :
       IF HasRam THEN ReadRam(getRamAddress(modeFlag, address)) ELSE ReadNothing
  /\ UNCHANGED registers

\* write(), from its assertions on.
StoreIfEnabled(mode, address, value) ==
  IF HasRam THEN StoreRam(getRamAddress(mode, address), value) ELSE UNCHANGED memVars

StoreRamEnable ==
  /\ \E value \in Values : externalRamEnabled' = (value \cap 0 .. 3 = {1, 3})
  /\ UNCHANGED <<romBank, ramBank, modeFlag, memVars>>

NotZero(bank) == IF bank = {} THEN {0} ELSE bank
StoreRomBank ==
  /\ \E value \in RomValues : romBank' = NotZero(value \cap getBankBitmask)
  /\ UNCHANGED <<ramBank, modeFlag, externalRamEnabled, memVars>>
StoreRamBank ==
  /\ \E value \in Values : ramBank' = value \cap {0, 1}
  /\ UNCHANGED <<romBank, modeFlag, externalRamEnabled, memVars>>

\* The store to the mode register goes on to the assertions, which fail, and
\* without them to the RAM.
ModeRegister == 3 * BankSize .. 4 * BankSize - 1
StoreMode ==
  /\ \E address \in ModeRegister, value \in Values :
       /\ modeFlag' = (0 \in value)
       /\ IF NDEBUG
          THEN StoreIfEnabled(modeFlag', address, value)
          ELSE ended' = TRUE /\ UNCHANGED <<ram, out>>
  /\ UNCHANGED <<romBank, ramBank, externalRamEnabled>>

StoreExternal ==
  /\ \E address \in CartRam, value \in RamData : StoreIfEnabled(modeFlag, address, value)
  /\ UNCHANGED registers

Read == ReadZero \/ ReadHigh \/ ReadExternal
Store == StoreRamEnable \/ StoreRomBank \/ StoreRamBank \/ StoreExternal

Next == ~ended /\ (Read \/ Store \/ StoreMode)

Spec == Init /\ [][Next]_vars
=============================================================================
