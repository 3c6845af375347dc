----------------------------- MODULE AddressBus -----------------------------
(***************************************************************************)
(* The address bus (src/src/AddressBus/address-bus.cpp): one array of      *)
(* memory, the cartridge and the boot ROM laid over parts of it, work RAM  *)
(* with its echo, the DMA transfer, and the registers that belong to the   *)
(* PPU or to the timer.  JOIP is in module Joypad.  Definitions named      *)
(* Mut_... are mistakes used to test the properties.                       *)
(***************************************************************************)
EXTENDS Integers

CONSTANTS
  \* The memory map (types.hpp); each UPPER_BOUND is excluded.
  BOOTROM_UPPER_BOUND, CART_ROM_UPPER_BOUND,
  CART_RAM_LOWER_BOUND, CART_RAM_UPPER_BOUND,
  ECHO_RAM_LOWER_BOUND_1, ECHO_RAM_UPPER_BOUND_1,
  ECHO_RAM_LOWER_BOUND_0, ECHO_RAM_UPPER_BOUND_0,
  OAM_MEMORY_LOWER_BOUND, OamSize,
  REG_DIV, REG_STAT, REG_LY, REG_DMA, BOOT_ROM_LOCK,
  ADDRESS_BUS_SIZE,
  Page,             \* 0x100
  DmaLimit,         \* 0xE0, the first page that DMA refuses
  EchoDistance,     \* 0x2000
  WordSize,         \* 0x100
  StatBits,         \* 8, the PPU's part of STAT
  BOOT_ROM,
  Stores,           \* what the program stores: pairs of an address and a word
  StatWrites,       \* what the PPU stores in STAT
  LyWrites,         \* and in LY
  SkipBootStores,   \* what skipBoot stores: registers and their words
  CartContents      \* what the cartridge may answer

BusWord == 0 .. WordSize - 1
Address == 0 .. ADDRESS_BUS_SIZE - 1
Registers == {REG_DIV, REG_STAT, REG_LY, REG_DMA, BOOT_ROM_LOCK}
OAM == OAM_MEMORY_LOWER_BOUND .. OAM_MEMORY_LOWER_BOUND + OamSize - 1
EchoRam0 == ECHO_RAM_LOWER_BOUND_0 .. ECHO_RAM_UPPER_BOUND_0 - 1
EchoRam1 == ECHO_RAM_LOWER_BOUND_1 .. ECHO_RAM_UPPER_BOUND_1 - 1

refersToCartridge(address) ==
  \/ address < CART_ROM_UPPER_BOUND
  \/ CART_RAM_LOWER_BOUND <= address /\ address < CART_RAM_UPPER_BOUND
CartAddress == {address \in Address : refersToCartridge(address)}

\* The order of the map; its last part, the registers, is above the OAM.
ASSUME MapAssumption ==
  /\ {BOOTROM_UPPER_BOUND, CART_ROM_UPPER_BOUND, CART_RAM_LOWER_BOUND, CART_RAM_UPPER_BOUND,
      ECHO_RAM_LOWER_BOUND_1, ECHO_RAM_UPPER_BOUND_1, ECHO_RAM_LOWER_BOUND_0,
      ECHO_RAM_UPPER_BOUND_0, OAM_MEMORY_LOWER_BOUND, OamSize, ADDRESS_BUS_SIZE,
      EchoDistance, Page, DmaLimit} \subseteq Nat
  /\ BOOTROM_UPPER_BOUND <= CART_ROM_UPPER_BOUND
  /\ CART_ROM_UPPER_BOUND <= CART_RAM_LOWER_BOUND
  /\ CART_RAM_LOWER_BOUND <= CART_RAM_UPPER_BOUND
  /\ CART_RAM_UPPER_BOUND <= ECHO_RAM_LOWER_BOUND_1
  /\ ECHO_RAM_LOWER_BOUND_1 <= ECHO_RAM_UPPER_BOUND_1
  /\ ECHO_RAM_UPPER_BOUND_1 <= ECHO_RAM_LOWER_BOUND_0
  /\ ECHO_RAM_LOWER_BOUND_0 = ECHO_RAM_LOWER_BOUND_1 + EchoDistance
  /\ ECHO_RAM_UPPER_BOUND_0 = ECHO_RAM_UPPER_BOUND_1 + EchoDistance
  /\ ECHO_RAM_UPPER_BOUND_0 <= OAM_MEMORY_LOWER_BOUND
  /\ \A reg \in Registers : reg \in OAM_MEMORY_LOWER_BOUND + OamSize .. ADDRESS_BUS_SIZE - 1
  /\ REG_DIV < REG_STAT /\ REG_STAT < REG_LY /\ REG_LY < REG_DMA /\ REG_DMA < BOOT_ROM_LOCK
  /\ \A v \in 0 .. DmaLimit - 1, i \in 0 .. OamSize - 1 :
       v * Page + i \in 0 .. ECHO_RAM_LOWER_BOUND_0 - 1

ASSUME WordsAssumption ==
  /\ WordSize \in Nat \ {0} /\ StatBits \in Nat \ {0} /\ WordSize % StatBits = 0
  /\ BOOT_ROM \in [0 .. BOOTROM_UPPER_BOUND - 1 -> BusWord]
  /\ Stores \subseteq Address \X BusWord
  /\ StatWrites \subseteq BusWord /\ LyWrites \subseteq BusWord
  /\ DOMAIN SkipBootStores \subseteq Registers
  /\ \A reg \in DOMAIN SkipBootStores : SkipBootStores[reg] \in BusWord
  /\ CartContents \subseteq [CartAddress -> BusWord]

VARIABLES
  memory,
  cart      \* what the cartridge answers now, by address

busVars == <<memory, cart>>

TypeOK ==
  /\ memory \in [Address -> BusWord]
  /\ cart \in CartContents

Zeros == [address \in Address |-> 0]

\* Through the boot ROM, or past it (Gameboy::skipBoot).
BusInit ==
  /\ memory \in {Zeros, [address \in Address |->
                           IF address \in DOMAIN SkipBootStores
                           THEN SkipBootStores[address] ELSE 0]}
  /\ cart \in CartContents

isBootRomEnabled == memory[BOOT_ROM_LOCK] % 2 = 0

read(address) ==
  IF address < BOOTROM_UPPER_BOUND /\ isBootRomEnabled THEN BOOT_ROM[address]
  ELSE IF refersToCartridge(address) THEN cart[address]
  ELSE memory[address]

-----------------------------------------------------------------------------
\* A store to the work RAM or to its echo lands in both.
Mut_OneWay(address) == {address} \cup (IF address \in EchoRam1 THEN {address + EchoDistance} ELSE {})
Copies(address) ==
  {address} \cup (IF address \in EchoRam0 THEN {address - EchoDistance} ELSE {})
            \cup (IF address \in EchoRam1 THEN {address + EchoDistance} ELSE {})

Stored(address, value) ==
  [a \in Address |-> IF a \in Copies(address) THEN value ELSE memory[a]]

\* A store to DMA copies a page into the OAM at once.
Mut_PastTheOverlays(value) ==
  [a \in Address |->
     CASE a = REG_DMA -> value
       [] a \in OAM   -> memory[value * Page + a - OAM_MEMORY_LOWER_BOUND]
       [] OTHER       -> memory[a]]
Transferred(value) ==
  [a \in Address |->
     CASE a = REG_DMA -> value
       [] a \in OAM   -> read(value * Page + a - OAM_MEMORY_LOWER_BOUND)
       [] OTHER       -> memory[a]]

\* The PPU stores the low bits of STAT, every other writer the high ones.
Mut_WholeWord(value, whois) == value
StatAfter(value, whois) ==
  LET old == memory[REG_STAT]
  IN  IF whois = "PPU"
      THEN (old \div StatBits) * StatBits + (value % StatBits)
      ELSE (value \div StatBits) * StatBits + (old % StatBits)

MemoryAfter(address, value, whois) ==
  IF address = REG_STAT THEN [memory EXCEPT ![address] = StatAfter(value, whois)]
  ELSE IF address = REG_LY /\ whois # "PPU" THEN memory
  ELSE IF address = REG_DIV /\ whois # "TC" THEN [memory EXCEPT ![address] = 0]
  ELSE IF address = REG_DMA /\ value < DmaLimit THEN Transferred(value)
  ELSE Stored(address, value)

\* A store to the cartridge may change its registers or its RAM, and so
\* anything it answers.
write(address, value, whois) ==
  IF refersToCartridge(address)
  THEN cart' \in CartContents /\ UNCHANGED memory
  ELSE memory' = MemoryAfter(address, value, whois) /\ UNCHANGED cart

ProgramStores == \E store \in Stores : write(store[1], store[2], "CPU")

\* PPU::setSTAT, PPU::setLY and TimerController::incrementTimer.
PictureStores ==
  \/ \E value \in StatWrites : write(REG_STAT, value, "PPU")
  \/ \E value \in LyWrites : write(REG_LY, value, "PPU")
Mut_DivOverflows == write(REG_DIV, memory[REG_DIV] + 1, "TC")
TimerStores == write(REG_DIV, (memory[REG_DIV] + 1) % WordSize, "TC")

BusNext == ProgramStores \/ PictureStores \/ TimerStores

BusSpec == BusInit /\ [][BusNext]_busVars
=============================================================================
