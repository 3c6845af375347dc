---------------------------- MODULE MemoryProofs ----------------------------
(***************************************************************************)
(* What the program reads and stores through the bus: the memory map with  *)
(* the echo and the DMA transfer, the cartridge behind it, and the         *)
(* controls in JOIP.  The three do not share state: each has its own       *)
(* specification here, BusSpec, Spec and the controls' HSpec.              *)
(***************************************************************************)
EXTENDS AddressBusProperties, ControllerProperties, JoypadProperties, TLAPS

-----------------------------------------------------------------------------
(* The memory map, for every map laid out in order.                        *)

EchoInv == DOMAIN memory = Address /\ EchoMirrors

\* What the map says about the echo: both parts are memory, are not the
\* cartridge, and hold neither a register nor the OAM.
LEMMA EchoIsApart ==
  ASSUME NEW a \in EchoRam1
  PROVE  /\ a \in Address /\ a + EchoDistance \in Address
         /\ a \notin Registers /\ a + EchoDistance \notin Registers
         /\ a \notin OAM /\ a + EchoDistance \notin OAM
         /\ a + EchoDistance \in EchoRam0 /\ a + EchoDistance \notin EchoRam1
         /\ a \notin EchoRam0
<1>1. a \in Int /\ ECHO_RAM_LOWER_BOUND_1 <= a /\ a < ECHO_RAM_UPPER_BOUND_1
  BY MapAssumption DEF EchoRam1
<1>2. /\ REG_DIV \in OAM_MEMORY_LOWER_BOUND + OamSize .. ADDRESS_BUS_SIZE - 1
      /\ REG_STAT \in OAM_MEMORY_LOWER_BOUND + OamSize .. ADDRESS_BUS_SIZE - 1
      /\ REG_LY \in OAM_MEMORY_LOWER_BOUND + OamSize .. ADDRESS_BUS_SIZE - 1
      /\ REG_DMA \in OAM_MEMORY_LOWER_BOUND + OamSize .. ADDRESS_BUS_SIZE - 1
      /\ BOOT_ROM_LOCK \in OAM_MEMORY_LOWER_BOUND + OamSize .. ADDRESS_BUS_SIZE - 1
  BY MapAssumption DEF Registers
<1> QED
  BY <1>1, <1>2, MapAssumption DEF EchoRam0, EchoRam1, Address, Registers, OAM

\* A store to one address of an echoed pair reaches the other, and no other
\* address reaches either.
LEMMA CopiesPair ==
  ASSUME NEW address \in Int, NEW a \in EchoRam1
  PROVE  a \in Copies(address) <=> a + EchoDistance \in Copies(address)
<1>1. a \in Int /\ EchoDistance \in Int
  BY MapAssumption DEF EchoRam1
<1>2. a \in Copies(address) <=> (address = a \/ address = a + EchoDistance)
  BY <1>1, EchoIsApart, MapAssumption DEF Copies, EchoRam0, EchoRam1
<1>3. a + EchoDistance \in Copies(address) <=> (address = a \/ address = a + EchoDistance)
  <2>1. address \in EchoRam0 => a + EchoDistance # address - EchoDistance
    BY <1>1, MapAssumption DEF EchoRam0, EchoRam1
  <2>2. address \in EchoRam1 => (a + EchoDistance = address + EchoDistance <=> address = a)
    BY <1>1
  <2>3. address = a => address \in EchoRam1
    OBVIOUS
  <2> QED
    BY <2>1, <2>2, <2>3 DEF Copies
<1> QED
  BY <1>2, <1>3

LEMMA WriteKeepsEcho ==
  ASSUME EchoInv, NEW address \in Int, NEW value, NEW whois
  PROVE  LET after == MemoryAfter(address, value, whois)
         IN  /\ DOMAIN after = Address
             /\ \A a \in EchoRam1 : after[a + EchoDistance] = after[a]
<1> DEFINE after == MemoryAfter(address, value, whois)
<1> DEFINE Good(m) == /\ DOMAIN m = Address
                      /\ \A a \in EchoRam1 : m[a + EchoDistance] = m[a]
<1> SUFFICES Good(after)
  OBVIOUS
<1>1. Good(memory)
  BY DEF EchoInv, EchoMirrors
<1>2. ASSUME NEW reg \in Registers, NEW v PROVE Good([memory EXCEPT ![reg] = v])
  BY <1>1, EchoIsApart
<1>3. Good(Transferred(value))
  <2>1. DOMAIN Transferred(value) = Address
    BY DEF Transferred
  <2>2. ASSUME NEW x \in Address, x \notin Registers, x \notin OAM
        PROVE  Transferred(value)[x] = memory[x]
    <3>1. x # REG_DMA
      BY <2>2 DEF Registers
    <3> QED
      BY <2>2, <3>1 DEF Transferred
  <2>3. ASSUME NEW a \in EchoRam1
        PROVE  Transferred(value)[a + EchoDistance] = Transferred(value)[a]
    BY <1>1, <2>2, EchoIsApart
  <2> QED
    BY <2>1, <2>3
<1>4. Good(Stored(address, value))
  BY <1>1, EchoIsApart, CopiesPair DEF Stored
<1>5. REG_STAT \in Registers /\ REG_DIV \in Registers
  BY DEF Registers
<1> HIDE DEF Good
<1>6. address = REG_STAT => Good([memory EXCEPT ![address] = StatAfter(value, whois)])
  BY <1>2, <1>5
<1>7. address = REG_DIV => Good([memory EXCEPT ![address] = 0])
  BY <1>2, <1>5
<1> QED
  BY <1>1, <1>3, <1>4, <1>6, <1>7 DEF MemoryAfter

LEMMA WriteStep ==
  ASSUME EchoInv, NEW address \in Int, NEW value, NEW whois, write(address, value, whois)
  PROVE  EchoInv'
<1>1. CASE memory' = memory
  BY <1>1 DEF EchoInv, EchoMirrors
<1>2. CASE memory' = MemoryAfter(address, value, whois)
  BY <1>2, WriteKeepsEcho DEF EchoInv, EchoMirrors
<1> QED
  BY <1>1, <1>2 DEF write

LEMMA InitEcho == BusInit => EchoInv
<1> SUFFICES ASSUME BusInit PROVE EchoInv
  OBVIOUS
<1>1. ASSUME NEW a \in EchoRam1 PROVE memory[a + EchoDistance] = memory[a]
  BY <1>1, EchoIsApart, WordsAssumption DEF BusInit, Zeros
<1> QED
  BY <1>1 DEF BusInit, Zeros, EchoInv, EchoMirrors

LEMMA StepEcho == EchoInv /\ [BusNext]_busVars => EchoInv'
<1> SUFFICES ASSUME EchoInv, [BusNext]_busVars PROVE EchoInv'
  OBVIOUS
<1>1. REG_STAT \in Int /\ REG_LY \in Int /\ REG_DIV \in Int
  BY MapAssumption DEF Registers
<1>2. CASE ProgramStores
  <2>1. PICK store \in Stores : write(store[1], store[2], "CPU")
    BY <1>2 DEF ProgramStores
  <2>2. store[1] \in Int
    BY <2>1, WordsAssumption, MapAssumption DEF Address
  <2> QED
    BY <2>1, <2>2, WriteStep
<1>3. CASE PictureStores
  BY <1>1, <1>3, WriteStep DEF PictureStores
<1>4. CASE TimerStores
  BY <1>1, <1>4, WriteStep DEF TimerStores
<1>5. CASE UNCHANGED busVars
  BY <1>5 DEF busVars, EchoInv, EchoMirrors
<1> QED
  BY <1>2, <1>3, <1>4, <1>5 DEF BusNext

\* The work RAM and its echo never differ, whatever is stored anywhere by the
\* program, the PPU, the timer unit or a DMA transfer.
THEOREM EchoesAgree == BusSpec => []EchoMirrors
<1>1. EchoInv => EchoMirrors
  BY DEF EchoInv
<1> QED
  BY <1>1, InitEcho, StepEcho, PTL DEF BusSpec

\* A DMA transfer never reads what it writes, nor does it move an overlay.
LEMMA TransferCopies ==
  ASSUME NEW value \in BusWord, value < DmaLimit, write(REG_DMA, value, "CPU"),
         NEW i \in 0 .. OamSize - 1
  PROVE  /\ memory'[OAM_MEMORY_LOWER_BOUND + i] = read(value * Page + i)
         /\ read(value * Page + i)' = read(value * Page + i)
<1> DEFINE source == value * Page + i
<1>0. value \in Nat
  <2>1. WordSize \in Nat
    BY WordsAssumption
  <2> QED
    BY <2>1 DEF BusWord
<1>1. REG_DMA \in OAM_MEMORY_LOWER_BOUND + OamSize .. ADDRESS_BUS_SIZE - 1
      /\ BOOT_ROM_LOCK \in OAM_MEMORY_LOWER_BOUND + OamSize .. ADDRESS_BUS_SIZE - 1
      /\ REG_STAT \in Int /\ REG_LY \in Int /\ REG_DIV \in Int
  BY MapAssumption DEF Registers
<1>2. ~refersToCartridge(REG_DMA)
  BY <1>1, MapAssumption DEF refersToCartridge
<1>3. memory' = Transferred(value) /\ cart' = cart
  BY <1>1, <1>2, MapAssumption DEF write, MemoryAfter
<1>4. OAM_MEMORY_LOWER_BOUND + i \in OAM /\ OAM_MEMORY_LOWER_BOUND + i \in Address
      /\ OAM_MEMORY_LOWER_BOUND + i # REG_DMA
  BY <1>1, MapAssumption DEF OAM, Address
<1>5. source \in 0 .. ECHO_RAM_LOWER_BOUND_0 - 1
  <2>1. value \in Nat /\ DmaLimit \in Nat
    BY <1>0, MapAssumption
  <2>2. value \in 0 .. DmaLimit - 1
    BY <2>1
  <2> QED
    BY <2>2, MapAssumption
<1> HIDE DEF source
<1>6. memory'[OAM_MEMORY_LOWER_BOUND + i] = read(value * Page + i)
  <2>1. value * Page + (OAM_MEMORY_LOWER_BOUND + i) - OAM_MEMORY_LOWER_BOUND = value * Page + i
    <3>1. Page \in Int /\ OAM_MEMORY_LOWER_BOUND \in Int /\ OamSize \in Int
      BY MapAssumption
    <3>2. ASSUME NEW v \in Int, NEW p \in Int, NEW k \in Int, NEW l \in Int
          PROVE  v * p + (l + k) - l = v * p + k
      OBVIOUS
    <3> QED
      BY <1>0, <3>1, <3>2
  <2> QED
    BY <1>3, <1>4, <2>1 DEF Transferred
<1>7. ASSUME NEW a \in Address, a # REG_DMA, a \notin OAM PROVE memory'[a] = memory[a]
  BY <1>3, <1>7 DEF Transferred
<1>8. memory'[source] = memory[source] /\ memory'[BOOT_ROM_LOCK] = memory[BOOT_ROM_LOCK]
  <2>1. source \in Address /\ source # REG_DMA /\ source \notin OAM
    BY <1>1, <1>5, MapAssumption DEF Address, OAM
  <2>2. BOOT_ROM_LOCK \in Address /\ BOOT_ROM_LOCK # REG_DMA /\ BOOT_ROM_LOCK \notin OAM
    BY <1>1, MapAssumption DEF Address, OAM
  <2> QED
    BY <1>7, <2>1, <2>2
<1>9. read(source)' = read(source)
  BY <1>3, <1>8 DEF read, isBootRomEnabled
<1> QED
  BY <1>6, <1>9 DEF source

\* Every transfer copies what the program would read, as it reads it then.
THEOREM TransfersCopy == BusSpec => DmaCopiesWhatIsRead
<1>1. ASSUME [BusNext]_busVars
      PROVE  \A value \in BusWord :
               (value < DmaLimit /\ write(REG_DMA, value, "CPU")) =>
                 \A i \in 0 .. OamSize - 1 :
                   /\ memory'[OAM_MEMORY_LOWER_BOUND + i] = read(value * Page + i)
                   /\ read(value * Page + i)' = read(value * Page + i)
  BY TransferCopies
<1> QED
  BY <1>1, PTL DEF BusSpec, DmaCopiesWhatIsRead

-----------------------------------------------------------------------------
(* Words and the registers.                                                *)

LEMMA Division ==
  ASSUME NEW a \in Int, NEW n \in Nat \ {0}
  PROVE  /\ a \div n \in Int /\ a % n \in 0 .. n - 1
         /\ a = (a \div n) * n + (a % n)
  OBVIOUS

LEMMA Order ==
  ASSUME NEW p \in Int, NEW q \in Int, NEW n \in Nat \ {0}, p < q
  PROVE  p * n + n <= q * n
  OBVIOUS

\* Quotient and remainder are the only ones that fit.
LEMMA Unique ==
  ASSUME NEW n \in Nat \ {0}, NEW q \in Int, NEW r \in 0 .. n - 1,
         NEW p \in Int, NEW s \in 0 .. n - 1, q * n + r = p * n + s
  PROVE  q = p /\ r = s
<1> DEFINE qn == q * n
<1> DEFINE pn == p * n
<1>1. qn \in Int /\ pn \in Int /\ qn + r = pn + s
  OBVIOUS
<1>2. q < p => qn + n <= pn
  BY Order
<1>3. p < q => pn + n <= qn
  BY Order
<1>4. q = p => qn = pn
  OBVIOUS
<1> HIDE DEF qn, pn
<1>5. ~(q < p) /\ ~(p < q)
  BY <1>1, <1>2, <1>3
<1>6. q = p
  BY <1>5
<1> QED
  BY <1>1, <1>4, <1>6

\* The high bits of one word and the low bits of another make a word, and it
\* has them.
LEMMA Spliced ==
  ASSUME NEW high \in BusWord, NEW low \in BusWord
  PROVE  LET word == (high \div StatBits) * StatBits + (low % StatBits)
         IN  /\ word \in BusWord
             /\ word \div StatBits = high \div StatBits
             /\ word % StatBits = low % StatBits
<1> DEFINE q == high \div StatBits
<1> DEFINE r == low % StatBits
<1> DEFINE w == WordSize \div StatBits
<1> DEFINE qn == q * StatBits
<1> DEFINE wn == w * StatBits
<1>1. StatBits \in Nat \ {0} /\ WordSize \in Nat \ {0} /\ high \in Nat /\ high < WordSize
      /\ low \in Int /\ high \in Int /\ WordSize \in Int
  BY WordsAssumption DEF BusWord
<1>2. q \in Int /\ r \in 0 .. StatBits - 1 /\ w \in Int
  BY <1>1, Division
<1>3. high % StatBits \in 0 .. StatBits - 1 /\ high = qn + (high % StatBits)
  BY <1>1, Division
<1>4. WordSize = wn
  <2>1. WordSize = wn + 0
    BY <1>1, Division, WordsAssumption
  <2> QED
    BY <1>1, <1>2, <2>1
<1> HIDE DEF q, r, w
<1>5. qn \in Int /\ wn \in Int /\ qn + r \in Int
  BY <1>1, <1>2
<1>6. w <= q => wn <= qn
  <2>1. w < q => wn + StatBits <= qn
    BY <1>1, <1>2, Order
  <2>2. w = q => wn = qn
    OBVIOUS
  <2> HIDE DEF wn, qn
  <2> QED
    BY <1>1, <1>2, <1>5, <2>1, <2>2
<1>7. q < w => qn + StatBits <= wn
  BY <1>1, <1>2, Order
<1>8. q < 0 => qn + StatBits <= 0
  <2>1. q < 0 => q * StatBits + StatBits <= 0 * StatBits
    BY <1>1, <1>2, Order
  <2> QED
    BY <1>1, <2>1
<1>9. q >= 0 => qn >= 0
  <2>1. 0 < q => 0 * StatBits + StatBits <= q * StatBits
    BY <1>1, <1>2, Order
  <2>2. 0 * StatBits = 0
    BY <1>1
  <2>3. q = 0 => qn = 0
    BY <2>2
  <2> HIDE DEF qn
  <2>4. 0 < q => StatBits <= qn
    BY <1>1, <2>1, <2>2 DEF qn
  <2> QED
    BY <1>1, <1>2, <1>5, <2>3, <2>4
<1> DEFINE p == (qn + r) \div StatBits
<1> DEFINE s == (qn + r) % StatBits
<1>10. p = q /\ s = r
  <2>1. p \in Int /\ s \in 0 .. StatBits - 1 /\ qn + r = p * StatBits + s
    BY <1>1, <1>5, Division
  <2> HIDE DEF p, s
  <2> QED
    BY <1>1, <1>2, <2>1, Unique
<1> HIDE DEF qn, wn
<1>11. qn + r \in BusWord
  BY <1>1, <1>2, <1>3, <1>4, <1>5, <1>6, <1>7, <1>8, <1>9 DEF BusWord
<1> QED
  BY <1>10, <1>11 DEF q, r, qn, p, s

LEMMA RegistersApart ==
  /\ Registers \subseteq Address
  /\ \A reg \in Registers : reg \in Int /\ reg \notin OAM /\ ~refersToCartridge(reg)
                            /\ reg \notin EchoRam0 /\ reg \notin EchoRam1
  /\ REG_STAT \in Registers /\ REG_LY \in Registers /\ REG_DIV \in Registers
  /\ REG_DMA \in Registers
  /\ REG_STAT # REG_LY /\ REG_STAT # REG_DIV /\ REG_LY # REG_DIV
  /\ REG_DMA # REG_STAT /\ REG_DMA # REG_LY /\ REG_DMA # REG_DIV
<1>1. ASSUME NEW reg \in Registers
      PROVE  reg \in Address /\ reg \in Int /\ reg \notin OAM /\ ~refersToCartridge(reg)
             /\ reg \notin EchoRam0 /\ reg \notin EchoRam1
  <2>1. reg \in OAM_MEMORY_LOWER_BOUND + OamSize .. ADDRESS_BUS_SIZE - 1
    BY MapAssumption
  <2> QED
    BY <2>1, MapAssumption DEF Address, OAM, refersToCartridge, EchoRam0, EchoRam1
<1>2. REG_STAT \in Registers /\ REG_LY \in Registers /\ REG_DIV \in Registers
      /\ REG_DMA \in Registers
  BY DEF Registers
<1>3. REG_STAT \in Int /\ REG_LY \in Int /\ REG_DIV \in Int /\ REG_DMA \in Int
  BY <1>1, <1>2
<1> QED
  BY <1>1, <1>2, <1>3, MapAssumption

\* A plain store to one address reaches no register other than its own.
LEMMA StoreApart ==
  ASSUME NEW address \in Address, NEW value, NEW reg \in Registers, reg # address
  PROVE  Stored(address, value)[reg] = memory[reg]
<1>1. reg \notin Copies(address)
  <2>1. address \in EchoRam0 => address - EchoDistance # reg
    <3> SUFFICES ASSUME address \in EchoRam0 PROVE address - EchoDistance \in EchoRam1
      BY RegistersApart
    <3> QED
      BY MapAssumption DEF EchoRam0, EchoRam1
  <2>2. address \in EchoRam1 => address + EchoDistance # reg
    <3> SUFFICES ASSUME address \in EchoRam1 PROVE address + EchoDistance \in EchoRam0
      BY RegistersApart
    <3> QED
      BY EchoIsApart
  <2> QED
    BY <2>1, <2>2 DEF Copies
<1>2. reg \in Address
  BY RegistersApart
<1> QED
  BY <1>1, <1>2 DEF Stored

\* What the program would read in a page that DMA accepts is a word.
LEMMA ReadsWord ==
  ASSUME TypeOK, NEW address \in Address
  PROVE  read(address) \in BusWord
<1>1. address < BOOTROM_UPPER_BOUND => BOOT_ROM[address] \in BusWord
  <2> SUFFICES ASSUME address < BOOTROM_UPPER_BOUND PROVE address \in 0 .. BOOTROM_UPPER_BOUND - 1
    BY WordsAssumption
  <2> QED
    BY MapAssumption DEF Address
<1>2. refersToCartridge(address) => cart[address] \in BusWord
  BY WordsAssumption DEF TypeOK, CartAddress
<1> QED
  BY <1>1, <1>2 DEF read, TypeOK

LEMMA TransferType ==
  ASSUME TypeOK, NEW value \in BusWord, value < DmaLimit
  PROVE  Transferred(value) \in [Address -> BusWord]
<1>1. value \in 0 .. DmaLimit - 1
  <2>1. WordSize \in Nat /\ DmaLimit \in Nat
    BY WordsAssumption, MapAssumption
  <2> QED
    BY <2>1 DEF BusWord
<1>2. ASSUME NEW a \in OAM
      PROVE  read(value * Page + a - OAM_MEMORY_LOWER_BOUND) \in BusWord
  <2> DEFINE i == a - OAM_MEMORY_LOWER_BOUND
  <2>1. i \in 0 .. OamSize - 1
    BY MapAssumption DEF OAM
  <2>2. value * Page + i \in 0 .. ECHO_RAM_LOWER_BOUND_0 - 1
    BY <1>1, <2>1, MapAssumption
  <2>3. value * Page + a - OAM_MEMORY_LOWER_BOUND = value * Page + i
    <3>1. Page \in Int /\ OAM_MEMORY_LOWER_BOUND \in Int /\ a \in Int /\ value \in Int
      BY <1>1, MapAssumption DEF OAM
    <3> DEFINE vp == value * Page
    <3>2. vp \in Int
      BY <3>1
    <3> HIDE DEF vp
    <3>3. vp + a - OAM_MEMORY_LOWER_BOUND = vp + i
      BY <3>1, <3>2
    <3> QED
      BY <3>3 DEF vp
  <2>4. ASSUME NEW source \in 0 .. ECHO_RAM_LOWER_BOUND_0 - 1 PROVE read(source) \in BusWord
    <3>1. REG_DMA \in OAM_MEMORY_LOWER_BOUND + OamSize .. ADDRESS_BUS_SIZE - 1
      BY MapAssumption DEF Registers
    <3>2. source \in Address
      BY <3>1, MapAssumption DEF Address
    <3> QED
      BY <3>2, ReadsWord
  <2> HIDE DEF i
  <2> QED
    BY <2>2, <2>3, <2>4
<1>3. ASSUME NEW a \in Address PROVE Transferred(value)[a] \in BusWord
  <2>1. CASE a = REG_DMA
    BY <2>1, RegistersApart DEF Transferred
  <2>2. CASE a # REG_DMA /\ a \in OAM
    BY <1>2, <2>2 DEF Transferred
  <2>3. CASE a # REG_DMA /\ a \notin OAM
    BY <2>3 DEF Transferred, TypeOK
  <2> QED
    BY <2>1, <2>2, <2>3
<1>4. Transferred(value) = [a \in Address |-> Transferred(value)[a]]
  BY DEF Transferred
<1> QED
  BY <1>3, <1>4

\* Any store keeps the types, and leaves each owner its register.
LEMMA StoreStep ==
  ASSUME TypeOK, NEW address \in Address, NEW value \in BusWord, NEW whois,
         write(address, value, whois)
  PROVE  /\ TypeOK'
         /\ address # REG_STAT => memory'[REG_STAT] = memory[REG_STAT]
         /\ address = REG_STAT /\ whois = "PPU" =>
              memory'[REG_STAT] \div StatBits = memory[REG_STAT] \div StatBits
         /\ address = REG_STAT /\ whois # "PPU" =>
              memory'[REG_STAT] % StatBits = memory[REG_STAT] % StatBits
         /\ address # REG_LY \/ whois # "PPU" => memory'[REG_LY] = memory[REG_LY]
         /\ address # REG_DIV => memory'[REG_DIV] = memory[REG_DIV]
         /\ address = REG_DIV => memory'[REG_DIV] = IF whois = "TC" THEN value ELSE 0
<1> USE RegistersApart
<1>0. \A reg \in Registers : reg \in Address
  OBVIOUS
<1>1. CASE refersToCartridge(address)
  <2>1. UNCHANGED memory /\ cart' \in CartContents
    BY <1>1 DEF write
  <2>2. address # REG_STAT /\ address # REG_DIV /\ address # REG_LY
    BY <1>1
  <2> QED
    BY <2>1, <2>2 DEF TypeOK
<1>2. CASE ~refersToCartridge(address)
  <2>1. memory' = MemoryAfter(address, value, whois) /\ cart' = cart
    BY <1>2 DEF write
  <2>2. CASE address = REG_STAT
    <3>1. memory' = [memory EXCEPT ![REG_STAT] = StatAfter(value, whois)]
      BY <2>1, <2>2 DEF MemoryAfter
    <3>2. /\ StatAfter(value, whois) \in BusWord
          /\ whois = "PPU" => StatAfter(value, whois) \div StatBits = memory[REG_STAT] \div StatBits
          /\ whois # "PPU" => StatAfter(value, whois) % StatBits = memory[REG_STAT] % StatBits
      <4>1. memory[REG_STAT] \in BusWord
        BY <1>0 DEF TypeOK
      <4> QED
        BY <4>1, Spliced DEF StatAfter
    <3>3. memory' \in [Address -> BusWord] /\ memory'[REG_STAT] = StatAfter(value, whois)
          /\ \A reg \in Registers \ {REG_STAT} : memory'[reg] = memory[reg]
      BY <1>0, <3>1, <3>2 DEF TypeOK
    <3> QED
      BY <2>1, <2>2, <3>2, <3>3 DEF TypeOK
  <2>3. CASE address = REG_LY /\ whois # "PPU"
    BY <2>1, <2>3 DEF MemoryAfter, TypeOK
  <2>4. CASE address = REG_DIV /\ whois # "TC"
    <3>1. memory' = [memory EXCEPT ![REG_DIV] = 0]
      BY <2>1, <2>4 DEF MemoryAfter
    <3>2. 0 \in BusWord
      BY WordsAssumption DEF BusWord
    <3>3. memory' \in [Address -> BusWord] /\ memory'[REG_DIV] = 0
          /\ \A reg \in Registers \ {REG_DIV} : memory'[reg] = memory[reg]
      BY <1>0, <3>1, <3>2 DEF TypeOK
    <3> QED
      BY <2>1, <2>4, <3>3 DEF TypeOK
  <2>5. CASE address = REG_DMA /\ value < DmaLimit
    <3>1. memory' = Transferred(value)
      BY <2>1, <2>5 DEF MemoryAfter
    <3>2. \A reg \in Registers \ {REG_DMA} : memory'[reg] = memory[reg]
      BY <1>0, <3>1 DEF Transferred
    <3> QED
      BY <2>1, <2>5, <3>1, <3>2, TransferType DEF TypeOK
  <2>6. CASE /\ address # REG_STAT /\ ~(address = REG_LY /\ whois # "PPU")
             /\ ~(address = REG_DIV /\ whois # "TC") /\ ~(address = REG_DMA /\ value < DmaLimit)
    <3>1. memory' = Stored(address, value)
      BY <2>1, <2>6 DEF MemoryAfter
    <3>2. memory' \in [Address -> BusWord]
      BY <3>1 DEF Stored, TypeOK
    <3>3. \A reg \in Registers : reg # address => memory'[reg] = memory[reg]
      BY <3>1, StoreApart
    <3>4. memory'[address] = value
      BY <3>1 DEF Stored, Copies
    <3> QED
      BY <2>1, <2>6, <3>2, <3>3, <3>4 DEF TypeOK
  <2> QED
    BY <2>2, <2>3, <2>4, <2>5, <2>6
<1> QED
  BY <1>1, <1>2

\* Who stores, and where.
LEMMA NextStores ==
  ASSUME TypeOK
  PROVE  /\ ProgramStores => \E address \in Address, value \in BusWord : write(address, value, "CPU")
         /\ PictureStores => \E address \in {REG_STAT, REG_LY}, value \in BusWord :
                               write(address, value, "PPU")
         /\ TimerStores => \E value \in BusWord : /\ value = (memory[REG_DIV] + 1) % WordSize
                                              /\ write(REG_DIV, value, "TC")
<1>1. ProgramStores => \E address \in Address, value \in BusWord : write(address, value, "CPU")
  BY WordsAssumption DEF ProgramStores
<1>2. PictureStores => \E address \in {REG_STAT, REG_LY}, value \in BusWord :
                         write(address, value, "PPU")
  BY WordsAssumption DEF PictureStores
<1>3. (memory[REG_DIV] + 1) % WordSize \in BusWord
  <2>1. memory[REG_DIV] \in BusWord
    BY RegistersApart DEF TypeOK
  <2> QED
    BY <2>1, WordsAssumption DEF BusWord
<1> QED
  BY <1>1, <1>2, <1>3 DEF TimerStores

LEMMA StepType == TypeOK /\ [BusNext]_busVars => TypeOK'
<1> SUFFICES ASSUME TypeOK, [BusNext]_busVars PROVE TypeOK'
  OBVIOUS
<1>1. CASE UNCHANGED busVars
  BY <1>1 DEF busVars, TypeOK
<1>2. CASE ProgramStores
  BY <1>2, NextStores, StoreStep
<1>3. CASE PictureStores
  BY <1>3, NextStores, StoreStep, RegistersApart
<1>4. CASE TimerStores
  BY <1>4, NextStores, StoreStep, RegistersApart
<1> QED
  BY <1>1, <1>2, <1>3, <1>4 DEF BusNext

\* Every address holds a word, whatever DMA copies there: TypeOK.
THEOREM TypeCorrect == BusSpec => []TypeOK
<1>1. BusInit => TypeOK
  <2> SUFFICES ASSUME BusInit PROVE TypeOK
    OBVIOUS
  <2>1. 0 \in BusWord
    BY WordsAssumption DEF BusWord
  <2>2. \A address \in DOMAIN SkipBootStores : SkipBootStores[address] \in BusWord
    BY WordsAssumption
  <2> QED
    BY <2>1, <2>2 DEF BusInit, Zeros, TypeOK
<1> QED
  BY <1>1, StepType, PTL DEF BusSpec

\* The low bits of STAT and LY are the PPU's, the rest of STAT the program's,
\* and DIV only counts or restarts: RegistersHaveOwners.
THEOREM OwnersKeep == BusSpec => RegistersHaveOwners
<1> DEFINE Low == memory'[REG_STAT] % StatBits = memory[REG_STAT] % StatBits
                  /\ memory'[REG_LY] = memory[REG_LY]
<1> DEFINE High == memory'[REG_STAT] \div StatBits = memory[REG_STAT] \div StatBits
<1> DEFINE Div == memory'[REG_DIV] \in {memory[REG_DIV], 0, (memory[REG_DIV] + 1) % WordSize}
<1>1. ASSUME TypeOK, BusNext
      PROVE  (PictureStores \/ Low) /\ (ProgramStores \/ High) /\ Div
  <2>1. CASE ProgramStores
    <3>1. PICK address \in Address, value \in BusWord : write(address, value, "CPU")
      BY <1>1, <2>1, NextStores
    <3>2. Low /\ Div
      BY <1>1, <3>1, StoreStep
    <3> QED
      BY <2>1, <3>2
  <2>2. CASE PictureStores
    <3>1. PICK address \in {REG_STAT, REG_LY}, value \in BusWord : write(address, value, "PPU")
      BY <1>1, <2>2, NextStores
    <3>2. High /\ Div
      BY <1>1, <3>1, StoreStep, RegistersApart
    <3> QED
      BY <2>2, <3>2
  <2>3. CASE TimerStores
    <3>1. PICK value \in BusWord : /\ value = (memory[REG_DIV] + 1) % WordSize
                                /\ write(REG_DIV, value, "TC")
      BY <1>1, <2>3, NextStores
    <3>2. Low /\ High /\ Div
      BY <1>1, <3>1, StoreStep, RegistersApart
    <3> QED
      BY <3>2
  <2> QED
    BY <1>1, <2>1, <2>2, <2>3 DEF BusNext
<1>2. ASSUME TypeOK, [BusNext]_busVars
      PROVE  [(PictureStores \/ Low) /\ (ProgramStores \/ High) /\ Div]_busVars
  BY <1>1, <1>2
<1> QED
  BY <1>2, TypeCorrect, PTL DEF BusSpec, RegistersHaveOwners

-----------------------------------------------------------------------------
(* The cartridge, for every ROM, RAM and build.                            *)

(* The controller MBC1 alone, in every build and with every program, the   *)
(* ones that select a mode while the RAM is enabled included.              *)

LEMMA Mbc1Assumption ==
  /\ BankSize \in Nat \ {0} /\ ROMSize \in 0 .. 6 /\ RAMSize \in Nat /\ NDEBUG \in BOOLEAN
  /\ RomValues \subseteq mbc1!Word /\ Values \subseteq mbc1!Word /\ RamData \subseteq mbc1!Word
  BY CartridgeAssumption DEF Word, mbc1!Word

LEMMA Mbc1UpperBits == mbc1!UpperBits \in mbc1!RomBank
<1>1. ASSUME NEW b \in ramBank \cap 0 .. ROMSize - 5 PROVE b + 5 \in 0 .. ROMSize
  BY <1>1, Mbc1Assumption
<1> QED
  BY <1>1 DEF mbc1!UpperBits, mbc1!RomBank

LEMMA Mbc1Bitmask == mbc1!getBankBitmask \in mbc1!RomBank
  BY Mbc1Assumption DEF mbc1!getBankBitmask, mbc1!RomBank

LEMMA Mbc1Zero == mbc1!getZeroBank \in mbc1!RomBank
  BY Mbc1UpperBits DEF mbc1!getZeroBank, mbc1!RomBank

LEMMA Mbc1High == mbc1!getHighBank \in mbc1!RomBank
<1>1. romBank \cap mbc1!getBankBitmask \in mbc1!RomBank
  BY Mbc1Bitmask DEF mbc1!RomBank
<1> QED
  BY <1>1 DEF mbc1!getHighBank, mbc1!RomBank

\* The RAM and what is read from it keep their types: every access is checked
\* against the size of the RAM, and what is out of it is arbitrary.
LEMMA Mbc1Memory ==
  ASSUME mbc1!MemTypeOK
  PROVE  /\ UNCHANGED mbc1!memVars => mbc1!MemTypeOK'
         /\ mbc1!ReadNothing => mbc1!MemTypeOK'
         /\ \A bank \in mbc1!RomBank, offset \in mbc1!RomOffset :
              mbc1!ReadRom(bank, offset) => mbc1!MemTypeOK'
         /\ \A a : mbc1!ReadRam(a) => mbc1!MemTypeOK'
         /\ \A a : \A value \in mbc1!Word : mbc1!StoreRam(a, value) => mbc1!MemTypeOK'
<1> USE DEF mbc1!MemTypeOK
<1>1. UNCHANGED mbc1!memVars => mbc1!MemTypeOK'
  BY DEF mbc1!memVars
<1>2. mbc1!ReadNothing => mbc1!MemTypeOK'
  BY DEF mbc1!ReadNothing, mbc1!NoWord, mbc1!Word
<1>3. ASSUME NEW bank \in mbc1!RomBank, NEW offset \in mbc1!RomOffset, mbc1!ReadRom(bank, offset)
      PROVE  mbc1!MemTypeOK'
  <2>1. out' = [bank |-> bank, offset |-> offset] /\ ended' = FALSE /\ ram' = ram
    BY <1>3 DEF mbc1!ReadRom
  <2>2. out' \in [bank : mbc1!RomBank, offset : mbc1!RomOffset]
    BY <2>1
  <2> QED
    BY <2>1, <2>2
<1>4. ASSUME NEW a, mbc1!ReadRam(a) PROVE mbc1!MemTypeOK'
  <2>1. ram' = ram
    BY <1>4 DEF mbc1!ReadRam
  <2>2. ended' \in BOOLEAN
    BY <1>4 DEF mbc1!ReadRam
  <2>3. out' \in [value : mbc1!Word]
    <3>1. CASE a \in mbc1!RamAddress
      <4>1. ram[a] \in mbc1!Word /\ out' = [value |-> ram[a]]
        BY <1>4, <3>1 DEF mbc1!ReadRam
      <4> QED
        BY <4>1
    <3>2. CASE a \notin mbc1!RamAddress
      BY <1>4, <3>2 DEF mbc1!ReadRam
    <3> QED
      BY <3>1, <3>2
  <2> QED
    BY <2>1, <2>2, <2>3
<1>5. ASSUME NEW a, NEW value \in mbc1!Word, mbc1!StoreRam(a, value) PROVE mbc1!MemTypeOK'
  BY <1>5 DEF mbc1!StoreRam
<1> QED
  BY <1>1, <1>2, <1>3, <1>4, <1>5

LEMMA Mbc1StoreMemory ==
  ASSUME mbc1!MemTypeOK, NEW mode, NEW address, NEW value \in mbc1!Word,
         mbc1!StoreIfEnabled(mode, address, value)
  PROVE  mbc1!MemTypeOK'
<1>1. CASE mbc1!HasRam
  BY <1>1, Mbc1Memory DEF mbc1!StoreIfEnabled
<1>2. CASE ~mbc1!HasRam
  BY <1>2, Mbc1Memory DEF mbc1!StoreIfEnabled
<1> QED
  BY <1>1, <1>2

LEMMA Mbc1InitType == mbc1!Init => mbc1!TypeOK
<1> SUFFICES ASSUME mbc1!Init PROVE mbc1!TypeOK
  OBVIOUS
<1>1. romBank \in SUBSET mbc1!getBankBitmask
  BY Mbc1Assumption DEF mbc1!Init, mbc1!getBankBitmask
<1>2. mbc1!MemTypeOK
  BY DEF mbc1!Init, mbc1!MemInit, mbc1!MemTypeOK, mbc1!Word, mbc1!NoWord
<1> QED
  BY <1>1, <1>2 DEF mbc1!Init, mbc1!TypeOK

LEMMA Mbc1StepType == mbc1!TypeOK /\ [mbc1!Next]_(mbc1!vars) => mbc1!TypeOK'
<1> SUFFICES ASSUME mbc1!TypeOK, [mbc1!Next]_(mbc1!vars) PROVE mbc1!TypeOK'
  OBVIOUS
<1> USE DEF mbc1!TypeOK, mbc1!registers
<1>1. mbc1!MemTypeOK
  OBVIOUS
<1> DEFINE RegistersOK ==
      /\ romBank \in SUBSET mbc1!getBankBitmask
      /\ ramBank \in SUBSET {0, 1}
      /\ modeFlag \in BOOLEAN
      /\ externalRamEnabled \in BOOLEAN
<1>2. CASE mbc1!Read
  <2>1. RegistersOK'
    BY <1>2 DEF mbc1!Read, mbc1!ReadZero, mbc1!ReadHigh, mbc1!ReadExternal, mbc1!getBankBitmask
  <2>2. mbc1!MemTypeOK'
    BY <1>1, <1>2, Mbc1Memory, Mbc1Zero, Mbc1High
       DEF mbc1!Read, mbc1!ReadZero, mbc1!ReadHigh, mbc1!ReadExternal
  <2> QED
    BY <2>1, <2>2
<1>3. CASE mbc1!StoreRamEnable
  BY <1>1, <1>3, Mbc1Memory DEF mbc1!StoreRamEnable, mbc1!getBankBitmask
<1>4. CASE mbc1!StoreRomBank
  <2>1. romBank' \in SUBSET mbc1!getBankBitmask
    BY <1>4, Mbc1Assumption DEF mbc1!StoreRomBank, mbc1!NotZero, mbc1!getBankBitmask
  <2> QED
    BY <1>1, <1>4, <2>1, Mbc1Memory DEF mbc1!StoreRomBank, mbc1!getBankBitmask
<1>5. CASE mbc1!StoreRamBank
  BY <1>1, <1>5, Mbc1Memory DEF mbc1!StoreRamBank, mbc1!getBankBitmask
<1>6. CASE mbc1!StoreExternal
  <2>1. mbc1!MemTypeOK'
    <3>1. PICK address \in mbc1!CartRam, value \in RamData :
            mbc1!StoreIfEnabled(modeFlag, address, value)
      BY <1>6 DEF mbc1!StoreExternal
    <3> QED
      BY <1>1, <3>1, Mbc1StoreMemory, Mbc1Assumption
  <2> QED
    BY <1>6, <2>1 DEF mbc1!StoreExternal, mbc1!getBankBitmask
<1>7. CASE mbc1!StoreMode
  <2>1. mbc1!MemTypeOK'
    <3>1. CASE NDEBUG
      <4>1. PICK address \in mbc1!ModeRegister, value \in Values :
              mbc1!StoreIfEnabled(modeFlag', address, value)
        BY <1>7, <3>1 DEF mbc1!StoreMode
      <4> QED
        BY <1>1, <4>1, Mbc1StoreMemory, Mbc1Assumption
    <3>2. CASE ~NDEBUG
      BY <1>1, <1>7, <3>2 DEF mbc1!StoreMode, mbc1!MemTypeOK
    <3> QED
      BY <3>1, <3>2
  <2> QED
    BY <1>7, <2>1 DEF mbc1!StoreMode, mbc1!getBankBitmask
<1>8. CASE UNCHANGED mbc1!vars
  BY <1>1, <1>8, Mbc1Memory DEF mbc1!vars, mbc1!getBankBitmask
<1> QED
  BY <1>2, <1>3, <1>4, <1>5, <1>6, <1>7, <1>8 DEF mbc1!Next, mbc1!Store

\* The registers and the RAM of MBC1 keep their types in every build and for every
\* size of ROM and RAM.
THEOREM Mbc1TypeCorrect == mbc1!Spec => []mbc1!TypeOK
<1> QED
  BY Mbc1InitType, Mbc1StepType, PTL DEF mbc1!Spec

\* The register of the ROM bank is never empty, for a store of zero selects
\* bank 1.
RomBankSelected == romBank # {}

LEMMA Mbc1StepSelected == mbc1!TypeOK /\ RomBankSelected /\ [mbc1!Next]_(mbc1!vars) => RomBankSelected'
<1> SUFFICES ASSUME mbc1!TypeOK, RomBankSelected, [mbc1!Next]_(mbc1!vars) PROVE RomBankSelected'
  OBVIOUS
<1> USE DEF RomBankSelected
<1>1. CASE UNCHANGED romBank
  BY <1>1
<1>2. CASE mbc1!StoreRomBank
  BY <1>2 DEF mbc1!StoreRomBank, mbc1!NotZero
<1> QED
  BY <1>1, <1>2 DEF mbc1!Next, mbc1!Read, mbc1!Store, mbc1!ReadZero, mbc1!ReadHigh,
     mbc1!ReadExternal, mbc1!StoreRamEnable,
     mbc1!StoreRamBank, mbc1!StoreExternal, mbc1!StoreMode, mbc1!registers, mbc1!vars

\* The windows of MBC1 always show banks the ROM has, and a ROM below 1 MB never shows
\* its first bank in both.
THEOREM Mbc1Windows == mbc1!Spec => []mbc1!WindowsInRange
<1>1. mbc1!Init => RomBankSelected
  BY DEF mbc1!Init, RomBankSelected
<1>2. mbc1!TypeOK /\ RomBankSelected => mbc1!WindowsInRange
  <2> SUFFICES ASSUME mbc1!TypeOK, RomBankSelected PROVE mbc1!WindowsInRange
    OBVIOUS
  <2>1. ROMSize < 5 => mbc1!getHighBank # mbc1!getZeroBank
    BY Mbc1Assumption DEF mbc1!getHighBank, mbc1!getZeroBank, mbc1!TypeOK, RomBankSelected
  <2> QED
    BY <2>1, Mbc1Zero, Mbc1High DEF mbc1!WindowsInRange
<1> QED
  BY <1>1, <1>2, Mbc1InitType, Mbc1StepType, Mbc1StepSelected, PTL DEF mbc1!Spec

-----------------------------------------------------------------------------
(* The cartridge in the machine.                                           *)

\* The registers of MBC1, whichever controller there is: the register of the
\* ROM bank is never empty, for a store of zero selects bank 1.
SelectionInv ==
  controller = "MBC1" =>
    /\ romBank # {} /\ romBank \subseteq mbc1!getBankBitmask
    /\ ramBank \subseteq {0, 1}

LEMMA BankMask == 0 \in mbc1!getBankBitmask /\ mbc1!getBankBitmask \subseteq 0 .. ROMSize
  BY CartridgeAssumption DEF mbc1!getBankBitmask

LEMMA InitSelection == Init => SelectionInv
  BY BankMask DEF Init, SelectionInv, mbc1!Init

\* A step of MBC1 that is not a store to a register of a bank keeps both.
LEMMA Mbc1Selection ==
  ASSUME SelectionInv, Mbc1Step
  PROVE  SelectionInv'
<1>1. controller = "MBC1" /\ mbc1!Next /\ UNCHANGED controller
  BY DEF Mbc1Step
<1>2. /\ romBank # {} /\ romBank \subseteq mbc1!getBankBitmask
      /\ ramBank \subseteq {0, 1}
  BY <1>1 DEF SelectionInv
<1>3. CASE mbc1!StoreRomBank
  <2>1. romBank' # {} /\ romBank' \subseteq mbc1!getBankBitmask
    BY <1>3, BankMask DEF mbc1!StoreRomBank, mbc1!NotZero
  <2>2. ramBank' = ramBank
    BY <1>3 DEF mbc1!StoreRomBank
  <2> QED
    BY <1>2, <2>1, <2>2 DEF SelectionInv, mbc1!getBankBitmask
<1>4. CASE mbc1!StoreRamBank
  <2>1. ramBank' \subseteq {0, 1} /\ romBank' = romBank
    BY <1>4 DEF mbc1!StoreRamBank
  <2> QED
    BY <1>2, <2>1 DEF SelectionInv, mbc1!getBankBitmask
<1>5. CASE UNCHANGED <<romBank, ramBank>>
  BY <1>2, <1>5 DEF SelectionInv, mbc1!getBankBitmask
<1> QED
  BY <1>1, <1>3, <1>4, <1>5
     DEF mbc1!Next, mbc1!Read, mbc1!Store, mbc1!ReadZero, mbc1!ReadHigh,
         mbc1!ReadExternal, mbc1!StoreRamEnable, mbc1!StoreMode, mbc1!StoreExternal,
         mbc1!registers

LEMMA StepSelection == SelectionInv /\ [Next]_vars => SelectionInv'
<1> SUFFICES ASSUME SelectionInv, [Next]_vars PROVE SelectionInv'
  OBVIOUS
<1>1. CASE Mbc1Step
  BY <1>1, Mbc1Selection
<1>2. CASE Mbc0Step
  BY <1>2 DEF Mbc0Step, SelectionInv
<1>3. CASE Mbc3Step
  BY <1>3 DEF Mbc3Step, SelectionInv
<1>4. CASE UNCHANGED vars
  BY <1>4 DEF vars, SelectionInv, mbc1!getBankBitmask
<1> QED
  BY <1>1, <1>2, <1>3, <1>4 DEF Next

LEMMA UpperBitsInRange == mbc1!UpperBits \in RomBank
<1>1. ASSUME NEW b \in ramBank \cap 0 .. ROMSize - 5 PROVE b + 5 \in 0 .. ROMSize
  BY <1>1, CartridgeAssumption
<1> QED
  BY <1>1 DEF mbc1!UpperBits, RomBank

LEMMA SelectionShown == SelectionInv => WindowsInRange
<1> SUFFICES ASSUME SelectionInv, controller = "MBC1" PROVE mbc1!WindowsInRange
  BY DEF WindowsInRange
<1>1. mbc1!getZeroBank \in RomBank
  BY UpperBitsInRange DEF mbc1!getZeroBank, RomBank
<1>2. romBank \cap mbc1!getBankBitmask = romBank /\ romBank # {} /\ romBank \in RomBank
  BY BankMask DEF SelectionInv, RomBank
<1>3. mbc1!getHighBank \in RomBank
  BY <1>2 DEF mbc1!getHighBank, RomBank
<1>4. ROMSize < 5 => mbc1!getHighBank # mbc1!getZeroBank
  BY <1>2, CartridgeAssumption DEF mbc1!getHighBank, mbc1!getZeroBank
<1> QED
  BY <1>1, <1>3, <1>4 DEF mbc1!WindowsInRange, mbc1!RomBank, RomBank

\* Whatever the program stores in the registers, the windows of the cartridge
\* in the machine show banks the ROM has: WindowsInRange.
THEOREM WindowsCorrect == Spec => []WindowsInRange
<1> QED
  BY InitSelection, StepSelection, SelectionShown, PTL DEF Spec

-----------------------------------------------------------------------------
(* The refinement, for every size of ROM and RAM and whatever banks the    *)
(* program selects.                                                        *)

Cell == mbc3!RamBank \X RamOffset

LEMMA Numbers ==
  /\ mbc3!Number({}) = 0
  /\ \A b \in mbc3!RamBank : mbc3!Number(b) \in {0, 1, 2, 3}
  /\ \A b, c \in mbc3!RamBank : mbc3!Number(b) = mbc3!Number(c) => b = c
<1>1. ASSUME NEW b \in mbc3!RamBank, NEW c \in mbc3!RamBank, mbc3!Number(b) = mbc3!Number(c)
      PROVE  b = c
  <2>1. (0 \in b <=> 0 \in c) /\ (1 \in b <=> 1 \in c)
    BY <1>1 DEF mbc3!Number
  <2>2. \A x \in {0, 1} : x \in b <=> x \in c
    BY <2>1
  <2>3. b \subseteq {0, 1} /\ c \subseteq {0, 1}
    BY DEF mbc3!RamBank
  <2>4. b \subseteq c /\ c \subseteq b
    BY <2>2, <2>3
  <2> QED
    BY <2>4
<1> QED
  BY <1>1 DEF mbc3!Number

\* Every cell has its own address.
LEMMA CellsApart ==
  ASSUME NEW b \in mbc3!RamBank, NEW c \in mbc3!RamBank,
         NEW o \in RamOffset, NEW p \in RamOffset
  PROVE  /\ At(<<b, o>>) \in 0 .. 4 * BankSize - 1
         /\ At(<<b, o>>) = At(<<c, p>>) => b = c /\ o = p
<1> DEFINE m == mbc3!Number(b)
<1> DEFINE n == mbc3!Number(c)
<1>1. m \in {0, 1, 2, 3} /\ n \in {0, 1, 2, 3} /\ (m = n => b = c)
  BY Numbers
<1>2. BankSize \in Nat \ {0} /\ o \in 0 .. BankSize - 1 /\ p \in 0 .. BankSize - 1
  BY CartridgeAssumption DEF RamOffset
<1> DEFINE Bm == BankSize * m
<1> DEFINE Bn == BankSize * n
<1> HIDE DEF m, n
<1>3. /\ m = 0 => Bm = 0
      /\ m = 1 => Bm = BankSize
      /\ m = 2 => Bm = 2 * BankSize
      /\ m = 3 => Bm = 3 * BankSize
  BY <1>2
<1>4. /\ n = 0 => Bn = 0
      /\ n = 1 => Bn = BankSize
      /\ n = 2 => Bn = 2 * BankSize
      /\ n = 3 => Bn = 3 * BankSize
  BY <1>2
<1>5. At(<<b, o>>) = Bm + o /\ At(<<c, p>>) = Bn + p
  BY DEF At, m, n
<1> HIDE DEF Bm, Bn
<1>6. Bm + o \in 0 .. 4 * BankSize - 1
  BY <1>1, <1>2, <1>3
<1>7. Bm + o = Bn + p => m = n /\ o = p
  BY <1>1, <1>2, <1>3, <1>4
<1> QED
  BY <1>1, <1>5, <1>6, <1>7

\* Every address of the RAM is that of a cell.
LEMMA CellsCover ==
  ASSUME NEW a \in RamAddress
  PROVE  \E cell \in RamCell : At(cell) = a
<1>1. BankSize \in Nat \ {0} /\ a \in Nat
  BY CartridgeAssumption DEF RamAddress
<1>2. setRAMSize <= 4 * BankSize /\ a < 4 * BankSize
  <2>1. setRAMSize \in Int /\ setRAMSize <= 4 * BankSize
    BY <1>1 DEF setRAMSize
  <2> QED
    BY <1>1, <2>1 DEF RamAddress
<1>3. /\ mbc3!Number({}) = 0 /\ mbc3!Number({0}) = 1
      /\ mbc3!Number({1}) = 2 /\ mbc3!Number({0, 1}) = 3
      /\ {{}, {0}, {1}, {0, 1}} \subseteq mbc3!RamBank
  BY DEF mbc3!Number, mbc3!RamBank
<1>4. ASSUME NEW b \in mbc3!RamBank, NEW o \in RamOffset, At(<<b, o>>) = a
      PROVE  \E cell \in RamCell : At(cell) = a
  <2>1. <<b, o>> \in RamCell
    BY <1>4 DEF RamCell
  <2> QED
    BY <1>4, <2>1
<1>5. CASE a < BankSize
  <2>1. a \in RamOffset /\ At(<<{}, a>>) = a
    BY <1>1, <1>3, <1>5 DEF RamOffset, At
  <2> QED
    BY <1>3, <1>4, <2>1
<1>6. CASE BankSize <= a /\ a < 2 * BankSize
  <2>1. a - BankSize \in RamOffset /\ At(<<{0}, a - BankSize>>) = a
    BY <1>1, <1>3, <1>6 DEF RamOffset, At
  <2> QED
    BY <1>3, <1>4, <2>1
<1>7. CASE 2 * BankSize <= a /\ a < 3 * BankSize
  <2>1. a - 2 * BankSize \in RamOffset /\ At(<<{1}, a - 2 * BankSize>>) = a
    BY <1>1, <1>3, <1>7 DEF RamOffset, At
  <2> QED
    BY <1>3, <1>4, <2>1
<1>8. CASE 3 * BankSize <= a
  <2>1. a - 3 * BankSize \in RamOffset /\ At(<<{0, 1}, a - 3 * BankSize>>) = a
    BY <1>1, <1>2, <1>3, <1>8 DEF RamOffset, At
  <2> QED
    BY <1>3, <1>4, <2>1
<1> QED
  BY <1>1, <1>5, <1>6, <1>7, <1>8

\* The address MBC1 computes, with 16 bits, is that of a cell in the window.
LEMMA Mbc1Address ==
  ASSUME setRAMSize # 0, NEW address \in CartRam, ramBank \in mbc3!RamBank, NEW mode \in BOOLEAN
  PROVE  \E o \in RamOffset :
           mbc1!getRamAddress(mode, address) = At(<<IF mode THEN ramBank ELSE {}, o>>)
<1> DEFINE o == address - CartRamBase
<1> DEFINE space == 8 * BankSize
<1>1. BankSize \in Nat \ {0} /\ space \in Nat \ {0} /\ o \in 0 .. BankSize - 1
  BY CartridgeAssumption DEF CartRam, CartRamBase
<1>2. ASSUME NEW w \in Nat \ {0}, NEW x \in 0 .. w - 1 PROVE x % w = x
  OBVIOUS
<1>3. setRAMSize \in Nat \ {0}
  BY <1>1 DEF setRAMSize
<1>4. o % space = o
  <2>1. o \in 0 .. space - 1
    BY <1>1
  <2> HIDE DEF o, space
  <2> QED
    BY <1>1, <1>2, <2>1
<1>5. mbc1!Number(ramBank) = mbc3!Number(ramBank)
  BY DEF mbc1!Number, mbc3!Number
<1>6. mbc1!getRamAddress(mode, address)
        = IF mode THEN (BankSize * mbc1!Number(ramBank) + (o % space)) % space
          ELSE (o % space) % setRAMSize
  BY DEF mbc1!getRamAddress, mbc1!setRAMSize, setRAMSize,
         mbc1!CartRamBase, CartRamBase
<1>7. CASE mode
  <2>1. At(<<ramBank, o>>) \in 0 .. 4 * BankSize - 1
    BY <1>1, CellsApart DEF RamOffset
  <2>2. At(<<ramBank, o>>) \in 0 .. space - 1
    BY <1>1, <2>1
  <2>3. BankSize * mbc1!Number(ramBank) + (o % space) = At(<<ramBank, o>>)
    BY <1>4, <1>5 DEF At
  <2>4. mbc1!getRamAddress(mode, address) = At(<<ramBank, o>>)
    <3> HIDE DEF o, space
    <3> QED
      BY <1>1, <1>2, <1>6, <1>7, <2>2, <2>3
  <2> QED
    BY <1>1, <1>7, <2>4 DEF RamOffset
<1>8. CASE ~mode
  <2> DEFINE p == o % setRAMSize
  <2>1. p \in 0 .. o
    <3>1. ASSUME NEW w \in Nat \ {0}, NEW x \in Nat PROVE x % w \in 0 .. x
      <4>1. CASE x < w
        BY <1>2, <4>1
      <4>2. CASE x >= w
        BY <4>2
      <4> QED
        BY <4>1, <4>2
    <3> HIDE DEF o
    <3> QED
      BY <1>1, <1>3, <3>1
  <2>2. p \in RamOffset
    <3> HIDE DEF o, p
    <3> QED
      BY <1>1, <2>1 DEF RamOffset
  <2>3. At(<<{}, p>>) = p
    BY <1>1, <2>2, Numbers DEF At, RamOffset
  <2>4. mbc1!getRamAddress(mode, address) = p
    BY <1>4, <1>6, <1>8
  <2> HIDE DEF p
  <2> QED
    BY <1>8, <2>2, <2>3, <2>4
<1> QED
  BY <1>7, <1>8

LEMMA Mbc3Address ==
  ASSUME NEW address \in CartRam, ramBank \in mbc3!RamBank
  PROVE  \E o \in RamOffset : mbc3!ramAddress(address) = At(<<ramBank, o>>)
<1> DEFINE o == address - CartRamBase
<1> DEFINE Bn == BankSize * mbc3!Number(ramBank)
<1>1. address \in Int /\ CartRamBase \in Int /\ o \in RamOffset
  BY CartridgeAssumption DEF CartRam, CartRamBase, RamOffset
<1>2. Bn \in Int
  BY Numbers, CartridgeAssumption
<1>3. mbc3!ramAddress(address) = Bn + address - CartRamBase
  BY DEF mbc3!ramAddress, mbc3!CartRamBase, CartRamBase
<1>4. At(<<ramBank, o>>) = Bn + o
  BY DEF At
<1> HIDE DEF Bn
<1>5. Bn + address - CartRamBase = Bn + o
  BY <1>1, <1>2
<1>6. mbc3!ramAddress(address) = At(<<ramBank, o>>)
  BY <1>3, <1>4, <1>5
<1> QED
  BY <1>1, <1>6

\* The state of the abstract memory.
firstWindow == IF controller = "MBC1" THEN mbc1!getZeroBank ELSE {}
romWindow == IF controller = "MBC1" THEN mbc1!getHighBank ELSE romBank
ramWindow == IF controller = "MBC1" /\ ~modeFlag THEN {} ELSE ramBank
ramOpen == IF controller = "MBC1" THEN mbc1!HasRam ELSE externalRamEnabled
cells == [cell \in RamCell |-> ram[At(cell)]]

windows == <<firstWindow, romWindow, ramWindow, ramOpen>>

MemoryOK == DOMAIN ram = RamAddress /\ ended \in BOOLEAN

BankedInv ==
  /\ SelectionInv
  /\ controller \in {"MBC0", "MBC1", "MBC3"}
  /\ controller = "MBC0" => romBank = {0}
  /\ MemoryOK
  /\ externalRamEnabled \in BOOLEAN /\ modeFlag \in BOOLEAN

\* What each access does, in the terms of the abstract memory.
LEMMA RomRead ==
  ASSUME MemoryOK, ~ended, NEW bank \in {firstWindow, romWindow}, NEW offset \in RomOffset,
         ReadRom(bank, offset), UNCHANGED windows
  PROVE  MemoryOK' /\ Banked!Next
<1>1. cells' = cells
  BY DEF ReadRom, cells
<1>2. Banked!ReadBank(bank)
  <2>1. CASE bank \in RomBank
    BY <1>1, <2>1 DEF ReadRom, MemoryOK, Banked!ReadBank, Banked!registers, windows,
       firstWindow, romWindow, ramWindow, ramOpen, cells
  <2>2. CASE bank \notin RomBank
    BY <1>1, <2>2 DEF ReadRom, Banked!ReadBank, Banked!registers, windows,
       firstWindow, romWindow, ramWindow, ramOpen, cells
  <2> QED
    BY <2>1, <2>2
<1>3. Banked!ReadRom
  BY <1>2 DEF Banked!ReadRom, firstWindow, romWindow
<1>4. MemoryOK'
  BY DEF MemoryOK, ReadRom, RamAddress, setRAMSize
<1> QED
  BY <1>3, <1>4 DEF Banked!Next

LEMMA RamRead ==
  ASSUME MemoryOK, ~ended, ramOpen, ramWindow \in mbc3!RamBank, NEW o \in RamOffset,
         ReadRam(At(<<ramWindow, o>>)), UNCHANGED windows
  PROVE  MemoryOK' /\ Banked!Next
<1> DEFINE cell == <<ramWindow, o>>
<1>1. cell \in RamCell <=> At(cell) \in RamAddress
  BY DEF RamCell
<1>2. cells' = cells /\ (cell \in RamCell => cells[cell] = ram[At(cell)])
  BY DEF ReadRam, cells
<1>3. Banked!ReadCell(cell)
  <2>1. CASE cell \in RamCell
    BY <1>1, <1>2, <2>1 DEF ReadRam, MemoryOK, Banked!ReadCell, cells
  <2>2. CASE cell \notin RamCell
    BY <1>1, <2>2 DEF ReadRam, Banked!ReadCell
  <2> QED
    BY <2>1, <2>2
<1>4. Banked!ReadRam
  BY <1>2, <1>3 DEF Banked!ReadRam, Banked!Answers, Banked!registers, windows,
     firstWindow, romWindow, ramWindow, ramOpen, cells
<1>5. MemoryOK'
  BY DEF MemoryOK, ReadRam, RamAddress, setRAMSize
<1> QED
  BY <1>4, <1>5 DEF Banked!Next

LEMMA NothingRead ==
  ASSUME MemoryOK, ~ended, ~(ramOpen /\ ramWindow \in mbc3!RamBank), ReadNothing,
         UNCHANGED windows
  PROVE  MemoryOK' /\ Banked!Next
<1>1. cells' = cells /\ MemoryOK'
  BY DEF ReadNothing, cells, MemoryOK, RamAddress, setRAMSize
<1>2. Banked!ReadRam
  BY <1>1 DEF ReadNothing, Banked!ReadRam, Banked!Answers, Banked!registers, windows,
     firstWindow, romWindow, ramWindow, ramOpen, cells
<1> QED
  BY <1>1, <1>2 DEF Banked!Next

\* A store to a cell changes that cell of the abstract memory and no other.
LEMMA CellStored ==
  ASSUME MemoryOK, NEW cell \in RamCell, NEW value, ram' = [ram EXCEPT ![At(cell)] = value]
  PROVE  cells' = [cells EXCEPT ![cell] = value]
<1>1. PICK b \in mbc3!RamBank, o \in RamOffset : cell = <<b, o>> /\ At(<<b, o>>) \in RamAddress
  BY DEF RamCell
<1>2. ASSUME NEW d \in RamCell PROVE cells'[d] = [cells EXCEPT ![cell] = value][d]
  <2>1. PICK c \in mbc3!RamBank, p \in RamOffset : d = <<c, p>> /\ At(<<c, p>>) \in RamAddress
    BY DEF RamCell
  <2>2. cells[d] = ram[At(d)] /\ cells'[d] = ram'[At(d)]
    BY DEF cells
  <2>3. CASE d = cell
    BY <1>1, <2>2, <2>3 DEF MemoryOK, cells
  <2>4. CASE d # cell
    <3>1. At(d) # At(cell)
      BY <1>1, <2>1, <2>4, CellsApart
    <3>2. ram'[At(d)] = ram[At(d)]
      BY <1>1, <2>1, <3>1 DEF MemoryOK
    <3>3. [cells EXCEPT ![cell] = value][d] = cells[d]
      BY <2>4 DEF cells
    <3> QED
      BY <2>2, <3>2, <3>3
  <2> QED
    BY <2>3, <2>4
<1> QED
  BY <1>2 DEF cells

LEMMA RamStored ==
  ASSUME MemoryOK, ~ended, ramOpen, ramWindow \in mbc3!RamBank, NEW o \in RamOffset,
         NEW value \in Word, StoreRam(At(<<ramWindow, o>>), value), UNCHANGED windows
  PROVE  MemoryOK' /\ Banked!Next
<1> DEFINE cell == <<ramWindow, o>>
<1>1. cell \in RamCell <=> At(cell) \in RamAddress
  BY DEF RamCell
<1>2. MemoryOK'
  BY DEF MemoryOK, StoreRam, RamAddress, setRAMSize
<1>3. Banked!StoreCell(cell, value)
  <2>1. CASE cell \in RamCell
    <3>1. ram' = [ram EXCEPT ![At(cell)] = value] /\ ended' = ended
      BY <1>1, <2>1 DEF StoreRam, MemoryOK
    <3>2. cells' = [cells EXCEPT ![cell] = value]
      BY <2>1, <3>1, CellStored
    <3> QED
      BY <2>1, <3>1, <3>2 DEF Banked!StoreCell, cells
  <2>2. CASE cell \notin RamCell
    BY <1>1, <2>2 DEF StoreRam, Banked!StoreCell, cells
  <2> QED
    BY <2>1, <2>2
<1>4. Banked!StoreRam
  BY <1>3 DEF StoreRam, Banked!StoreRam, Banked!Answers, Banked!registers, windows,
     firstWindow, romWindow, ramWindow, ramOpen
<1> QED
  BY <1>2, <1>4 DEF Banked!Next

\* A step that moves one window, or opens or shuts the RAM.
LEMMA RegisterMoved ==
  ASSUME MemoryOK, ~ended, UNCHANGED <<ram, out, ended>>,
         \/ UNCHANGED <<firstWindow, ramWindow, ramOpen>>
         \/ firstWindow' \in SUBSET (5 .. ROMSize) /\ UNCHANGED <<romWindow, ramOpen>>
         \/ ramOpen' \in BOOLEAN /\ UNCHANGED <<firstWindow, romWindow, ramWindow>>
  PROVE  MemoryOK' /\ Banked!Next
<1>1. cells' = cells /\ MemoryOK'
  BY DEF cells, MemoryOK, RamAddress, setRAMSize
<1>2. CASE UNCHANGED <<firstWindow, ramWindow, ramOpen>>
  BY <1>1, <1>2 DEF Banked!Next, Banked!MoveRomWindow,
     firstWindow, romWindow, ramWindow, ramOpen, cells
<1>3. CASE firstWindow' \in SUBSET (5 .. ROMSize) /\ UNCHANGED <<romWindow, ramOpen>>
  BY <1>1, <1>3 DEF Banked!Next, Banked!MoveRamWindow,
     firstWindow, romWindow, ramWindow, ramOpen, cells
<1>4. CASE ramOpen' \in BOOLEAN /\ UNCHANGED <<firstWindow, romWindow, ramWindow>>
  BY <1>1, <1>4 DEF Banked!Next, Banked!OpenOrShut,
     firstWindow, romWindow, ramWindow, ramOpen, cells
<1> QED
  BY <1>2, <1>3, <1>4

\* Either controller accesses the memory every cartridge has.
LEMMA SameMemory ==
  /\ \A b, o : (mbc1!ReadRom(b, o) <=> ReadRom(b, o)) /\ (mbc3!ReadRom(b, o) <=> ReadRom(b, o))
  /\ \A a : (mbc1!ReadRam(a) <=> ReadRam(a)) /\ (mbc3!ReadRam(a) <=> ReadRam(a))
  /\ \A a, v : (mbc1!StoreRam(a, v) <=> StoreRam(a, v)) /\ (mbc3!StoreRam(a, v) <=> StoreRam(a, v))
  /\ (mbc1!ReadNothing <=> ReadNothing) /\ (mbc3!ReadNothing <=> ReadNothing)
  /\ mbc1!CartRam = CartRam /\ mbc3!CartRam = CartRam
  /\ mbc1!RomOffset = RomOffset /\ mbc3!RomOffset = RomOffset
<1>1. \A b, o : (mbc1!ReadRom(b, o) <=> ReadRom(b, o)) /\ (mbc3!ReadRom(b, o) <=> ReadRom(b, o))
  BY DEF mbc1!ReadRom, mbc3!ReadRom, ReadRom, mbc1!RomBank, mbc3!RomBank, RomBank,
         mbc1!Word, mbc3!Word, Word
<1>2. RamAddress = mbc1!RamAddress /\ RamAddress = mbc3!RamAddress
  BY DEF RamAddress, mbc1!RamAddress, mbc3!RamAddress, setRAMSize, mbc1!setRAMSize, mbc3!setRAMSize
<1>3. \A a : (mbc1!ReadRam(a) <=> ReadRam(a)) /\ (mbc3!ReadRam(a) <=> ReadRam(a))
  BY <1>2 DEF mbc1!ReadRam, mbc3!ReadRam, ReadRam, mbc1!Word, mbc3!Word, Word
<1>4. \A a, v : (mbc1!StoreRam(a, v) <=> StoreRam(a, v)) /\ (mbc3!StoreRam(a, v) <=> StoreRam(a, v))
  BY <1>2 DEF mbc1!StoreRam, mbc3!StoreRam, StoreRam
<1>5. (mbc1!ReadNothing <=> ReadNothing) /\ (mbc3!ReadNothing <=> ReadNothing)
  BY DEF mbc1!ReadNothing, mbc3!ReadNothing, ReadNothing, mbc1!NoWord, mbc3!NoWord, NoWord
<1>6. mbc1!CartRam = CartRam /\ mbc3!CartRam = CartRam
  BY DEF mbc1!CartRam, mbc3!CartRam, CartRam, mbc1!CartRamBase,
         mbc3!CartRamBase, CartRamBase
<1>7. mbc1!RomOffset = RomOffset /\ mbc3!RomOffset = RomOffset
  BY DEF mbc1!RomOffset, mbc3!RomOffset, RomOffset
<1> QED
  BY <1>1, <1>3, <1>4, <1>5, <1>6, <1>7

-----------------------------------------------------------------------------
(* The steps of each controller.                                           *)

AbstractStep ==
  Banked!Next \/ ModeStoreFallsThrough \/ AssertionFails \/ UNCHANGED Banked!vars

LEMMA MemoryKept ==
  ASSUME MemoryOK, UNCHANGED <<windows, ram, out, ended>>
  PROVE  MemoryOK' /\ AbstractStep
BY DEF AbstractStep, MemoryOK, RamAddress, setRAMSize, Banked!vars, Banked!registers,
   windows, firstWindow, romWindow, ramWindow, ramOpen, cells

LEMMA Mbc0Implements ==
  ASSUME BankedInv, Mbc0Step
  PROVE  BankedInv' /\ AbstractStep
<1>1. controller = "MBC0" /\ ~ended
      /\ UNCHANGED <<controller, romBank, ramBank, externalRamEnabled, modeFlag>>
  BY DEF Mbc0Step
<1>2. romBank = {0} /\ MemoryOK /\ firstWindow = {} /\ romWindow = {0} /\ UNCHANGED windows
  BY <1>1 DEF BankedInv, windows, firstWindow, romWindow, ramWindow, ramOpen
<1>3. CASE ROMSize = 0 \/ NDEBUG
  <2>1. PICK bank \in {{}, {0}}, offset \in RomOffset : ReadRom(bank, offset)
    BY <1>3 DEF Mbc0Step
  <2>2. MemoryOK' /\ Banked!Next
    BY <1>1, <1>2, <2>1, RomRead
  <2> QED
    BY <1>1, <2>2 DEF AbstractStep, BankedInv, SelectionInv
<1>4. CASE ~(ROMSize = 0 \/ NDEBUG)
  <2>1. ended' = TRUE /\ UNCHANGED <<ram, out>>
    BY <1>4 DEF Mbc0Step
  <2>2. AssertionFails /\ MemoryOK'
    BY <1>1, <1>2, <1>4, <2>1 DEF AssertionFails, MemoryOK, RamAddress, setRAMSize
  <2> QED
    BY <1>1, <2>2 DEF AbstractStep, BankedInv, SelectionInv
<1> QED
  BY <1>3, <1>4

LEMMA Mbc3Implements ==
  ASSUME BankedInv, Mbc3Step
  PROVE  BankedInv' /\ AbstractStep
<1>1. controller = "MBC3" /\ controller' = "MBC3" /\ modeFlag' = modeFlag /\ mbc3!Next /\ ~ended
  BY DEF Mbc3Step, mbc3!Next
<1>2. /\ firstWindow = {} /\ romWindow = romBank /\ ramWindow = ramBank
      /\ ramOpen = externalRamEnabled
      /\ firstWindow' = {} /\ romWindow' = romBank' /\ ramWindow' = ramBank'
      /\ ramOpen' = externalRamEnabled'
  BY <1>1 DEF firstWindow, romWindow, ramWindow, ramOpen
<1>3. MemoryOK /\ modeFlag \in BOOLEAN /\ externalRamEnabled \in BOOLEAN
  BY DEF BankedInv
<1>4. ASSUME MemoryOK', externalRamEnabled' \in BOOLEAN
      PROVE  BankedInv'
  BY <1>1, <1>3, <1>4 DEF BankedInv, SelectionInv
<1>5. ASSUME UNCHANGED <<romBank, ramBank, externalRamEnabled>> PROVE UNCHANGED windows
  BY <1>2, <1>5 DEF windows
<1>6. CASE mbc3!ReadZero \/ mbc3!ReadHigh
  <2>1. PICK offset \in RomOffset : ReadRom({}, offset) \/ ReadRom(romBank, offset)
    BY <1>6, SameMemory DEF mbc3!ReadZero, mbc3!ReadHigh
  <2>2. UNCHANGED <<romBank, ramBank, externalRamEnabled>>
    BY <1>6 DEF mbc3!ReadZero, mbc3!ReadHigh, mbc3!registers
  <2>3. MemoryOK' /\ Banked!Next
    BY <1>1, <1>2, <1>3, <1>5, <2>1, <2>2, RomRead
  <2> QED
    BY <1>3, <1>4, <2>2, <2>3 DEF AbstractStep
<1>7. CASE mbc3!ReadExternal
  <2>1. UNCHANGED <<romBank, ramBank, externalRamEnabled>>
    BY <1>7 DEF mbc3!ReadExternal, mbc3!registers
  <2>2. UNCHANGED windows
    BY <1>5, <2>1
  <2>3. PICK address \in CartRam :
          IF mbc3!RamMapped THEN ReadRam(mbc3!ramAddress(address))
          ELSE IF ramBank \in mbc3!ClockRegister /\ ~NDEBUG
               THEN ended' = TRUE /\ UNCHANGED <<ram, out>>
               ELSE ReadNothing
    BY <1>7, SameMemory DEF mbc3!ReadExternal
  <2>4. mbc3!RamMapped <=> ramOpen /\ ramWindow \in mbc3!RamBank
    BY <1>2 DEF mbc3!RamMapped
  <2>5. CASE mbc3!RamMapped
    <3>1. PICK o \in RamOffset : mbc3!ramAddress(address) = At(<<ramWindow, o>>)
      BY <1>2, <2>3, <2>4, <2>5, Mbc3Address
    <3>2. MemoryOK' /\ Banked!Next
      BY <1>1, <1>3, <2>2, <2>3, <2>4, <2>5, <3>1, RamRead
    <3> QED
      BY <1>3, <1>4, <2>1, <3>2 DEF AbstractStep
  <2>6. CASE ~mbc3!RamMapped /\ ramBank \in mbc3!ClockRegister /\ ~NDEBUG
    <3>1. ended' = TRUE /\ UNCHANGED <<ram, out>>
      BY <2>3, <2>6
    <3>2. AssertionFails /\ MemoryOK'
      BY <1>1, <1>3, <2>1, <2>6, <3>1 DEF AssertionFails, MemoryOK, RamAddress, setRAMSize
    <3> QED
      BY <1>3, <1>4, <2>1, <3>2 DEF AbstractStep
  <2>7. CASE ~mbc3!RamMapped /\ ReadNothing
    <3>1. MemoryOK' /\ Banked!Next
      BY <1>1, <1>3, <2>2, <2>4, <2>7, NothingRead
    <3> QED
      BY <1>3, <1>4, <2>1, <3>1 DEF AbstractStep
  <2> QED
    BY <2>3, <2>5, <2>6, <2>7
<1>8. CASE mbc3!StoreRamEnable
  <2>1. externalRamEnabled' \in BOOLEAN /\ UNCHANGED <<romBank, ramBank, ram, out, ended>>
    BY <1>8 DEF mbc3!StoreRamEnable, mbc3!memVars
  <2>2. MemoryOK' /\ Banked!Next
    BY <1>1, <1>2, <1>3, <2>1, RegisterMoved
  <2> QED
    BY <1>4, <2>1, <2>2 DEF AbstractStep
<1>9. CASE mbc3!StoreRomBank \/ mbc3!StoreRamBank
  <2>1. UNCHANGED <<externalRamEnabled, ram, out, ended>>
        /\ (UNCHANGED romBank \/ UNCHANGED ramBank)
    BY <1>9 DEF mbc3!StoreRomBank, mbc3!StoreRamBank, mbc3!memVars
  <2>2. {} \in SUBSET (5 .. ROMSize)
    OBVIOUS
  <2>3. MemoryOK' /\ Banked!Next
    BY <1>1, <1>2, <1>3, <2>1, <2>2, RegisterMoved
  <2> QED
    BY <1>3, <1>4, <2>1, <2>3 DEF AbstractStep
<1>10. CASE mbc3!StoreExternal
  <2>1. UNCHANGED <<romBank, ramBank, externalRamEnabled>>
    BY <1>10 DEF mbc3!StoreExternal, mbc3!registers
  <2>2. UNCHANGED windows
    BY <1>5, <2>1
  <2>3. PICK address \in CartRam, value \in RamData :
          IF mbc3!RamMapped THEN StoreRam(mbc3!ramAddress(address), value)
          ELSE UNCHANGED <<ram, out, ended>>
    BY <1>10, SameMemory DEF mbc3!StoreExternal, mbc3!memVars
  <2>4. CASE mbc3!RamMapped
    <3>1. ramOpen /\ ramWindow \in mbc3!RamBank
      BY <1>2, <2>4 DEF mbc3!RamMapped
    <3>2. PICK o \in RamOffset : mbc3!ramAddress(address) = At(<<ramWindow, o>>)
      BY <1>2, <2>3, <3>1, Mbc3Address
    <3>3. value \in Word
      BY <2>3, CartridgeAssumption
    <3>4. MemoryOK' /\ Banked!Next
      BY <1>1, <1>3, <2>2, <2>3, <2>4, <3>1, <3>2, <3>3, RamStored
    <3> QED
      BY <1>3, <1>4, <2>1, <3>4 DEF AbstractStep
  <2>5. CASE ~mbc3!RamMapped
    <3>1. MemoryOK' /\ AbstractStep
      BY <1>3, <2>2, <2>3, <2>5, MemoryKept
    <3> QED
      BY <1>3, <1>4, <2>1, <3>1
  <2> QED
    BY <2>4, <2>5
<1> QED
  BY <1>1, <1>6, <1>7, <1>8, <1>9, <1>10 DEF mbc3!Next

\* The windows of MBC1.  The second one of a ROM of 1 MB or more never moves.
LEMMA Mbc1WindowsMove ==
  ASSUME BankedInv, controller = "MBC1", controller' = "MBC1"
  PROVE  /\ firstWindow = mbc1!getZeroBank /\ romWindow = mbc1!getHighBank
         /\ ramWindow = (IF modeFlag THEN ramBank ELSE {}) /\ ramOpen = mbc1!HasRam
         /\ ramBank \in mbc3!RamBank /\ ramWindow \in mbc3!RamBank
         /\ firstWindow' \in SUBSET (5 .. ROMSize)
         /\ romBank' = romBank => romWindow' = romWindow
         /\ UNCHANGED <<ramBank, modeFlag>> => UNCHANGED <<firstWindow, ramWindow>>
         /\ externalRamEnabled' = externalRamEnabled => ramOpen' = ramOpen
         /\ externalRamEnabled' \in BOOLEAN => ramOpen' \in BOOLEAN
<1>1. romWindow = mbc1!getHighBank /\ romWindow' = mbc1!getHighBank'
      /\ firstWindow = mbc1!getZeroBank /\ firstWindow' = mbc1!getZeroBank'
  BY DEF romWindow, firstWindow
<1>2. firstWindow' \in SUBSET (5 .. ROMSize)
  <2>1. ASSUME NEW b \in ramBank' \cap 0 .. ROMSize - 5 PROVE b + 5 \in 5 .. ROMSize
    BY <2>1, CartridgeAssumption
  <2>2. mbc1!UpperBits' \in SUBSET (5 .. ROMSize)
    BY <2>1 DEF mbc1!UpperBits
  <2> QED
    BY <1>1, <2>2 DEF mbc1!getZeroBank
<1>3. ASSUME romBank' = romBank PROVE romWindow' = romWindow
  <2>1. CASE ROMSize < 5
    BY <1>1, <1>3, <2>1 DEF mbc1!getHighBank, mbc1!getBankBitmask
  <2>2. CASE ROMSize >= 5
    <3>1. /\ \A x \in mbc1!getBankBitmask : x \in Int /\ x < 5
          /\ \A x \in mbc1!UpperBits : x \in Int /\ x >= 5
          /\ \A x \in mbc1!UpperBits' : x \in Int /\ x >= 5
      <4>1. /\ \A b \in ramBank \cap 0 .. ROMSize - 5 : b + 5 \in Int /\ b + 5 >= 5
            /\ \A b \in ramBank' \cap 0 .. ROMSize - 5 : b + 5 \in Int /\ b + 5 >= 5
        BY CartridgeAssumption
      <4> QED
        BY <4>1, CartridgeAssumption DEF mbc1!getBankBitmask, mbc1!UpperBits
    <3>2. mbc1!getBankBitmask \cap mbc1!UpperBits = {}
          /\ mbc1!getBankBitmask \cap mbc1!UpperBits' = {}
      BY <3>1
    <3>3. mbc1!getHighBank = {} /\ mbc1!getHighBank' = {}
      <4>1. /\ mbc1!getHighBank = romBank \cap mbc1!getBankBitmask \cap mbc1!UpperBits
            /\ mbc1!getHighBank' = romBank' \cap mbc1!getBankBitmask \cap mbc1!UpperBits'
        BY <2>2, CartridgeAssumption DEF mbc1!getHighBank, mbc1!getBankBitmask
      <4> QED
        BY <3>2, <4>1
    <3> QED
      BY <1>1, <3>3
  <2> QED
    BY <2>1, <2>2, CartridgeAssumption
<1>4. UNCHANGED <<ramBank, modeFlag>> => UNCHANGED <<firstWindow, ramWindow>>
  BY <1>1 DEF ramWindow, mbc1!getZeroBank, mbc1!UpperBits
<1>5. ramBank \in mbc3!RamBank /\ {} \in mbc3!RamBank
  BY DEF BankedInv, SelectionInv, mbc3!RamBank
<1>6. ramWindow = (IF modeFlag THEN ramBank ELSE {})
  BY DEF ramWindow, BankedInv
<1>7. ramOpen = mbc1!HasRam /\ ramOpen' = mbc1!HasRam'
  BY DEF ramOpen
<1>8. /\ externalRamEnabled' = externalRamEnabled => ramOpen' = ramOpen
      /\ externalRamEnabled' \in BOOLEAN => ramOpen' \in BOOLEAN
  BY <1>7 DEF mbc1!HasRam, mbc1!setRAMSize
<1> QED
  BY <1>1, <1>2, <1>3, <1>4, <1>5, <1>6, <1>7, <1>8

\* The store to the mode register: it moves the windows, and if the RAM is
\* enabled it may reach a cell; a Debug build ends.
LEMMA ModeStored ==
  ASSUME BankedInv, controller = "MBC1", controller' = "MBC1", ~ended, mbc1!StoreMode
  PROVE  MemoryOK' /\ modeFlag' \in BOOLEAN /\ AbstractStep
<1>1. PICK address \in mbc1!ModeRegister, value \in Values :
        /\ modeFlag' = (0 \in value)
        /\ IF NDEBUG
           THEN IF mbc1!HasRam
                THEN StoreRam(mbc1!getRamAddress(modeFlag', address), value)
                ELSE UNCHANGED <<ram, out, ended>>
           ELSE ended' = TRUE /\ UNCHANGED <<ram, out>>
  BY SameMemory DEF mbc1!StoreMode, mbc1!StoreIfEnabled, mbc1!memVars
<1>2. UNCHANGED <<romBank, ramBank, externalRamEnabled>>
  BY DEF mbc1!StoreMode
<1>3. MemoryOK /\ externalRamEnabled \in BOOLEAN
  BY DEF BankedInv
<1>4. modeFlag' \in BOOLEAN
  BY <1>1
<1>5. CASE ~NDEBUG
  <2>1. ended' = TRUE /\ UNCHANGED <<ram, out>>
    BY <1>1, <1>5
  <2>2. AssertionFails
    BY <1>2, <1>5, <2>1 DEF AssertionFails
  <2> QED
    BY <1>3, <1>4, <2>1, <2>2 DEF AbstractStep, MemoryOK, RamAddress, setRAMSize
<1>6. CASE NDEBUG /\ ~mbc1!HasRam
  <2>1. UNCHANGED <<ram, out, ended>>
    BY <1>1, <1>6
  <2>2. firstWindow' \in SUBSET (5 .. ROMSize) /\ UNCHANGED <<romWindow, ramOpen>>
    BY <1>2, Mbc1WindowsMove
  <2>3. MemoryOK' /\ Banked!Next
    BY <1>3, <2>1, <2>2, RegisterMoved
  <2> QED
    BY <1>4, <2>3 DEF AbstractStep
<1>7. CASE NDEBUG /\ mbc1!HasRam
  <2> DEFINE a == mbc1!getRamAddress(modeFlag', address)
  <2>1. StoreRam(a, value)
    BY <1>1, <1>7
  <2>2. MemoryOK'
    BY <1>3, <2>1 DEF StoreRam, MemoryOK, RamAddress, setRAMSize
  <2>3. out' = out
    BY <2>1 DEF StoreRam
  <2>4. ram' = ram \/ (ended' = ended /\ \E cell \in RamCell, w \in Values :
                         ram' = [ram EXCEPT ![At(cell)] = w])
    <3>1. CASE a \in RamAddress
      <4>1. PICK cell \in RamCell : At(cell) = a
        BY <3>1, CellsCover
      <4>2. ram' = [ram EXCEPT ![At(cell)] = value] /\ ended' = ended
        BY <1>3, <2>1, <3>1, <4>1 DEF StoreRam, MemoryOK
      <4> QED
        BY <1>1, <4>2
    <3>2. CASE a \notin RamAddress
      BY <2>1, <3>2 DEF StoreRam
    <3> QED
      BY <3>1, <3>2
  <2>5. ModeStoreFallsThrough
    BY <1>2, <1>7, <2>3, <2>4 DEF ModeStoreFallsThrough
  <2> QED
    BY <1>4, <2>2, <2>5 DEF AbstractStep
<1> QED
  BY <1>5, <1>6, <1>7

LEMMA Mbc1Implements ==
  ASSUME BankedInv, Mbc1Step
  PROVE  BankedInv' /\ AbstractStep
<1>1. controller = "MBC1" /\ controller' = "MBC1" /\ mbc1!Next /\ ~ended
  BY DEF Mbc1Step, mbc1!Next
<1>2. MemoryOK /\ modeFlag \in BOOLEAN /\ externalRamEnabled \in BOOLEAN
  BY DEF BankedInv
<1>3. SelectionInv'
  BY Mbc1Selection DEF BankedInv
<1>4. ASSUME MemoryOK', modeFlag' \in BOOLEAN, externalRamEnabled' \in BOOLEAN
      PROVE  BankedInv'
  BY <1>1, <1>3, <1>4 DEF BankedInv
<1>5. ASSUME UNCHANGED <<romBank, ramBank, modeFlag, externalRamEnabled>> PROVE UNCHANGED windows
  BY <1>1, <1>5, Mbc1WindowsMove DEF windows
<1>6. /\ ramBank \in mbc3!RamBank /\ ramWindow \in mbc3!RamBank
      /\ ramWindow = (IF modeFlag THEN ramBank ELSE {}) /\ ramOpen = mbc1!HasRam
  BY <1>1, Mbc1WindowsMove
<1>7. mbc1!HasRam => setRAMSize # 0
  BY DEF mbc1!HasRam, mbc1!setRAMSize, setRAMSize
<1>8. CASE mbc1!ReadZero \/ mbc1!ReadHigh
  <2>1. PICK offset \in RomOffset : ReadRom(firstWindow, offset) \/ ReadRom(romWindow, offset)
    <3>1. firstWindow = mbc1!getZeroBank /\ romWindow = mbc1!getHighBank
      BY <1>1, Mbc1WindowsMove
    <3> QED
      BY <1>8, <3>1, SameMemory DEF mbc1!ReadZero, mbc1!ReadHigh
  <2>2. UNCHANGED <<romBank, ramBank, modeFlag, externalRamEnabled>>
    BY <1>8 DEF mbc1!ReadZero, mbc1!ReadHigh, mbc1!registers
  <2>3. MemoryOK' /\ Banked!Next
    BY <1>1, <1>2, <1>5, <2>1, <2>2, RomRead
  <2> QED
    BY <1>2, <1>4, <2>2, <2>3 DEF AbstractStep
<1>9. CASE mbc1!ReadExternal
  <2>1. UNCHANGED <<romBank, ramBank, modeFlag, externalRamEnabled>>
    BY <1>9 DEF mbc1!ReadExternal, mbc1!registers
  <2>2. UNCHANGED windows
    BY <1>5, <2>1
  <2>3. PICK address \in CartRam :
          IF mbc1!HasRam THEN ReadRam(mbc1!getRamAddress(modeFlag, address)) ELSE ReadNothing
    BY <1>9, SameMemory DEF mbc1!ReadExternal
  <2>4. CASE mbc1!HasRam
    <3>1. PICK o \in RamOffset : mbc1!getRamAddress(modeFlag, address) = At(<<ramWindow, o>>)
      BY <1>2, <1>6, <1>7, <2>3, <2>4, Mbc1Address
    <3>2. MemoryOK' /\ Banked!Next
      BY <1>1, <1>2, <1>6, <2>2, <2>3, <2>4, <3>1, RamRead
    <3> QED
      BY <1>2, <1>4, <2>1, <3>2 DEF AbstractStep
  <2>5. CASE ~mbc1!HasRam
    <3>1. MemoryOK' /\ Banked!Next
      BY <1>1, <1>2, <1>6, <2>2, <2>3, <2>5, NothingRead
    <3> QED
      BY <1>2, <1>4, <2>1, <3>1 DEF AbstractStep
  <2> QED
    BY <2>4, <2>5
<1>10. CASE mbc1!StoreRamEnable
  <2>1. externalRamEnabled' \in BOOLEAN /\ UNCHANGED <<romBank, ramBank, modeFlag, ram, out, ended>>
    BY <1>10 DEF mbc1!StoreRamEnable, mbc1!memVars
  <2>2. ramOpen' \in BOOLEAN /\ UNCHANGED <<firstWindow, romWindow, ramWindow>>
    BY <1>1, <2>1, Mbc1WindowsMove
  <2>3. MemoryOK' /\ Banked!Next
    BY <1>1, <1>2, <2>1, <2>2, RegisterMoved
  <2> QED
    BY <1>2, <1>4, <2>1, <2>3 DEF AbstractStep
<1>11. CASE mbc1!StoreRomBank
  <2>1. UNCHANGED <<ramBank, modeFlag, externalRamEnabled, ram, out, ended>>
    BY <1>11 DEF mbc1!StoreRomBank, mbc1!memVars
  <2>2. UNCHANGED <<firstWindow, ramWindow, ramOpen>>
    BY <1>1, <2>1, Mbc1WindowsMove
  <2>3. MemoryOK' /\ Banked!Next
    BY <1>1, <1>2, <2>1, <2>2, RegisterMoved
  <2> QED
    BY <1>2, <1>4, <2>1, <2>3 DEF AbstractStep
<1>12. CASE mbc1!StoreRamBank
  <2>1. UNCHANGED <<romBank, modeFlag, externalRamEnabled, ram, out, ended>>
    BY <1>12 DEF mbc1!StoreRamBank, mbc1!memVars
  <2>2. firstWindow' \in SUBSET (5 .. ROMSize) /\ UNCHANGED <<romWindow, ramOpen>>
    BY <1>1, <2>1, Mbc1WindowsMove
  <2>3. MemoryOK' /\ Banked!Next
    BY <1>1, <1>2, <2>1, <2>2, RegisterMoved
  <2> QED
    BY <1>2, <1>4, <2>1, <2>3 DEF AbstractStep
<1>13. CASE mbc1!StoreExternal
  <2>1. UNCHANGED <<romBank, ramBank, modeFlag, externalRamEnabled>>
    BY <1>13 DEF mbc1!StoreExternal, mbc1!registers
  <2>2. UNCHANGED windows
    BY <1>5, <2>1
  <2>3. PICK address \in CartRam, value \in RamData :
          IF mbc1!HasRam THEN StoreRam(mbc1!getRamAddress(modeFlag, address), value)
          ELSE UNCHANGED <<ram, out, ended>>
    BY <1>13, SameMemory DEF mbc1!StoreExternal, mbc1!StoreIfEnabled, mbc1!memVars
  <2>4. CASE mbc1!HasRam
    <3>1. PICK o \in RamOffset : mbc1!getRamAddress(modeFlag, address) = At(<<ramWindow, o>>)
      BY <1>2, <1>6, <1>7, <2>3, <2>4, Mbc1Address
    <3>2. value \in Word
      BY <2>3, CartridgeAssumption
    <3>3. MemoryOK' /\ Banked!Next
      BY <1>1, <1>2, <1>6, <2>2, <2>3, <2>4, <3>1, <3>2, RamStored
    <3> QED
      BY <1>2, <1>4, <2>1, <3>3 DEF AbstractStep
  <2>5. CASE ~mbc1!HasRam
    <3>1. MemoryOK' /\ AbstractStep
      BY <1>2, <2>2, <2>3, <2>5, MemoryKept
    <3> QED
      BY <1>2, <1>4, <2>1, <3>1
  <2> QED
    BY <2>4, <2>5
<1>14. CASE mbc1!StoreMode
  <2>1. MemoryOK' /\ modeFlag' \in BOOLEAN /\ AbstractStep
    BY <1>1, <1>14, ModeStored
  <2>2. externalRamEnabled' = externalRamEnabled
    BY <1>14 DEF mbc1!StoreMode
  <2> QED
    BY <1>2, <1>4, <2>1, <2>2
<1> QED
  BY <1>1, <1>8, <1>9, <1>10, <1>11, <1>12, <1>13, <1>14
     DEF mbc1!Next, mbc1!Read, mbc1!Store

LEMMA InitImplements ==
  ASSUME Init
  PROVE  BankedInv /\ Banked!Init
<1>1. romBank \in {{}, {0}} /\ ramBank = {} /\ externalRamEnabled = FALSE /\ modeFlag = FALSE
      /\ controller \in {"MBC0", "MBC1", "MBC3"} /\ (controller # "MBC3" => romBank = {0})
  BY DEF Init, mbc1!Init, mbc3!Init
<1>2. ram = [a \in RamAddress |-> {}] /\ out = [value |-> NoWord] /\ ended = FALSE
  BY DEF Init, mbc1!Init, mbc3!Init, MemInit, mbc1!MemInit, mbc3!MemInit,
         RamAddress, mbc1!RamAddress, mbc3!RamAddress, setRAMSize, mbc1!setRAMSize, mbc3!setRAMSize,
         NoWord, mbc1!NoWord, mbc3!NoWord
<1>3. BankedInv
  BY <1>1, <1>2, InitSelection DEF BankedInv, MemoryOK
<1>4. romWindow \in RomBank
  <2>1. controller # "MBC1" => romWindow \in RomBank
    BY <1>1, CartridgeAssumption DEF RomBank, romWindow
  <2>2. controller = "MBC1" => romWindow \in RomBank
    BY <1>3, SelectionShown
       DEF BankedInv, WindowsInRange, mbc1!WindowsInRange, mbc1!RomBank, RomBank, romWindow
  <2> QED
    BY <2>1, <2>2
<1>5. firstWindow = {} /\ ramWindow = {} /\ ramOpen = FALSE
  BY <1>1 DEF firstWindow, ramWindow, ramOpen, mbc1!getZeroBank, mbc1!HasRam
<1>6. cells \in [RamCell -> Word]
  <2>1. ASSUME NEW cell \in RamCell PROVE cells[cell] = {}
    BY <1>2 DEF cells, RamCell
  <2> QED
    BY <2>1 DEF cells, Word
<1>7. {} \in mbc3!RamBank /\ {} \in SUBSET (5 .. ROMSize)
  BY DEF mbc3!RamBank
<1> QED
  BY <1>2, <1>3, <1>4, <1>5, <1>6, <1>7
     DEF Banked!Init, firstWindow, romWindow, ramWindow, ramOpen, cells

LEMMA StepImplements ==
  ASSUME BankedInv, [Next]_vars
  PROVE  /\ BankedInv'
         /\ [Banked!Next \/ ModeStoreFallsThrough \/ AssertionFails]_(Banked!vars)
<1>1. CASE Next
  <2>1. BankedInv' /\ AbstractStep
    BY <1>1, Mbc0Implements, Mbc1Implements, Mbc3Implements DEF Next
  <2> QED
    BY <2>1 DEF AbstractStep
<1>2. CASE UNCHANGED vars
  <2>1. UNCHANGED <<controller, romBank, ramBank, externalRamEnabled, modeFlag, ram, out, ended>>
    BY <1>2 DEF vars, memVars
  <2>2. SelectionInv'
    BY <1>2, StepSelection DEF BankedInv
  <2>3. UNCHANGED windows
    BY <2>1 DEF windows, firstWindow, romWindow, ramWindow, ramOpen, mbc1!getZeroBank,
       mbc1!getHighBank, mbc1!getBankBitmask, mbc1!UpperBits, mbc1!HasRam, mbc1!setRAMSize
  <2>4. MemoryOK' /\ UNCHANGED Banked!vars
    BY <2>1, <2>3 DEF BankedInv, MemoryOK, RamAddress, setRAMSize, Banked!vars,
       Banked!registers, windows, firstWindow, romWindow, ramWindow, ramOpen, cells
  <2>5. BankedInv'
    BY <2>1, <2>2, <2>4 DEF BankedInv
  <2> QED
    BY <2>4, <2>5
<1> QED
  BY <1>1, <1>2

\* The cartridge in the machine, whichever controller it has, implements two
\* windows into the ROM and one into the RAM, but for the store to the mode
\* register and the assertions of a Debug build: ImplementsBankedMemory.
THEOREM RefinesBankedMemory == Spec => ImplementsBankedMemory
<1>1. Init => BankedInv /\ Banked!Init
  BY InitImplements
<1>2. BankedInv /\ [Next]_vars
        => BankedInv' /\ [Banked!Next \/ ModeStoreFallsThrough \/ AssertionFails]_(Banked!vars)
  BY StepImplements
<1> QED
  BY <1>1, <1>2, PTL DEF Spec, ImplementsBankedMemory

-----------------------------------------------------------------------------
(* The controls, whatever the frontend reports and the program selects.    *)

\* What a read of JOIP shows is the group that JOIP selects, if the buttons,
\* the upper half of the status, are moved down by four bits.
LEMMA ReadsSelection == Shown = Wanted(REG_JOIP)
<1>1. buttons = {b \in Nibble : b + 4 \in joypadStatus}
  <2>1. ASSUME NEW x
        PROVE  x \in buttons => x \in {b \in Nibble : b + 4 \in joypadStatus}
    BY DEF buttons, Nibble, HighNibble
  <2>2. ASSUME NEW x \in Nibble, x + 4 \in joypadStatus PROVE x \in buttons
    <3>1. x + 4 \in joypadStatus \cap HighNibble /\ x = (x + 4) - 4
      BY <2>2 DEF Nibble, HighNibble
    <3> QED
      BY <3>1 DEF buttons
  <2> QED
    BY <2>1, <2>2
<1>2. /\ buttons \cap Nibble = buttons
      /\ HighNibble \cap Nibble = {}
  BY <1>1 DEF Nibble, HighNibble
<1>3. Shown = IF SelectButtons \notin REG_JOIP THEN buttons
              ELSE IF SelectDPad \notin REG_JOIP THEN dpad
              ELSE Nibble
  <2> DEFINE high == REG_JOIP \cap HighNibble
  <2>1. high \cap Nibble = {}
    BY <1>2
  <2>2. CASE SelectButtons \notin REG_JOIP
    BY <1>2, <2>1, <2>2 DEF Shown, getJoypad
  <2>3. CASE SelectButtons \in REG_JOIP /\ SelectDPad \notin REG_JOIP
    BY <1>2, <2>1, <2>3 DEF Shown, getJoypad, dpad
  <2>4. CASE SelectButtons \in REG_JOIP /\ SelectDPad \in REG_JOIP
    BY <2>4 DEF Shown, getJoypad
  <2> QED
    BY <2>2, <2>3, <2>4
<1> QED
  BY <1>1, <1>3 DEF Wanted, dpad

\* Unless the frontend has written to it, JOIP holds the program's selection.
SelectionKept == ~stale => REG_JOIP = selection

LEMMA SelectionStep == SelectionKept /\ [HNext]_hvars => SelectionKept'
<1> SUFFICES ASSUME SelectionKept, [HNext]_hvars PROVE SelectionKept'
  OBVIOUS
<1> USE DEF SelectionKept
<1>1. CASE HReport
  BY <1>1 DEF HReport
<1>2. CASE HSelect
  BY <1>2 DEF HSelect, WriteJOIP
<1>3. CASE HClearIF
  BY <1>3 DEF HClearIF, WriteIF
<1>4. CASE UNCHANGED hvars
  BY <1>4 DEF hvars, joypadVars
<1> QED
  BY <1>1, <1>2, <1>3, <1>4 DEF HNext

\* A program that reads the controls before the frontend reports anything
\* reads the group it selected last: SelectedGroupRead.
THEOREM SelectionRead == HSpec => []SelectedGroupRead
<1>1. HInit => SelectionKept
  BY DEF HInit, SelectionKept
<1>2. SelectionKept => SelectedGroupRead
  BY ReadsSelection DEF SelectionKept, SelectedGroupRead
<1> QED
  BY <1>1, <1>2, SelectionStep, PTL DEF HSpec
=============================================================================
