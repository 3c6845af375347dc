------------------------- MODULE AddressBusProperties -------------------------
(* Correctness of the address bus. *)
EXTENDS AddressBus

\* "Writing to work RAM should be reflected in echo RAM", and the other way
\* round (address-bus.test.cpp:86-87): the two never differ, whoever stores.
EchoMirrors == \A address \in EchoRam1 : memory[address + EchoDistance] = memory[address]

\* "The three lower bits are only writable by PPU" (address-bus.cpp:115), and
\* LY as well: whatever the program stores, copies or mirrors, they change
\* only in a step of the PPU; the PPU leaves the rest of STAT to the program;
\* DIV only counts, or starts from zero again.
RegistersHaveOwners ==
  [][/\ PictureStores \/ (/\ memory'[REG_STAT] % StatBits = memory[REG_STAT] % StatBits
                          /\ memory'[REG_LY] = memory[REG_LY])
     /\ ProgramStores \/ memory'[REG_STAT] \div StatBits = memory[REG_STAT] \div StatBits
     /\ memory'[REG_DIV] \in {memory[REG_DIV], 0, (memory[REG_DIV] + 1) % WordSize}]_busVars

\* A DMA transfer brings what the program would read in that page, with the
\* boot ROM and the bank the cartridge shows at that moment, and does not
\* change what it copies.
DmaCopiesWhatIsRead ==
  [][\A value \in BusWord :
       (value < DmaLimit /\ write(REG_DMA, value, "CPU")) =>
         \A i \in 0 .. OamSize - 1 :
           /\ memory'[OAM_MEMORY_LOWER_BOUND + i] = read(value * Page + i)
           /\ read(value * Page + i)' = read(value * Page + i)]_busVars
=============================================================================
