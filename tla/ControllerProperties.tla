------------------------ MODULE ControllerProperties ------------------------
(* Correctness of the cartridge, whichever controller it has. *)
EXTENDS Controllers

\* The cells of the RAM by their bank and their offset.
RamOffset == 0 .. BankSize - 1
At(cell) == BankSize * mbc3!Number(cell[1]) + cell[2]
RamCell == {cell \in mbc3!RamBank \X RamOffset : At(cell) \in RamAddress}

\* A ROM of 1 MB or 2 MB has more banks than the register of MBC1 has bits,
\* and in mode 1 the first window moves over them.  In mode 0 the RAM window
\* of MBC1 is fixed to the first bank, and without RAM there is none.
Banked == INSTANCE BankedMemory WITH
  RomBanks    <- RomBank,
  FirstBanks  <- SUBSET (5 .. ROMSize),
  RomOffsets  <- RomOffset,
  RamBanks    <- mbc3!RamBank,
  RamOffsets  <- RamOffset,
  RamCells    <- RamCell,
  firstWindow <- IF controller = "MBC1" THEN mbc1!getZeroBank ELSE {},
  romWindow   <- IF controller = "MBC1" THEN mbc1!getHighBank ELSE romBank,
  ramWindow   <- IF controller = "MBC1" /\ ~modeFlag THEN {} ELSE ramBank,
  open        <- IF controller = "MBC1" THEN mbc1!HasRam ELSE externalRamEnabled,
  cells       <- [cell \in RamCell |-> ram[At(cell)]]

\* What else the code does.  The store to the mode register of MBC1 goes on to
\* the RAM if that is enabled (mbc1.hpp:155), to a cell of any bank or past the
\* end; in a Debug build it ends the program, as do a read of a register of MBC3's
\* clock and any read of an MBC0 cartridge with more than two banks.
ModeStoreFallsThrough ==
  /\ controller = "MBC1" /\ mbc1!StoreMode /\ mbc1!HasRam
  /\ UNCHANGED <<romBank, ramBank, externalRamEnabled, out>>
  /\ \/ ram' = ram
     \/ /\ ended' = ended
        /\ \E cell \in RamCell, value \in Values : ram' = [ram EXCEPT ![At(cell)] = value]
AssertionFails ==
  /\ ~NDEBUG /\ ended' = TRUE
  /\ UNCHANGED <<romBank, ramBank, externalRamEnabled, ram, out>>
  /\ \/ controller = "MBC1" /\ mbc1!StoreMode
     \/ controller = "MBC3" /\ UNCHANGED modeFlag /\ ramBank \in mbc3!ClockRegister
     \/ controller = "MBC0" /\ UNCHANGED modeFlag /\ ROMSize # 0

\* Through every order of register stores, to banks that exist or do not, the
\* controller is two windows into the ROM and one into the RAM: a word stored
\* in a bank of RAM is read back from that bank and no other, and is out of
\* reach while the RAM is disabled or another thing is selected.  The only
\* exceptions are those above.
ImplementsBankedMemory ==
  Banked!Init /\ [][Banked!Next \/ ModeStoreFallsThrough \/ AssertionFails]_(Banked!vars)

\* "Cartridge controller was asked to write outside of its memory!" is what
\* mbc1.hpp:159-160 assert never to happen: what is stored in the RAM was
\* stored to an address of its window.
OnlyWindowStored ==
  [][ram' # ram => \/ controller = "MBC1" /\ mbc1!StoreExternal
                   \/ controller = "MBC3" /\ mbc3!StoreExternal]_vars

\* Whatever the program stores in the registers of MBC1, both windows show a
\* bank the ROM has, and in a ROM below 1 MB never the same.
WindowsInRange == controller = "MBC1" => mbc1!WindowsInRange

\* "Exactly 2MB ROMs" (mbc1.hpp:105): the second window of MBC1 shows the bank
\* given by both registers together.
SelectedBankInWindow == controller = "MBC1" => mbc1!SelectedBankInWindow
=============================================================================
