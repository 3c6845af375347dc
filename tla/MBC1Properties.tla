--------------------------- MODULE MBC1Properties ---------------------------
(* Correctness of the MBC1 controller. *)
EXTENDS MBC1

\* Whatever the program stores, both windows show a bank the ROM has, and in
\* a ROM below 1 MB the second one never shows the first bank again.
WindowsInRange ==
  /\ getZeroBank \in RomBank
  /\ getHighBank \in RomBank
  /\ ROMSize < 5 => getHighBank # getZeroBank

\* "Exactly 2MB ROMs" (mbc1.hpp:105): the second window shows the bank given
\* by both registers together.
SelectedBankInWindow == ROMSize >= 5 => getHighBank = romBank \cup UpperBits
=============================================================================
