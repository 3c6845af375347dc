---------------------------- MODULE BankedMemory ----------------------------
(***************************************************************************)
(* What a cartridge controller promises: two windows into the ROM and one  *)
(* into the RAM.  The program moves the windows and opens or shuts the     *)
(* RAM; a store reaches the RAM only while it is open, and then exactly a  *)
(* cell that is in its window.  An access to a bank or a cell that the     *)
(* cartridge does not have returns any word, stores nothing, and may end   *)
(* the program; no other access does.                                      *)
(***************************************************************************)
EXTENDS Naturals

CONSTANTS
  RomBanks,      \* the banks of ROM there are
  FirstBanks,    \* those the first window may show
  RomOffsets,    \* positions in a bank of ROM
  RamBanks,      \* the banks the RAM window may show
  RamOffsets,    \* positions in a bank of RAM
  RamCells,      \* the pairs of both at which there is RAM
  Word,
  NoWord         \* what a window onto nothing returns

VARIABLES
  firstWindow,   \* the bank in the first window
  romWindow,     \* the bank in the other window, or a number no bank has
  ramWindow,     \* the bank in the RAM window, or something else: no bank
  open,          \* the RAM answers
  cells,         \* the RAM
  out,           \* what was read last
  ended          \* the program has ended

registers == <<firstWindow, romWindow, ramWindow, open>>
vars == <<registers, cells, out, ended>>

Init ==
  /\ firstWindow \in FirstBanks
  /\ romWindow \in RomBanks
  /\ ramWindow \in RamBanks
  /\ open = FALSE
  /\ cells \in [RamCells -> Word]
  /\ out = [value |-> NoWord]
  /\ ended = FALSE

\* The program stores to the controller's registers; the register of the RAM
\* bank may move the first window of the ROM as well.
MoveRomWindow == UNCHANGED <<firstWindow, ramWindow, open, cells, out, ended>>
MoveRamWindow ==
  /\ firstWindow' \in FirstBanks
  /\ UNCHANGED <<romWindow, open, cells, out, ended>>
OpenOrShut ==
  /\ open' \in BOOLEAN
  /\ UNCHANGED <<firstWindow, romWindow, ramWindow, cells, out, ended>>

ReadBank(bank) ==
  /\ IF bank \in RomBanks
     THEN /\ \E offset \in RomOffsets : out' = [bank |-> bank, offset |-> offset]
          /\ ended' = ended
     ELSE out' \in [value : Word] /\ ended' \in BOOLEAN
  /\ UNCHANGED <<registers, cells>>
ReadRom == ReadBank(firstWindow) \/ ReadBank(romWindow)

Answers == open /\ ramWindow \in RamBanks

ReadCell(cell) ==
  IF cell \in RamCells THEN out' = [value |-> cells[cell]] /\ ended' = ended
  ELSE out' \in [value : Word] /\ ended' \in BOOLEAN
ReadRam ==
  /\ IF Answers THEN \E offset \in RamOffsets : ReadCell(<<ramWindow, offset>>)
     ELSE out' = [value |-> NoWord] /\ ended' = ended
  /\ UNCHANGED <<registers, cells>>

StoreCell(cell, value) ==
  IF cell \in RamCells THEN cells' = [cells EXCEPT ![cell] = value] /\ ended' = ended
  ELSE cells' = cells /\ ended' \in BOOLEAN
StoreRam ==
  /\ Answers
  /\ \E offset \in RamOffsets, value \in Word : StoreCell(<<ramWindow, offset>>, value)
  /\ UNCHANGED <<registers, out>>

Next ==
  /\ ~ended
  /\ MoveRomWindow \/ MoveRamWindow \/ OpenOrShut \/ ReadRom \/ ReadRam \/ StoreRam

Spec == Init /\ [][Next]_vars
=============================================================================
