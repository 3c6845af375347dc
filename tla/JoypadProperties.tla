-------------------------- MODULE JoypadProperties --------------------------
(***************************************************************************)
(* Correctness of the controls, with two history variables that observe    *)
(* the program and the frontend.                                           *)
(***************************************************************************)
EXTENDS Joypad

VARIABLES
  selection,   \* the value JOIP started with, or the program stored last
  stale        \* the frontend has reported a change since then

hvars == <<joypadVars, selection, stale>>

HInit == JoypadInit /\ selection = REG_JOIP /\ stale = FALSE

HReport ==
  /\ \E value \in Statuses : setJoypad(value)
  /\ stale' = TRUE /\ UNCHANGED selection
HSelect == \E value \in SelectWrites :
  WriteJOIP(value) /\ selection' = value /\ stale' = FALSE
HClearIF ==
  /\ \E flags \in SUBSET {INTERRUPT_JOYPAD} : WriteIF(flags)
  /\ UNCHANGED <<selection, stale>>

HNext == HReport \/ HSelect \/ HClearIF
HSpec == HInit /\ [][HNext]_hvars

-----------------------------------------------------------------------------
\* The controls a selection asks for.  With neither group selected, all read
\* as released.
Wanted(sel) ==
  IF SelectButtons \notin sel THEN {b \in Nibble : b + 4 \in joypadStatus}
  ELSE IF SelectDPad \notin sel THEN joypadStatus \cap Nibble
  ELSE Nibble

Shown == getJoypad \cap Nibble

\* A program that selects a group and reads it back before the frontend
\* reports anything sees this group as it is, whatever was reported and
\* selected before.
SelectedGroupRead ==
  ~stale => Shown = Wanted(selection)

\* address-bus.hpp:82, "Correctly read Joypad address from memory": the
\* program reads the group it selected last.
SelectionHolds == Shown = Wanted(selection)
=============================================================================
