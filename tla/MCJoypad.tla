------------------------------ MODULE MCJoypad ------------------------------
(* Instances of the controls for TLC. *)
EXTENDS JoypadProperties

\* Two buttons, A (bit 4) and B (bit 5), and two directions, right (bit 0) and
\* left (bit 1), in every combination: A and B are the bits that fall on the
\* selection, right and left the ones beside them in a read.
MCStatuses == {AllReleased \ pressed : pressed \in SUBSET {0, 1, 4, 5}}

\* Either group, both, or neither, with the other bits as a program leaves them.
MCSelections == {{4, 6, 7}, {5, 6, 7}, {}, {4, 5}}
=============================================================================
