------------------------------- MODULE MCPPU -------------------------------
(* Instances of the PPU for TLC. *)
EXTENDS PPUProperties

\* No source, LYC alone, and all.
MCStatWrites == {{}, {"LYC"}, StatSource}
MCNone == {}
\* A sprite that is on line 0 if it has double height and on none if it has
\* not, and one that is on line 0, and with double height on line 1 as well.
Upper == [yPos |-> 1, xPos |-> 1]
Lower == [yPos |-> 2, xPos |-> 1]
MCSpriteWrites == {<<0, Upper>>, <<0, Lower>>, <<1, Lower>>, <<2, Upper>>, <<3, Lower>>}
=============================================================================
