------------------------------- MODULE Raster -------------------------------
(***************************************************************************)
(* What the picture processor promises, with no registers, no mode machine *)
(* and no interrupt enables: a beam sweeps TotalLines lines of LineEnd     *)
(* columns; the mode the program can see depends on the beam's position    *)
(* alone; each visible row is painted exactly once per frame, when the     *)
(* beam is one column into DRAWING; V-Blank is requested exactly when the  *)
(* beam leaves the last visible row.                                       *)
(***************************************************************************)
EXTENDS Types

CONSTANTS
  OamEnd, DrawEnd, LineEnd,   \* columns at which OAM_SCAN, DRAWING and the line end
  VisibleLines, TotalLines,   \* rows shown, rows in a frame
  FrameWrap                   \* frames are numbered modulo this

VARIABLES
  line, column,     \* where the beam is
  mode,             \* what the beam is doing
  frame,            \* number of the frame being swept
  painted,          \* for each visible row, the frame it was last painted in
  vblankRequested   \* V-Blank was requested and nobody has consumed it

vars == <<line, column, mode, frame, painted, vblankRequested>>

ModeAt(l, c) ==
  IF l >= VisibleLines THEN "V_BLANK"
  ELSE IF c < OamEnd THEN "OAM_SCAN"
  ELSE IF c < DrawEnd THEN "DRAWING"
  ELSE "H_BLANK"

NextFrame(f) == (f + 1) % FrameWrap

Init ==
  /\ line = 0 /\ column = 0
  /\ mode = ModeAt(0, 0)
  /\ frame = 0
  /\ painted = [row \in 0 .. VisibleLines - 1 |-> FrameWrap]
  /\ vblankRequested = FALSE

\* The beam moves along a line.
Sweep ==
  /\ column + 1 < LineEnd
  /\ column' = column + 1
  /\ mode' = ModeAt(line, column + 1)
  /\ painted' = IF line < VisibleLines /\ column = OamEnd
                THEN [painted EXCEPT ![line] = frame]
                ELSE painted
  /\ UNCHANGED <<line, frame, vblankRequested>>

\* The beam moves to the start of the next line, or of the next frame.
Retrace ==
  /\ column + 1 = LineEnd
  /\ column' = 0
  /\ line' = IF line + 1 = TotalLines THEN 0 ELSE line + 1
  /\ mode' = ModeAt(line', 0)
  /\ frame' = IF line' = 0 THEN NextFrame(frame) ELSE frame
  /\ vblankRequested' = (vblankRequested \/ line' = VisibleLines)
  /\ UNCHANGED painted

\* The program takes, discards or forges the V-Blank request.
Program ==
  /\ vblankRequested' \in BOOLEAN
  /\ UNCHANGED <<line, column, mode, frame, painted>>

Next == Sweep \/ Retrace \/ Program

Spec == Init /\ [][Next]_vars /\ WF_vars(Sweep \/ Retrace)
=============================================================================
