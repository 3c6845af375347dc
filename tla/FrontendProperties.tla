------------------------- MODULE FrontendProperties -------------------------
(***************************************************************************)
(* Correctness of the frontend, with two history variables.                *)
(***************************************************************************)
EXTENDS Frontend

\* The display interval of the frontend, 17556 clocks, is the length of a frame
\* of the PPU: 154 lines of 114 clocks.
ASSUME FrameAssumption ==
  /\ OamEnd \in Nat /\ LineEnd \in Nat /\ OamEnd + 1 < LineEnd
  /\ VisibleLines \in Nat /\ TotalLines \in Nat
  /\ 0 < VisibleLines /\ VisibleLines < TotalLines
  /\ FrameWrap \in Nat \ {0}
  /\ displayInterval = TotalLines * LineEnd

VARIABLES
  lastRam,   \* the RAM when the window was last closed; or None, if the
             \* session was ended by an error or its file could not be opened
  lastSave   \* the RAM when a save was last completed, at first that of a
             \* new machine

None == -1
hvars == <<vars, lastRam, lastSave>>

HInit == Init /\ lastRam = None /\ lastSave = 0

HSave == WriteSave /\ lastSave' = ram /\ UNCHANGED lastRam
HClose == HandleClosed /\ lastRam' = ram /\ UNCHANGED lastSave
HElse ==
  /\ Next /\ ~WriteSave /\ ~HandleClosed
  /\ lastRam' = IF doing # "off" /\ doing' = "off" THEN None ELSE lastRam
  /\ UNCHANGED lastSave

HNext == HSave \/ HClose \/ HElse
HSpec == HInit /\ [][HNext]_hvars /\ WF_hvars(Step /\ HNext)

-----------------------------------------------------------------------------
\* "To preserve vertical sync, we update once every full PPU cycle"
\* (frontend.hpp:16): what the window shows is one whole frame, and no frame
\* is left out.
FramesShownWhole ==
  [][drawScreen =>
       LET next == IF shown[0] = FrameWrap THEN 0 ELSE Beam!NextFrame(shown[0])
       IN  \A row \in DOMAIN shown : shown'[row] = next]_hvars

\* "Games are saved whenever the emulator window is closed" (README.md:28): the
\* next session starts from the RAM the last one ended with.  If that one was
\* ended by an error, or could not open the file, the session starts from the
\* last completed save, however many sessions ago, and from nothing older.
ResumesWhereItStopped ==
  [][Start =>
       /\ ram' = lastSave
       /\ (isCartridgeBatteryBacked /\ lastRam # None) => ram' = lastRam]_hvars

\* The window keeps being drawn, unless the user never stops causing events.
StaysOpen == <>[](doing \in Running)
EventsCease == <>[][Len(events') <= Len(events)]_hvars
KeepsDrawing == (StaysOpen /\ EventsCease) => []<>(doing = "clock" /\ cyclesSinceLastDraw = 0)

\* Though events are handled late and by the keys held at that moment, the
\* controls of the machine are right whenever they can be: with neither command
\* key down and no key event waiting, they are the keys held down, whatever was
\* pressed, released, saved or closed on the way there.
Waiting(event) == \E i \in DOMAIN events : events[i] = event
ControlsFollowKeys ==
  (doing \in Running /\ keys \cap {"K", "L"} = {} /\ ~Waiting("key"))
    => joypadStatus = GameKeys \ keys
=============================================================================
