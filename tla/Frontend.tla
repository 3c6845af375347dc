------------------------------ MODULE Frontend ------------------------------
(***************************************************************************)
(* The frontend (src/src/Frontend/frontend.cpp): the main loop that clocks *)
(* the machine, polls the window's events and draws the screen, and the    *)
(* save file, over any number of sessions.                                 *)
(*                                                                         *)
(* The machine it clocks is the beam of the module Raster, which the       *)
(* module PPU implements, and the battery-backed RAM, of which only the    *)
(* number of changes so far matters.  The keyboard, the event queue of the *)
(* window and the disk are external.                                       *)
(* Definitions named Mut_... are mistakes used to test the properties.     *)
(***************************************************************************)
EXTENDS Integers, Sequences

CONSTANTS
  displayInterval,            \* 17556 clocks
  OamEnd, DrawEnd, LineEnd, VisibleLines, TotalLines, FrameWrap,
  GameKeys,                   \* keys bound to the controls
  CommandKeys,                \* "K" and "L", those of them that are used
  isCartridgeBatteryBacked,
  MaxEvents,                  \* bound: events waiting in the window's queue
  MaxRamChanges               \* bound: changes of the RAM, over all sessions

Keys == GameKeys \cup CommandKeys
Absent == -1                  \* there is no save file
Truncated == -2               \* it is there, but shorter than the RAM

ASSUME FrontendAssumption ==
  /\ displayInterval \in Nat \ {0}
  /\ CommandKeys \subseteq {"K", "L"} /\ GameKeys \cap {"K", "L"} = {}
  /\ isCartridgeBatteryBacked \in BOOLEAN
  /\ MaxEvents \in Nat /\ MaxRamChanges \in Nat

VARIABLES
  line, column, mode, frame, painted, vblankRequested,   \* the machine's beam
  ram,                        \* the battery-backed RAM: its number of changes
  doing,                      \* where the frontend is, see TypeOK
  cyclesSinceLastDraw,
  shown,                      \* the frame of each row the window shows
  capSpeed,
  joypadStatus,               \* the controls last reported as released
  keys,                       \* the keys held down
  events,                     \* the window's queue
  disk                        \* the RAM as the save file holds it

beam == <<line, column, mode, frame, painted, vblankRequested>>
machine == <<beam, ram, joypadStatus>>
loop == <<doing, cyclesSinceLastDraw, shown, capSpeed>>
external == <<keys, events, disk>>
vars == <<machine, loop, external>>

Beam == INSTANCE Raster

Event == {"closed", "key", "other"}

\* "off": not running.  "clock": the main loop up to the draw.  "poll": its
\* event loop.  "save", "exit": opening the save file, before going on or
\* before the exit.  "write", "writeExit": the file is open and empty.
Running == {"clock", "poll", "save", "write", "exit", "writeExit"}

TypeOK ==
  /\ doing \in Running \cup {"off"}
  /\ cyclesSinceLastDraw \in 0 .. displayInterval
  /\ capSpeed \in BOOLEAN
  /\ joypadStatus \subseteq GameKeys
  /\ keys \subseteq Keys
  /\ events \in Seq(Event)
  /\ ram \in 0 .. MaxRamChanges
  /\ disk \in {Absent, Truncated} \cup 0 .. MaxRamChanges

Init ==
  /\ Beam!Init /\ joypadStatus = GameKeys /\ ram = 0
  /\ doing = "off" /\ cyclesSinceLastDraw = 0 /\ capSpeed = TRUE
  /\ shown = painted
  /\ keys = {} /\ events = << >>
  /\ disk = Absent

-----------------------------------------------------------------------------
(* A session: Frontend's constructor with loadSave, and mainLoop.          *)

\* A file of another size than the RAM ends the program with an error.
CanLoad == isCartridgeBatteryBacked => disk # Truncated

loadSave == IF isCartridgeBatteryBacked /\ disk # Absent THEN disk ELSE 0

\* The machine is a new one: its beam is where Beam!Init puts it.
NewMachine ==
  /\ line' = 0 /\ column' = 0 /\ mode' = Beam!ModeAt(0, 0) /\ frame' = 0
  /\ painted' = [row \in 0 .. VisibleLines - 1 |-> FrameWrap]
  /\ vblankRequested' = FALSE
  /\ joypadStatus' = GameKeys

\* Bound: no key is held while the window opens.
Start ==
  /\ doing = "off" /\ keys = {}
  /\ CanLoad
  /\ NewMachine /\ ram' = loadSave
  /\ doing' = "clock" /\ cyclesSinceLastDraw' = 0 /\ capSpeed' = TRUE
  /\ shown' = painted'
  /\ events' = << >>
  /\ UNCHANGED <<keys, disk>>

Mut_DrawEveryLine(cycles) == cycles % LineEnd = 0
shouldDrawDisplay(cycles) == cycles % displayInterval = 0

\* One turn of the main loop in which enough time has passed; a turn in which
\* it has not is a stuttering step.
MachineClock ==
  /\ doing = "clock"
  /\ Beam!Sweep \/ Beam!Retrace
  /\ ram' \in {ram, ram + 1} \cap 0 .. MaxRamChanges
  /\ cyclesSinceLastDraw' = cyclesSinceLastDraw + 1
  /\ doing' = IF shouldDrawDisplay(cyclesSinceLastDraw') THEN "poll" ELSE "clock"
  /\ UNCHANGED <<joypadStatus, shown, capSpeed, external>>

NextEvent(event) == doing = "poll" /\ events # << >> /\ Head(events) = event
TakeEvent == events' = Tail(events) /\ UNCHANGED <<keys, disk>>

HandleOther ==
  /\ NextEvent("other") /\ TakeEvent
  /\ UNCHANGED <<machine, loop>>

\* saveGame, then exit.  Without a battery there is nothing to save.
Mut_ExitUnsaved ==
  /\ NextEvent("closed") /\ TakeEvent
  /\ doing' = "off"
  /\ UNCHANGED <<machine, cyclesSinceLastDraw, shown, capSpeed>>
HandleClosed ==
  /\ NextEvent("closed") /\ TakeEvent
  /\ doing' = IF isCartridgeBatteryBacked THEN "exit" ELSE "off"
  /\ UNCHANGED <<machine, cyclesSinceLastDraw, shown, capSpeed>>

\* A key was pressed or released.  The handler does not ask which: it looks
\* at the keys held down now, L first, then K, then the controls.
HandleSaveKey ==
  /\ NextEvent("key") /\ TakeEvent
  /\ "L" \in keys
  /\ doing' = IF isCartridgeBatteryBacked THEN "save" ELSE "poll"
  /\ UNCHANGED <<machine, cyclesSinceLastDraw, shown, capSpeed>>

Mut_WaitForRelease ==
  /\ NextEvent("key")
  /\ "L" \notin keys /\ "K" \in keys
  /\ capSpeed' = ~capSpeed
  /\ UNCHANGED <<machine, doing, cyclesSinceLastDraw, shown, external>>
HandleSpeedKey ==
  /\ NextEvent("key") /\ TakeEvent
  /\ "L" \notin keys /\ "K" \in keys
  /\ capSpeed' = ~capSpeed
  /\ UNCHANGED <<machine, doing, cyclesSinceLastDraw, shown>>

Mut_PressesOnly ==
  /\ NextEvent("key") /\ TakeEvent
  /\ keys \cap {"K", "L"} = {}
  /\ joypadStatus' = IF keys = {} THEN joypadStatus ELSE GameKeys \ keys
  /\ UNCHANGED <<beam, ram, loop>>
HandleControls ==
  /\ NextEvent("key") /\ TakeEvent
  /\ keys \cap {"K", "L"} = {}
  /\ joypadStatus' = GameKeys \ keys
  /\ UNCHANGED <<beam, ram, loop>>

\* saveGame: opening the file empties it, unless it fails; a second step
\* writes the RAM.
AfterSave == IF doing \in {"save", "write"} THEN "poll" ELSE "off"

OpenSave ==
  /\ doing \in {"save", "exit"}
  /\ \/ doing' = (IF doing = "save" THEN "write" ELSE "writeExit") /\ disk' = Truncated
     \/ doing' = AfterSave /\ UNCHANGED disk
  /\ UNCHANGED <<machine, cyclesSinceLastDraw, shown, capSpeed, keys, events>>

WriteSave ==
  /\ doing \in {"write", "writeExit"}
  /\ doing' = AfterSave
  /\ disk' = ram
  /\ UNCHANGED <<machine, cyclesSinceLastDraw, shown, capSpeed, keys, events>>

drawScreen ==
  /\ doing = "poll" /\ events = << >>
  /\ shown' = painted
  /\ cyclesSinceLastDraw' = 0
  /\ doing' = "clock"
  /\ UNCHANGED <<machine, capSpeed, external>>

Step ==
  \/ MachineClock \/ drawScreen
  \/ HandleOther \/ HandleClosed \/ HandleSaveKey \/ HandleSpeedKey \/ HandleControls
  \/ OpenSave \/ WriteSave

-----------------------------------------------------------------------------
(* The user and the system around it.                                      *)

Queue(event) ==
  /\ doing \in Running /\ Len(events) < MaxEvents
  /\ events' = Append(events, event)

\* Both ways of a key, or the repetition of a key that is held.
ChangeKey(key) ==
  /\ Queue("key")
  /\ keys' = (keys \cup {key}) \ (keys \cap {key})
  /\ UNCHANGED <<machine, loop, disk>>
RepeatKey ==
  /\ keys # {} /\ Queue("key")
  /\ UNCHANGED <<machine, loop, keys, disk>>

CloseWindow ==
  /\ Queue("closed")
  /\ UNCHANGED <<machine, loop, keys, disk>>

OtherEvent ==
  /\ Queue("other")
  /\ UNCHANGED <<machine, loop, keys, disk>>

\* The program is killed, or an assertion or an exception of the machine ends it.
Crash ==
  /\ doing \in Running
  /\ doing' = "off"
  /\ UNCHANGED <<machine, cyclesSinceLastDraw, shown, capSpeed, external>>

ReleaseUnseen ==
  /\ doing = "off" /\ keys # {}
  /\ keys' = {}
  /\ UNCHANGED <<machine, loop, events, disk>>

Environment ==
  \/ \E key \in Keys : ChangeKey(key)
  \/ RepeatKey \/ CloseWindow \/ OtherEvent \/ Crash \/ ReleaseUnseen

Next == Start \/ Step \/ Environment

\* The main loop runs for as long as the window is open.
Spec == Init /\ [][Next]_vars /\ WF_vars(Step)
=============================================================================
