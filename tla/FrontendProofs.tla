--------------------------- MODULE FrontendProofs ---------------------------
(* The frontend, for every frame, queue of events and number of sessions. *)
EXTENDS FrontendProperties, TLAPS

-----------------------------------------------------------------------------
\* The beam and the screens hold what they should.
Row == 0 .. VisibleLines - 1
Screen == [Row -> 0 .. FrameWrap]
BeamTypes ==
  /\ line \in 0 .. TotalLines - 1 /\ column \in 0 .. LineEnd - 1
  /\ frame \in 0 .. FrameWrap - 1
  /\ painted \in Screen /\ shown \in Screen

\* The frame after the one shown; a new window shows none.
Follows(f) == IF f = FrameWrap THEN 0 ELSE Beam!NextFrame(f)

\* The window shows one frame.  Until it draws, the beam has swept as many
\* columns as clocks have been counted and paints the next frame over the one
\* shown; when it polls, that frame has just been completed.
Swept(row) == row < line \/ (row = line /\ column > OamEnd)
FrameInv ==
  /\ \A row \in Row : shown[row] = shown[0]
  /\ doing = "clock" =>
       /\ cyclesSinceLastDraw = line * LineEnd + column
       /\ frame = Follows(shown[0])
       /\ \A row \in Row : painted[row] = IF Swept(row) THEN frame ELSE shown[0]
  /\ doing \in Running \ {"clock"} =>
       /\ line = 0 /\ column = 0
       /\ frame = Follows(painted[0])
       /\ \A row \in Row : painted[row] = Follows(shown[0])

\* The save file, when it is whole, holds the last completed save; the RAM at
\* the closing of the window is the one about to be written.
SaveInv ==
  /\ disk # Truncated => lastSave = (IF disk = Absent THEN 0 ELSE disk)
  /\ doing \in {"save", "write", "exit", "writeExit"} => isCartridgeBatteryBacked
  /\ ~isCartridgeBatteryBacked => disk = Absent
  /\ doing \in {"exit", "writeExit"} => lastRam = ram
  /\ (isCartridgeBatteryBacked /\ doing = "off" /\ lastRam # None) => lastRam = lastSave

-----------------------------------------------------------------------------
(* The clocks counted are the place of the beam.                           *)

LEMMA Positions ==
  ASSUME NEW l \in 0 .. TotalLines - 1, NEW c \in 0 .. LineEnd - 1
  PROVE  /\ l * LineEnd \in Nat
         /\ (l + 1) * LineEnd = l * LineEnd + LineEnd
         /\ l * LineEnd + c < displayInterval
<1> USE FrameAssumption
<1>1. ASSUME NEW a \in Nat, NEW b \in Nat PROVE a * b \in Nat /\ (a + 1) * b = a * b + b
  OBVIOUS
<1>2. l \in Nat /\ c \in Nat /\ LineEnd \in Nat /\ TotalLines \in Nat /\ c < LineEnd
  OBVIOUS
<1>3. l * LineEnd \in Nat /\ (l + 1) * LineEnd = l * LineEnd + LineEnd
  BY <1>1, <1>2
<1>4. PICK rest \in Nat : TotalLines = (l + 1) + rest
  <2>1. TotalLines - (l + 1) \in Nat /\ TotalLines = (l + 1) + (TotalLines - (l + 1))
    BY <1>2
  <2> QED
    BY <2>1
<1>5. TotalLines * LineEnd = (l + 1) * LineEnd + rest * LineEnd /\ rest * LineEnd \in Nat
  BY <1>1, <1>2, <1>4
<1>6. displayInterval >= l * LineEnd + LineEnd
  BY <1>2, <1>3, <1>5
<1> QED
  BY <1>2, <1>3, <1>6

LEMMA Draws ==
  ASSUME NEW cycles \in 1 .. displayInterval
  PROVE  shouldDrawDisplay(cycles) <=> cycles = displayInterval
  BY FrontendAssumption DEF shouldDrawDisplay

LEMMA NextFrameType ==
  ASSUME NEW f \in 0 .. FrameWrap - 1
  PROVE  Beam!NextFrame(f) \in 0 .. FrameWrap - 1
  BY FrameAssumption DEF Beam!NextFrame

LEMMA FollowsType ==
  ASSUME NEW f \in 0 .. FrameWrap
  PROVE  Follows(f) \in 0 .. FrameWrap - 1
  BY FrameAssumption, NextFrameType DEF Follows

FrameIInv == TypeOK /\ BeamTypes /\ FrameInv

\* One clock moves the beam and the count together; the count reaches the
\* interval when the beam starts the next frame.
LEMMA ClockKeepsFrame ==
  ASSUME FrameIInv, MachineClock
  PROVE  FrameIInv'
<1> USE FrameAssumption
<1>1. doing = "clock" /\ "clock" \in Running
  BY DEF MachineClock, Running
<1>2. /\ line \in 0 .. TotalLines - 1 /\ column \in 0 .. LineEnd - 1
      /\ frame \in 0 .. FrameWrap - 1
      /\ cyclesSinceLastDraw = line * LineEnd + column
      /\ painted \in Screen /\ shown \in Screen
      /\ frame = Follows(shown[0])
      /\ \A row \in Row : painted[row] = IF Swept(row) THEN frame ELSE shown[0]
      /\ \A row \in Row : shown[row] = shown[0]
  BY <1>1 DEF FrameIInv, BeamTypes, FrameInv
<1>3. /\ line * LineEnd \in Nat /\ (line + 1) * LineEnd = line * LineEnd + LineEnd
      /\ cyclesSinceLastDraw < displayInterval
  BY <1>2, Positions
<1>4. cyclesSinceLastDraw' = cyclesSinceLastDraw + 1 /\ cyclesSinceLastDraw' \in 1 .. displayInterval
  <2>1. displayInterval \in Nat
    BY FrontendAssumption
  <2>2. cyclesSinceLastDraw' = cyclesSinceLastDraw + 1
    BY DEF MachineClock
  <2>3. cyclesSinceLastDraw \in Nat
    BY <1>2, <1>3
  <2> HIDE FrameAssumption
  <2> QED
    BY <1>3, <2>1, <2>2, <2>3
<1>5. doing' = IF cyclesSinceLastDraw' = displayInterval THEN "poll" ELSE "clock"
  BY <1>4, Draws DEF MachineClock
<1>6. shown' = shown /\ UNCHANGED <<joypadStatus, capSpeed, external>> /\ ram' \in 0 .. MaxRamChanges
  BY DEF MachineClock
<1>7. TypeOK'
  BY <1>4, <1>5, <1>6 DEF TypeOK, FrameIInv, external, Running
<1>8. CASE Beam!Sweep
  <2>1. /\ column + 1 < LineEnd /\ column' = column + 1 /\ line' = line /\ frame' = frame
        /\ painted' = IF line < VisibleLines /\ column = OamEnd
                      THEN [painted EXCEPT ![line] = frame] ELSE painted
    BY <1>8 DEF Beam!Sweep
  <2>2. cyclesSinceLastDraw' = line' * LineEnd + column'
    BY <1>2, <1>3, <1>4, <2>1
  <2>3. doing' = "clock"
    <3>1. column' \in 0 .. LineEnd - 1 /\ line' \in 0 .. TotalLines - 1
      BY <1>2, <2>1
    <3>2. cyclesSinceLastDraw' < displayInterval
      BY <2>2, <3>1, Positions
    <3> QED
      BY <1>4, <1>5, <3>2
  <2>4. painted' \in Screen
    BY <1>2, <2>1 DEF Screen, Row
  <2>5. \A row \in Row : painted'[row] = IF Swept(row)' THEN frame' ELSE shown'[0]
    BY <1>2, <1>6, <2>1 DEF Swept, Row, Screen
  <2>6. BeamTypes'
    BY <1>2, <1>6, <2>1, <2>4 DEF BeamTypes
  <2>7. FrameInv'
    <3>1. frame' = Follows(shown[0])'
      BY <1>2, <1>6, <2>1 DEF Follows
    <3> QED
      BY <1>2, <1>6, <2>2, <2>3, <2>5, <3>1 DEF FrameInv, Row
  <2> QED
    BY <1>7, <2>6, <2>7 DEF FrameIInv
<1>9. CASE Beam!Retrace
  <2>1. /\ column + 1 = LineEnd /\ column' = 0 /\ painted' = painted
        /\ line' = IF line + 1 = TotalLines THEN 0 ELSE line + 1
        /\ frame' = IF line' = 0 THEN Beam!NextFrame(frame) ELSE frame
    BY <1>9 DEF Beam!Retrace
  <2>2. BeamTypes'
    BY <1>2, <1>6, <2>1, NextFrameType DEF BeamTypes
  <2>3. cyclesSinceLastDraw' = (line + 1) * LineEnd
    BY <1>2, <1>3, <1>4, <2>1
  <2>4. CASE line + 1 = TotalLines
    <3>1. doing' = "poll" /\ line' = 0 /\ frame' = Beam!NextFrame(frame)
      BY <1>5, <2>1, <2>3, <2>4
    <3>2. \A row \in Row : painted[row] = frame
      BY <1>2, <2>4 DEF Swept, Row
    <3>3. frame' = Follows(painted[0])' /\ \A row \in Row : painted'[row] = Follows(shown[0])'
      <4>1. frame # FrameWrap /\ 0 \in Row
        BY <1>2 DEF Row
      <4>2. Follows(painted[0])' = Beam!NextFrame(frame)
        BY <2>1, <3>2, <4>1 DEF Follows
      <4>3. Follows(shown[0])' = frame
        BY <1>2, <1>6 DEF Follows
      <4> QED
        BY <2>1, <3>1, <3>2, <4>2, <4>3
    <3> QED
      BY <1>2, <1>6, <1>7, <2>1, <2>2, <3>1, <3>3 DEF FrameIInv, FrameInv, Row
  <2>5. CASE line + 1 # TotalLines
    <3>1. line' = line + 1 /\ frame' = frame /\ line' \in 0 .. TotalLines - 1
      BY <1>2, <2>1, <2>5
    <3>2. cyclesSinceLastDraw' = line' * LineEnd + column'
      BY <1>2, <2>1, <2>3, <3>1
    <3>3. doing' = "clock"
      <4>1. column' \in 0 .. LineEnd - 1
        BY <2>1
      <4>2. cyclesSinceLastDraw' < displayInterval
        BY <3>1, <3>2, <4>1, Positions
      <4> QED
        BY <1>4, <1>5, <4>2
    <3>4. \A row \in Row : Swept(row)' <=> Swept(row)
      BY <1>2, <2>1, <3>1 DEF Swept, Row
    <3>5. frame' = Follows(shown[0])'
      BY <1>2, <1>6, <3>1 DEF Follows
    <3> QED
      BY <1>2, <1>6, <1>7, <2>1, <2>2, <3>1, <3>2, <3>3, <3>4, <3>5 DEF FrameIInv, FrameInv, Row
  <2> QED
    BY <2>4, <2>5
<1> QED
  BY <1>8, <1>9 DEF MachineClock

\* Whatever else happens between two clocks leaves the beam alone, and draws
\* or starts only where the invariant says.
LEMMA OthersKeepFrame ==
  ASSUME FrameIInv, [Next]_vars, ~MachineClock, ~Start, ~drawScreen
  PROVE  FrameIInv'
<1> DEFINE Goes == \/ doing' = doing
                   \/ doing' = "off"
                   \/ doing \in Running \ {"clock"} /\ doing' \in Running \ {"clock"}
<1>1. UNCHANGED <<beam, cyclesSinceLastDraw, shown>> /\ Goes /\ TypeOK'
  <2> USE DEF TypeOK, FrameIInv, Running, machine, loop, external, Event
  <2>1. CASE HandleOther \/ HandleClosed \/ HandleSaveKey \/ HandleSpeedKey \/ HandleControls
    <3>1. doing = "poll" /\ UNCHANGED <<beam, cyclesSinceLastDraw, shown, ram, keys, disk>>
      BY <2>1 DEF HandleOther, HandleClosed, HandleSaveKey, HandleSpeedKey, HandleControls,
                  NextEvent, TakeEvent
    <3>2. doing' \in {"poll", "off", "save", "exit"}
      BY <2>1, <3>1 DEF HandleOther, HandleClosed, HandleSaveKey, HandleSpeedKey, HandleControls
    <3>3. events' \in Seq(Event)
      BY <2>1 DEF HandleOther, HandleClosed, HandleSaveKey, HandleSpeedKey, HandleControls,
                  NextEvent, TakeEvent
    <3>4. capSpeed' \in BOOLEAN /\ joypadStatus' \subseteq GameKeys
      BY <2>1 DEF HandleOther, HandleClosed, HandleSaveKey, HandleSpeedKey, HandleControls
    <3> QED
      BY <3>1, <3>2, <3>3, <3>4
  <2>2. CASE OpenSave \/ WriteSave
    BY <2>2 DEF OpenSave, WriteSave, AfterSave
  <2>3. CASE Environment
    <3>1. CASE \E key \in Keys : ChangeKey(key)
      BY <3>1 DEF ChangeKey, Queue, Keys
    <3>2. CASE RepeatKey \/ CloseWindow \/ OtherEvent
      BY <3>2 DEF RepeatKey, CloseWindow, OtherEvent, Queue
    <3>3. CASE Crash \/ ReleaseUnseen
      BY <3>3 DEF Crash, ReleaseUnseen
    <3> QED
      BY <2>3, <3>1, <3>2, <3>3 DEF Environment
  <2>4. CASE UNCHANGED vars
    BY <2>4 DEF vars
  <2> QED
    BY <2>1, <2>2, <2>3, <2>4 DEF Next, Step
<1>2. BeamTypes'
  BY <1>1 DEF FrameIInv, BeamTypes, beam
<1>3. FrameInv'
  <2>1. \A row \in Row : Swept(row)' <=> Swept(row)
    BY <1>1 DEF Swept, beam
  <2>2. \A row \in Row : shown'[row] = shown'[0]
    BY <1>1 DEF FrameIInv, FrameInv
  <2>3. "off" \notin Running
    BY DEF Running
  <2> QED
    BY <1>1, <2>1, <2>2, <2>3 DEF FrameIInv, FrameInv, beam, Follows
<1> QED
  BY <1>1, <1>2, <1>3 DEF FrameIInv

LEMMA FrameStep == FrameIInv /\ [Next]_vars => FrameIInv'
<1> SUFFICES ASSUME FrameIInv, [Next]_vars PROVE FrameIInv'
  OBVIOUS
<1> USE FrameAssumption
<1>1. CASE Start
  <2>1. /\ line' = 0 /\ column' = 0 /\ frame' = 0
        /\ painted' = [row \in Row |-> FrameWrap] /\ shown' = painted'
        /\ doing' = "clock" /\ cyclesSinceLastDraw' = 0
    BY <1>1 DEF Start, NewMachine, Row
  <2>2. BeamTypes'
    BY <2>1 DEF BeamTypes, Screen
  <2>3. FrameInv'
    <3>1. \A row \in Row : ~Swept(row)'
      BY <2>1 DEF Swept, Row
    <3>2. 0 \in Row /\ \A row \in Row : painted'[row] = FrameWrap /\ shown'[row] = FrameWrap
      BY <2>1 DEF Row
    <3>3. 0 * LineEnd + 0 = 0
      OBVIOUS
    <3> QED
      BY <2>1, <3>1, <3>2, <3>3 DEF FrameInv, Follows
  <2>4. TypeOK'
    <3>1. ram' \in 0 .. MaxRamChanges
      BY <1>1, FrontendAssumption
         DEF Start, loadSave, CanLoad, FrameIInv, TypeOK, Absent, Truncated
    <3>2. /\ joypadStatus' = GameKeys /\ doing' = "clock" /\ cyclesSinceLastDraw' = 0
          /\ capSpeed' = TRUE /\ events' = << >> /\ UNCHANGED <<keys, disk>>
      BY <1>1 DEF Start, NewMachine
    <3> QED
      BY <3>1, <3>2, FrontendAssumption DEF TypeOK, FrameIInv, Running
  <2> QED
    BY <2>2, <2>3, <2>4 DEF FrameIInv
<1>2. CASE drawScreen
  <2>1. /\ doing = "poll" /\ doing' = "clock" /\ cyclesSinceLastDraw' = 0 /\ shown' = painted
        /\ UNCHANGED <<line, column, frame, painted, ram, joypadStatus, capSpeed, keys, events, disk>>
    BY <1>2 DEF drawScreen, machine, beam, external
  <2>2. /\ line = 0 /\ column = 0 /\ frame = Follows(painted[0])
        /\ \A row \in Row : painted[row] = Follows(shown[0])
    BY <2>1 DEF FrameIInv, FrameInv, Running
  <2>3. TypeOK'
    BY <2>1, FrontendAssumption DEF TypeOK, FrameIInv, Running
  <2>4. BeamTypes'
    BY <2>1 DEF BeamTypes, FrameIInv
  <2>5. FrameInv'
    <3>1. \A row \in Row : ~Swept(row)'
      BY <2>1, <2>2 DEF Swept, Row
    <3>2. 0 \in Row
      BY DEF Row
    <3>3. 0 * LineEnd + 0 = 0
      OBVIOUS
    <3>4. frame' = Follows(shown[0])'
      BY <2>1, <2>2 DEF Follows
    <3>5. cyclesSinceLastDraw' = line' * LineEnd + column'
      BY <2>1, <2>2, <3>3
    <3> QED
      BY <2>1, <2>2, <3>1, <3>2, <3>4, <3>5 DEF FrameInv
  <2> QED
    BY <2>3, <2>4, <2>5 DEF FrameIInv
<1>3. CASE MachineClock
  BY <1>3, ClockKeepsFrame
<1> QED
  BY <1>1, <1>2, <1>3, OthersKeepFrame

LEMMA InitFrame == Init => FrameIInv
<1> SUFFICES ASSUME Init PROVE FrameIInv
  OBVIOUS
<1> USE FrameAssumption, FrontendAssumption
<1>1. TypeOK
  BY DEF Init, TypeOK, Absent, Truncated
<1>2. painted = [row \in Row |-> FrameWrap] /\ shown = painted /\ line = 0 /\ column = 0 /\ frame = 0
  BY DEF Init, Beam!Init, Row
<1>3. BeamTypes
  BY <1>2 DEF BeamTypes, Screen
<1>4. FrameInv
  <2>1. doing = "off" /\ "off" \notin Running /\ 0 \in Row
    BY DEF Init, Running, Row
  <2> QED
    BY <1>2, <2>1 DEF FrameInv, Running
<1> QED
  BY <1>1, <1>3, <1>4 DEF FrameIInv

LEMMA StepIsNext == [HNext]_hvars => [Next]_vars
  BY DEF HNext, HSave, HClose, HElse, Next, Step, hvars

\* The window shows every frame of the machine, one after the other and whole,
\* whatever the user does between two of them: FramesShownWhole.
THEOREM WholeFrames == HSpec => FramesShownWhole
<1> DEFINE next == IF shown[0] = FrameWrap THEN 0 ELSE Beam!NextFrame(shown[0])
           Drawn == drawScreen => \A row \in DOMAIN shown : shown'[row] = next
<1>1. HInit => FrameIInv
  BY InitFrame DEF HInit
<1>2. FrameIInv /\ [HNext]_hvars => FrameIInv'
  BY StepIsNext, FrameStep
<1>3. ASSUME FrameIInv PROVE Drawn
  <2> SUFFICES ASSUME drawScreen, NEW row \in DOMAIN shown PROVE shown'[row] = next
    OBVIOUS
  <2>1. row \in Row /\ shown' = painted /\ doing = "poll"
    BY <1>3 DEF drawScreen, FrameIInv, BeamTypes, Screen
  <2>2. painted[row] = Follows(shown[0])
    BY <1>3, <2>1 DEF FrameIInv, FrameInv, Running
  <2> QED
    BY <2>1, <2>2 DEF Follows
<1>4. FrameIInv /\ [HNext]_hvars => [Drawn]_hvars
  BY <1>3
<1> QED
  BY <1>1, <1>2, <1>4, PTL DEF HSpec, FramesShownWhole

-----------------------------------------------------------------------------
(* The save file.                                                          *)

SaveIInv == FrameIInv /\ SaveInv

LEMMA SaveStep == SaveIInv /\ [HNext]_hvars => SaveIInv'
<1> SUFFICES ASSUME SaveIInv, [HNext]_hvars PROVE SaveIInv'
  OBVIOUS
<1>1. FrameIInv /\ FrameIInv' /\ SaveInv /\ [Next]_vars
  BY StepIsNext, FrameStep DEF SaveIInv
<1>2. ram \in Nat /\ doing \in Running \cup {"off"} /\ None = -1 /\ Absent = -1 /\ Truncated = -2
  BY <1>1, FrontendAssumption DEF FrameIInv, TypeOK, None, Absent, Truncated
<1> SUFFICES SaveInv'
  BY <1>1 DEF SaveIInv
<1>3. CASE HSave
  <2>1. /\ doing \in {"write", "writeExit"}
        /\ doing' = IF doing = "write" THEN "poll" ELSE "off"
        /\ disk' = ram /\ lastSave' = ram /\ lastRam' = lastRam /\ ram' = ram
    BY <1>3 DEF HSave, WriteSave, AfterSave, machine
  <2> QED
    BY <1>1, <1>2, <2>1 DEF SaveInv
<1>4. CASE HClose
  <2>1. /\ doing = "poll" /\ doing' = IF isCartridgeBatteryBacked THEN "exit" ELSE "off"
        /\ UNCHANGED <<disk, ram, lastSave>> /\ lastRam' = ram
    BY <1>4 DEF HClose, HandleClosed, NextEvent, TakeEvent, machine
  <2> QED
    BY <1>1, <2>1 DEF SaveInv
<1>5. CASE HElse
  <2>1. /\ Next /\ ~WriteSave /\ ~HandleClosed /\ UNCHANGED lastSave
        /\ lastRam' = IF doing # "off" /\ doing' = "off" THEN None ELSE lastRam
    BY <1>5 DEF HElse
  <2>2. CASE Start
    <3>1. doing = "off" /\ doing' = "clock" /\ disk' = disk
      BY <2>2 DEF Start
    <3> QED
      BY <1>1, <2>1, <3>1 DEF SaveInv
  <2>3. CASE MachineClock
    <3>1. doing = "clock" /\ doing' \in {"clock", "poll"} /\ disk' = disk
      BY <2>3 DEF MachineClock, external
    <3> QED
      BY <1>1, <2>1, <3>1 DEF SaveInv
  <2>4. CASE drawScreen \/ HandleOther \/ HandleSpeedKey \/ HandleControls \/ HandleSaveKey
    <3>1. /\ doing = "poll" /\ disk' = disk
          /\ doing' \in {"clock", "poll"} \/ (doing' = "save" /\ isCartridgeBatteryBacked)
      BY <2>4 DEF drawScreen, HandleOther, HandleSpeedKey, HandleControls, HandleSaveKey,
                  NextEvent, TakeEvent, external, loop
    <3> QED
      BY <1>1, <2>1, <3>1 DEF SaveInv
  <2>5. CASE OpenSave
    <3>1. /\ doing \in {"save", "exit"} /\ ram' = ram
          /\ \/ doing' = (IF doing = "save" THEN "write" ELSE "writeExit") /\ disk' = Truncated
             \/ doing' = (IF doing = "save" THEN "poll" ELSE "off") /\ disk' = disk
      BY <2>5 DEF OpenSave, AfterSave, machine
    <3> QED
      BY <1>1, <1>2, <2>1, <3>1 DEF SaveInv
  <2>6. CASE Environment
    <3>1. UNCHANGED <<ram, disk>> /\ (doing' = doing \/ (doing # "off" /\ doing' = "off"))
      <4>1. CASE \E key \in Keys : ChangeKey(key)
        BY <4>1 DEF ChangeKey, machine, loop
      <4>2. CASE RepeatKey \/ CloseWindow \/ OtherEvent \/ ReleaseUnseen
        BY <4>2 DEF RepeatKey, CloseWindow, OtherEvent, ReleaseUnseen, machine, loop
      <4>3. CASE Crash
        BY <4>3 DEF Crash, machine, external, Running
      <4> QED
        BY <2>6, <4>1, <4>2, <4>3 DEF Environment
    <3> QED
      BY <1>1, <2>1, <3>1 DEF SaveInv
  <2> QED
    BY <2>1, <2>2, <2>3, <2>4, <2>5, <2>6 DEF Next, Step
<1>6. CASE UNCHANGED hvars
  BY <1>1, <1>6 DEF hvars, vars, machine, loop, external, SaveInv
<1> QED
  BY <1>3, <1>4, <1>5, <1>6 DEF HNext

\* A session starts from the RAM the last one ended with or, if that one was
\* not closed or could not be saved, from the last completed save, after any
\* number of sessions, crashes and failures: ResumesWhereItStopped.
THEOREM Resumes == HSpec => ResumesWhereItStopped
<1> DEFINE Resumed == Start =>
             /\ ram' = lastSave
             /\ (isCartridgeBatteryBacked /\ lastRam # None) => ram' = lastRam
<1>1. HInit => SaveIInv
  <2> SUFFICES ASSUME HInit PROVE SaveInv
    BY InitFrame DEF HInit, SaveIInv
  <2> QED
    BY DEF HInit, Init, SaveInv, Absent, Truncated
<1>2. SaveIInv /\ [HNext]_hvars => [Resumed]_hvars
  <2> SUFFICES ASSUME SaveInv, Start PROVE Resumed
    BY DEF SaveIInv
  <2>1. doing = "off" /\ ram' = loadSave /\ (isCartridgeBatteryBacked => disk # Truncated)
    BY DEF Start, CanLoad
  <2>2. ram' = lastSave
    BY <2>1 DEF SaveInv, loadSave, Absent, Truncated
  <2> QED
    BY <2>1, <2>2 DEF SaveInv
<1> QED
  BY <1>1, <1>2, SaveStep, PTL DEF HSpec, ResumesWhereItStopped

-----------------------------------------------------------------------------
(* The controls.                                                           *)

\* An event that is taken was the first; the others still wait.
LEMMA Taken ==
  ASSUME TypeOK, NEW event, event # "key", NextEvent(event), TakeEvent
  PROVE  Waiting("key") => Waiting("key")'
<1>1. events \in Seq(Event) /\ events # << >> /\ Head(events) = event /\ events' = Tail(events)
  BY DEF TypeOK, NextEvent, TakeEvent
<1>2. Len(events) \in Nat /\ Len(events) > 0 /\ DOMAIN events = 1 .. Len(events)
      /\ events[1] = event
  BY <1>1
<1>3. DOMAIN events' = 1 .. Len(events) - 1
      /\ \A i \in 1 .. Len(events) - 1 : events'[i] = events[i + 1]
  BY <1>1, <1>2
<1>4. ASSUME NEW i \in DOMAIN events, events[i] = "key"
      PROVE  \E j \in DOMAIN events' : events'[j] = "key"
  <2>1. i \in 1 .. Len(events) /\ i # 1
    BY <1>2, <1>4
  <2>2. i - 1 \in 1 .. Len(events) - 1 /\ (i - 1) + 1 = i
    BY <1>2, <2>1
  <2>3. events'[i - 1] = "key"
    BY <1>3, <1>4, <2>2
  <2> QED
    BY <1>3, <2>2, <2>3
<1> QED
  BY <1>4 DEF Waiting

\* A queued event waits behind those that do.
LEMMA Queued ==
  ASSUME TypeOK, NEW event, Queue(event)
  PROVE  /\ Waiting("key") => Waiting("key")'
         /\ event = "key" => Waiting("key")'
<1>1. events \in Seq(Event) /\ events' = Append(events, event)
  BY DEF TypeOK, Queue
<1>2. Len(events) \in Nat /\ DOMAIN events = 1 .. Len(events)
  BY <1>1
<1>3. /\ DOMAIN events' = 1 .. Len(events) + 1
      /\ \A i \in 1 .. Len(events) : events'[i] = events[i]
      /\ events'[Len(events) + 1] = event
  BY <1>1, <1>2
<1>4. Len(events) + 1 \in 1 .. Len(events) + 1 /\ 1 .. Len(events) \subseteq 1 .. Len(events) + 1
  BY <1>2
<1> QED
  BY <1>2, <1>3, <1>4 DEF Waiting

LEMMA ControlsStep == TypeOK /\ ControlsFollowKeys /\ [Next]_vars => ControlsFollowKeys'
<1> SUFFICES ASSUME TypeOK, ControlsFollowKeys, [Next]_vars PROVE ControlsFollowKeys'
  OBVIOUS
<1> DEFINE Kept == joypadStatus' = joypadStatus /\ keys' = keys
<1>1. CASE Kept /\ doing \in Running /\ (Waiting("key") => Waiting("key")')
  BY <1>1 DEF ControlsFollowKeys
<1>2. CASE doing' \notin Running
  BY <1>2 DEF ControlsFollowKeys
<1>3. CASE Start
  <2>1. keys' = {} /\ joypadStatus' = GameKeys
    BY <1>3 DEF Start, NewMachine
  <2> QED
    BY <2>1 DEF ControlsFollowKeys
<1>4. CASE MachineClock \/ drawScreen \/ OpenSave \/ WriteSave
  <2>1. Kept /\ events' = events /\ doing \in Running
    BY <1>4 DEF MachineClock, drawScreen, OpenSave, WriteSave, machine, external, Running
  <2> QED
    BY <1>1, <2>1 DEF Waiting
<1>5. CASE HandleOther \/ HandleClosed
  <2>1. Kept /\ doing \in Running
    BY <1>5 DEF HandleOther, HandleClosed, TakeEvent, machine, Running, NextEvent
  <2>2. Waiting("key") => Waiting("key")'
    BY <1>5, Taken DEF HandleOther, HandleClosed
  <2> QED
    BY <1>1, <2>1, <2>2
<1>6. CASE HandleSaveKey \/ HandleSpeedKey
  <2>1. keys' \cap {"K", "L"} # {}
    BY <1>6 DEF HandleSaveKey, HandleSpeedKey, TakeEvent
  <2> QED
    BY <2>1 DEF ControlsFollowKeys
<1>7. CASE HandleControls
  BY <1>7 DEF HandleControls, TakeEvent, ControlsFollowKeys
<1>8. CASE (\E key \in Keys : ChangeKey(key)) \/ RepeatKey
  <2>1. Queue("key")
    BY <1>8 DEF ChangeKey, RepeatKey
  <2>2. Waiting("key")'
    BY <2>1, Queued
  <2> QED
    BY <2>2 DEF ControlsFollowKeys
<1>9. CASE CloseWindow \/ OtherEvent
  <2>1. Kept /\ doing \in Running
    BY <1>9 DEF CloseWindow, OtherEvent, Queue, machine
  <2>2. Waiting("key") => Waiting("key")'
    BY <1>9, Queued DEF CloseWindow, OtherEvent
  <2> QED
    BY <1>1, <2>1, <2>2
<1>10. CASE Crash \/ ReleaseUnseen
  <2>1. doing' = "off"
    BY <1>10 DEF Crash, ReleaseUnseen, loop
  <2> QED
    BY <1>2, <2>1 DEF Running
<1>11. CASE UNCHANGED vars
  BY <1>11 DEF vars, machine, loop, external, ControlsFollowKeys, Waiting
<1> QED
  BY <1>3, <1>4, <1>5, <1>6, <1>7, <1>8, <1>9, <1>10, <1>11 DEF Next, Step, Environment

\* The controls of the machine are the keys held down whenever no key event
\* waits and no command key is down, in every session and however many events
\* wait.
THEOREM ControlsCorrect == HSpec => []ControlsFollowKeys
<1> DEFINE Inv == FrameIInv /\ ControlsFollowKeys
<1>1. HInit => Inv
  BY InitFrame DEF HInit, Init, ControlsFollowKeys, Running
<1>2. Inv /\ [HNext]_hvars => Inv'
  BY FrameStep, ControlsStep, StepIsNext DEF FrameIInv
<1> QED
  BY <1>1, <1>2, PTL DEF HSpec
=============================================================================
