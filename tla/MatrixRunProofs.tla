---------------------------- MODULE MatrixRunProofs ----------------------------
(***************************************************************************)
(* The panel is of the right type, shows trains for their full time, keeps *)
(* no outdated picture longer than a refresh, and implements LedPanel, for *)
(* all show times, levels, readings, numbers of commands and of wraps of   *)
(* the tick counter.                                                       *)
(*                                                                         *)
(* A train's event ends with the return to the dashboard because the       *)
(* carousel is never switched off: nothing passes 0 to SetAutoCycle.       *)
(***************************************************************************)
EXTENDS MatrixRun, TLAPS

IInv == TypeOK /\ auto_cycle_enabled = TRUE

-----------------------------------------------------------------------------
LEMMA UpRange ==
  ASSUME NEW limit \in Nat, NEW age \in 0 .. limit
  PROVE  Up(age, limit) \in 0 .. limit
BY DEF Up

LEMMA LagRange ==
  ASSUME NEW n \in 0 .. Refresh
  PROVE  Lag(n) \in 0 .. Refresh /\ Lag(n) <= n
BY MatrixAssumption DEF Lag

LEMMA InitHolds == Init => IInv
<1> SUFFICES ASSUME Init PROVE IInv
    OBVIOUS
<1>1. /\ DashShow + GasShow + TempShow \in Nat /\ Toggle \in Nat /\ TrainShow \in Nat
      /\ Refresh \in Nat /\ Sense \in Nat /\ MaxCmds \in Nat /\ MaxWraps \in Nat
  BY MatrixAssumption
<1>2. /\ switchAge \in 0 .. DashShow + GasShow + TempShow /\ modeAge \in 0 .. Toggle
      /\ trainAge \in 0 .. TrainShow /\ refreshAge \in 0 .. Refresh
      /\ uptime \in 0 .. Refresh /\ sinceDest \in 0 .. TrainShow
      /\ cmds \in 0 .. MaxCmds /\ wraps \in 0 .. MaxWraps
      /\ sensorAge \in 0 .. Sense /\ behind \in 0 .. Refresh
  BY <1>1 DEF Init
<1>3. /\ gas \in Readings /\ climate \in Readings
      /\ congestion_status \in Levels /\ auto_cycle_enabled = TRUE
      /\ current_screen \in DASHBOARD .. TRAIN /\ train_dest_code \in 0 .. 2
      /\ guide_mode \in 0 .. 1
  BY DEF Init, DASHBOARD, TRAIN
<1>4. {dashboard_dirty, auto_cycle_enabled, train_event_active, refreshZero, guide}
        \subseteq BOOLEAN
  BY DEF Init
<1> QED BY <1>2, <1>3, <1>4 DEF IInv, TypeOK

(* The screen after a turn, and what became of a train's event. *)
LEMMA RunType ==
  ASSUME IInv, Run
  PROVE  IInv'
<1> USE DEF DASHBOARD, CO2, TEMP_HUM, TRAIN
<1>1. /\ current_screen \in 0 .. 3 /\ guide_mode \in 0 .. 1
      /\ switchAge \in 0 .. DashShow + GasShow + TempShow /\ modeAge \in 0 .. Toggle
      /\ trainAge \in 0 .. TrainShow /\ refreshAge \in 0 .. Refresh
      /\ {DashShow, GasShow, TempShow, TrainShow, Toggle, Refresh, Anim} \subseteq Nat
  BY MatrixAssumption DEF IInv, TypeOK
<1>2. current_screen' \in 0 .. 3
  BY <1>1 DEF Run, MatrixRun_Run, NextScreen
<1>3. guide_mode' \in 0 .. 1
  BY <1>1 DEF Run, MatrixRun_Run
<1>4. /\ switchAge' \in 0 .. DashShow + GasShow + TempShow
      /\ modeAge' \in 0 .. Toggle /\ refreshAge' \in 0 .. Refresh
  BY <1>1 DEF Run, MatrixRun_Run
<1>5. /\ train_event_active' \in BOOLEAN /\ guide' \in BOOLEAN
      /\ dashboard_dirty' \in BOOLEAN /\ refreshZero' \in BOOLEAN
  BY DEF Run, MatrixRun_Run
<1>6. UNCHANGED <<congestion_status, auto_cycle_enabled, train_dest_code, climate, trainAge,
                  uptime, sinceDest, cmds, wraps>>
  BY DEF Run, MatrixRun_Run
<1>7. gas' \in Readings /\ sensorAge' \in 0 .. Sense
  BY MatrixAssumption DEF Run, AppTask_UpdateGasSensors, IInv, TypeOK
<1>8. behind' \in 0 .. Refresh
  BY LagRange DEF Run, IInv, TypeOK
<1> QED BY <1>2, <1>3, <1>4, <1>5, <1>6, <1>7, <1>8 DEF IInv, TypeOK

LEMMA TickType ==
  ASSUME IInv, Tick
  PROVE  IInv'
<1>1. /\ {DashShow, GasShow, TempShow, TrainShow, Toggle, Refresh, Sense} \subseteq Nat
      /\ DashShow + GasShow + TempShow \in Nat /\ MaxWraps \in Nat
  BY MatrixAssumption
<1>2. /\ switchAge' \in 0 .. DashShow + GasShow + TempShow /\ modeAge' \in 0 .. Toggle
      /\ trainAge' \in 0 .. TrainShow /\ refreshAge' \in 0 .. Refresh
      /\ sinceDest' \in 0 .. TrainShow /\ sensorAge' \in 0 .. Sense
  BY <1>1, UpRange DEF IInv, TypeOK, Tick
<1>4. behind' \in 0 .. Refresh
  <2>1. Up(behind, Refresh) \in 0 .. Refresh
    BY <1>1, UpRange DEF IInv, TypeOK
  <2> QED BY <2>1, LagRange DEF Tick
<1>3. uptime' \in 0 .. Refresh /\ wraps' \in 0 .. MaxWraps
  <2>1. uptime \in 0 .. Refresh /\ wraps \in 0 .. MaxWraps
    BY DEF IInv, TypeOK
  <2>2. Up(uptime, Refresh) \in 0 .. Refresh
    BY <1>1, <2>1, UpRange
  <2>3. \/ uptime' = Up(uptime, Refresh) /\ wraps' = wraps
        \/ wraps < MaxWraps /\ uptime' = 0 /\ wraps' = wraps + 1
    BY DEF Tick
  <2> QED BY <1>1, <2>1, <2>2, <2>3
<1> QED BY <1>2, <1>3, <1>4 DEF IInv, TypeOK, Tick

LEMMA StepHolds == IInv /\ [Next]_vars => IInv'
<1> SUFFICES ASSUME IInv, [Next]_vars PROVE IInv'
    OBVIOUS
<1>0. /\ DashShow + GasShow + TempShow \in Nat /\ Toggle \in Nat /\ TrainShow \in Nat
      /\ MaxCmds \in Nat
  BY MatrixAssumption
<1>00. Command => cmds' \in 0 .. MaxCmds /\ behind' \in 0 .. Refresh
  <2>1. Lag(behind) \in 0 .. Refresh
    BY LagRange DEF IInv, TypeOK
  <2> QED BY <1>0, <2>1 DEF Command, IInv, TypeOK
<1> USE DEF DASHBOARD, CO2, TEMP_HUM, TRAIN, ageVars, dataVars
<1>1. ASSUME NEW levels \in Levels, Command, SetCongestionBulk(levels) PROVE IInv'
  BY <1>0, <1>00, <1>1 DEF SetCongestionBulk, IInv, TypeOK
<1>2. ASSUME NEW n \in 0 .. 4, Command, DisplayCtrl(n) PROVE IInv'
  <2>1. CASE n = 0 /\ SetAutoCycle
    BY <1>0, <1>00, <1>2, <2>1 DEF SetAutoCycle, IInv, TypeOK
  <2>2. CASE n \in 1 .. 4 /\ SetScreen(n - 1)
    BY <1>0, <1>00, <1>2, <2>2 DEF SetScreen, IInv, TypeOK
  <2> QED BY <1>2, <2>1, <2>2 DEF DisplayCtrl
<1>3. ASSUME NEW code \in 0 .. 3, Command, SetTrainDest(code) PROVE IInv'
  <2>1. Dest(code) \in 0 .. 2
    BY DEF Dest
  <2> QED BY <1>0, <1>00, <1>3, <2>1 DEF SetTrainDest, TrainAgeAfter, IInv, TypeOK
<1>4. CASE Run
  BY <1>4, RunType
<1>5. CASE Tick
  BY <1>5, TickType
<1>6. ASSUME NEW reading \in Readings, SetTempHumValues(reading) PROVE IInv'
  <2>1. Lag(behind) \in 0 .. Refresh
    BY LagRange DEF IInv, TypeOK
  <2> QED BY <1>6, <2>1 DEF SetTempHumValues, IInv, TypeOK
<1>7. CASE UNCHANGED vars
  BY <1>7 DEF vars, IInv, TypeOK
<1> QED BY <1>1, <1>2, <1>3, <1>4, <1>5, <1>6, <1>7 DEF Next

LEMMA Invariant == Spec => []IInv
BY InitHolds, StepHolds, PTL DEF Spec

(* Typing of the panel: the clocks stay within their limits, the screen, the   *)
(* guide mode and the destination within the tables they index.                *)
THEOREM TypeCorrect == Spec => []TypeOK
<1>1. IInv => TypeOK
  BY DEF IInv
<1> QED BY Invariant, <1>1, PTL

-----------------------------------------------------------------------------
LEMMA InitImplements == Init => Promised!Init
BY DEF Init, Promised!Init, DASHBOARD, TRAIN

LEMMA RunImplements ==
  ASSUME IInv, Run
  PROVE  Promised!Run
<1> USE DEF DASHBOARD, CO2, TEMP_HUM, TRAIN
<1>1. /\ current_screen \in 0 .. 3 /\ trainAge \in Nat /\ TrainShow \in Nat
      /\ auto_cycle_enabled = TRUE /\ train_event_active \in BOOLEAN
  BY MatrixAssumption DEF IInv, TypeOK
<1>2. train_event_active' = (train_event_active /\ trainAge < TrainShow)
  BY <1>1 DEF Run, MatrixRun_Run
<1>3. current_screen' = TRAIN
        <=> IF train_event_active THEN trainAge < TrainShow ELSE current_screen = TRAIN
  BY <1>1 DEF Run, MatrixRun_Run, NextScreen
<1>4. UNCHANGED <<congestion_status, trainAge>>
  BY DEF Run, MatrixRun_Run
<1> QED BY <1>2, <1>3, <1>4 DEF Promised!Run

LEMMA StepImplements == IInv /\ [Next]_vars => [Promised!Next]_Promised!panel
<1> SUFFICES ASSUME IInv, [Next]_vars PROVE Promised!Next \/ UNCHANGED Promised!panel
    OBVIOUS
<1> USE DEF DASHBOARD, CO2, TEMP_HUM, TRAIN, ageVars
<1>1. ASSUME NEW levels \in Levels, SetCongestionBulk(levels)
      PROVE  Promised!SetCongestionBulk(levels)
  BY <1>1 DEF SetCongestionBulk, Promised!SetCongestionBulk
<1>2. ASSUME NEW n \in 0 .. 4, DisplayCtrl(n) PROVE Promised!DisplayCtrl(n)
  BY <1>2 DEF DisplayCtrl, SetAutoCycle, SetScreen, Promised!DisplayCtrl
<1>3. ASSUME NEW code \in 0 .. 3, SetTrainDest(code) PROVE Promised!SetTrainDest(code)
  BY <1>3 DEF SetTrainDest, Dest, TrainAgeAfter, Promised!SetTrainDest
<1>4. ASSUME Tick PROVE Promised!Tick
  <2>1. trainAge \in 0 .. TrainShow /\ TrainShow \in Nat
    BY MatrixAssumption DEF IInv, TypeOK
  <2> QED BY <1>4, <2>1 DEF Tick, Up, Promised!Tick
<1>5. CASE UNCHANGED vars \/ (\E reading \in Readings : SetTempHumValues(reading))
  BY <1>5 DEF vars, SetTempHumValues, Promised!panel
<1>6. Command => cmds' = cmds + 1
  BY DEF Command
<1>7. Run \/ Tick => UNCHANGED cmds
  BY DEF Run, MatrixRun_Run, Tick
<1> QED
  BY <1>1, <1>2, <1>3, <1>4, <1>5, <1>6, <1>7, RunImplements
     DEF Next, Promised!Next, Promised!Command

(* Every step of the panel is a step LedPanel allows, or none: the rest of the *)
(* system need not know of the carousel, the dirty flags and the ticks.        *)
THEOREM Implements == Spec => ImplementsLedPanel
BY Invariant, InitImplements, StepImplements, PTL DEF Spec, ImplementsLedPanel, Promised!Spec
-----------------------------------------------------------------------------
(* The event's own clock is the time since its announcement: every             *)
(* announcement restarts it, also one that finds an event under way.           *)
EventInv == train_event_active => trainAge = sinceDest

LEMMA EventStep == IInv /\ EventInv /\ [Next]_vars => EventInv'
<1> SUFFICES ASSUME IInv, EventInv, [Next]_vars PROVE EventInv'
    OBVIOUS
<1> USE DEF EventInv, ageVars
<1>1. ASSUME NEW levels \in Levels, SetCongestionBulk(levels) PROVE EventInv'
  BY <1>1 DEF SetCongestionBulk
<1>2. ASSUME NEW n \in 0 .. 4, DisplayCtrl(n) PROVE EventInv'
  BY <1>2 DEF DisplayCtrl, SetAutoCycle, SetScreen
<1>3. ASSUME NEW code \in 0 .. 3, SetTrainDest(code) PROVE EventInv'
  BY <1>3 DEF SetTrainDest, TrainAgeAfter
<1>4. CASE Run
  BY <1>4 DEF Run, MatrixRun_Run
<1>5. CASE Tick
  BY <1>5 DEF Tick
<1>6. CASE UNCHANGED vars \/ (\E reading \in Readings : SetTempHumValues(reading))
  BY <1>6 DEF vars, SetTempHumValues
<1> QED BY <1>1, <1>2, <1>3, <1>4, <1>5, <1>6 DEF Next

(* The only step that ends an event without a command is the turn that finds   *)
(* its time over.                                                              *)
LEMMA EventEnds ==
  ASSUME IInv, EventInv, [Next]_vars, train_event_active, ~train_event_active'
  PROVE  sinceDest >= TrainShow \/ cmds' # cmds
<1>1. Command => cmds' # cmds
  BY DEF Command, IInv, TypeOK
<1>2. CASE Run
  BY <1>2 DEF Run, MatrixRun_Run, EventInv
<1>3. CASE Tick \/ UNCHANGED vars \/ (\E reading \in Readings : SetTempHumValues(reading))
  BY <1>3 DEF Tick, vars, SetTempHumValues
<1> QED BY <1>1, <1>2, <1>3 DEF Next

(* MatrixRun_Run keeps an announced train on the panel for TRAIN_EVENT_SHOW_MS *)
(* after its announcement, whatever the carousel does and although a second    *)
(* announcement finds the event active; only a command ends it early.          *)
THEOREM TrainsShownInFull == Spec => FullShow
<1>1. Init => EventInv
  BY DEF Init, EventInv
<1>2. IInv /\ EventInv /\ [Next]_vars
        => [train_event_active /\ ~train_event_active'
              => sinceDest >= TrainShow \/ cmds' # cmds]_vars
  BY EventEnds
<1> QED BY <1>1, <1>2, Invariant, EventStep, PTL DEF Spec, FullShow

-----------------------------------------------------------------------------
(* The panel shows the current screen with data that were current within the   *)
(* age of the last refresh, unless the next turn has a reason to draw: a tick  *)
(* set to 0 or new data for the dashboard.                                     *)
PanelInv ==
  /\ shown = Current => behind = 0
  /\ \/ OldReading /\ behind <= refreshAge
     \/ refreshZero
     \/ current_screen = DASHBOARD /\ dashboard_dirty

\* The train screen is the only one with a destination on it, the dashboard
\* the only one with levels.
LEMMA ContentDepends ==
  ASSUME NEW screen \in DASHBOARD .. TRAIN, NEW levels, NEW mode, NEW dest, NEW co, NEW temp
  PROVE  /\ screen # DASHBOARD
              => \A l, m : Content(screen, l, m, dest, co, temp)
                             = Content(screen, levels, mode, dest, co, temp)
         /\ screen # TRAIN
              => \A d : Content(screen, levels, mode, d, co, temp)
                          = Content(screen, levels, mode, dest, co, temp)
BY DEF Content, DASHBOARD, CO2, TEMP_HUM, TRAIN

LEMMA CurrentIsShown ==
  ASSUME gas \in Readings, climate \in Readings, shown = Current
  PROVE  OldReading
BY DEF Current, OldReading

(* What the panel shows stays right while screen and picture stay, and what    *)
(* the screen shows but the readings.                                          *)
LEMMA OldReadingKept ==
  ASSUME IInv, OldReading, UNCHANGED <<current_screen, shown>>,
         current_screen = DASHBOARD => UNCHANGED <<congestion_status, guide_mode>>,
         current_screen = TRAIN => UNCHANGED train_dest_code
  PROVE  OldReading'
<1>0. current_screen \in DASHBOARD .. TRAIN
  BY DEF IInv, TypeOK
<1>1. PICK co \in Readings, temp \in Readings :
        shown = Content(current_screen, congestion_status, guide_mode, train_dest_code, co, temp)
  BY DEF OldReading
<1>2. Content(current_screen, congestion_status', guide_mode', train_dest_code, co, temp) = shown
  BY <1>0, <1>1, ContentDepends
<1>3. Content(current_screen, congestion_status', guide_mode', train_dest_code', co, temp) = shown
  BY <1>0, <1>2, ContentDepends
<1> QED BY <1>3 DEF OldReading

(* A turn that does not draw has left screen, guide mode and the reasons to    *)
(* draw as they were, and had none: a switch of the screen, a new guide mode   *)
(* or a dirty dashboard makes it draw, and so does a tick set to 0 once the    *)
(* counter has reached Refresh, or a refresh that is due.                      *)
LEMMA DrawnOrKept ==
  ASSUME IInv, Run
  PROVE  \/ shown' = Current'
         \/ /\ UNCHANGED <<shown, refreshZero, refreshAge, current_screen, congestion_status,
                          train_dest_code>>
            /\ current_screen = DASHBOARD => guide_mode' = guide_mode
            /\ refreshZero => uptime < Refresh
            /\ ~refreshZero => refreshAge < Refresh
            /\ ~(current_screen = DASHBOARD /\ dashboard_dirty)
<1> USE DEF DASHBOARD, CO2, TEMP_HUM, TRAIN
<1>1. /\ current_screen \in 0 .. 3 /\ guide_mode \in 0 .. 1 /\ uptime \in Nat
      /\ Refresh \in Nat /\ Anim \in Nat /\ Anim <= Refresh /\ refreshAge \in Nat
      /\ train_event_active \in BOOLEAN /\ refreshZero \in BOOLEAN
      /\ dashboard_dirty \in BOOLEAN
  BY MatrixAssumption DEF IInv, TypeOK
<1>2. UNCHANGED <<congestion_status, train_dest_code, climate>>
  BY DEF Run, MatrixRun_Run
<1>3. \/ shown' = Content(current_screen', congestion_status, guide_mode', train_dest_code,
                          gas', climate)
      \/ /\ UNCHANGED <<shown, refreshZero, refreshAge, current_screen>>
         /\ current_screen = DASHBOARD => guide_mode' = guide_mode
         /\ refreshZero => uptime < Refresh
         /\ ~refreshZero => refreshAge < Refresh
         /\ ~(current_screen = DASHBOARD /\ dashboard_dirty)
  BY <1>1 DEF Run, MatrixRun_Run, NeedRefresh
<1> QED BY <1>2, <1>3 DEF Current

LEMMA PanelStep == IInv /\ PanelInv /\ [Next]_vars => PanelInv'
<1> SUFFICES ASSUME IInv, PanelInv, [Next]_vars PROVE PanelInv'
    OBVIOUS
<1> USE DEF ageVars, dataVars
<1>0. /\ current_screen \in DASHBOARD .. TRAIN /\ behind \in 0 .. Refresh
      /\ refreshAge \in 0 .. Refresh /\ Refresh \in Nat
  BY MatrixAssumption DEF IInv, TypeOK
<1>l. ASSUME NEW n \in 0 .. Refresh, behind' = Lag(n)
      PROVE  (shown' = Current' => behind' = 0) /\ behind' <= n /\ behind' \in Nat
  BY <1>0, <1>l, LagRange DEF Lag
<1>1. ASSUME NEW levels \in Levels, SetCongestionBulk(levels), behind' = Lag(behind)
      PROVE  PanelInv'
  <2>1. /\ congestion_status' = levels
        /\ dashboard_dirty' = (dashboard_dirty \/ levels # congestion_status)
        /\ UNCHANGED <<current_screen, train_dest_code, guide_mode, refreshZero, refreshAge, shown>>
    BY <1>1 DEF SetCongestionBulk
  <2>2. CASE current_screen = DASHBOARD /\ levels # congestion_status
    BY <1>0, <1>1, <1>l, <2>1, <2>2 DEF PanelInv
  <2>3. CASE ~(current_screen = DASHBOARD /\ levels # congestion_status)
    <3>1. OldReading => OldReading'
      BY <2>1, <2>3, OldReadingKept
    <3>2. dashboard_dirty => dashboard_dirty'
      BY <2>1, Zenon
    <3>3. /\ shown' = Current' => behind' = 0
          /\ behind' <= behind /\ behind' \in Nat
      BY <1>0, <1>1, <1>l
    <3> QED BY <1>0, <2>1, <3>1, <3>2, <3>3 DEF PanelInv
  <2> QED BY <2>2, <2>3
<1>2. ASSUME NEW n \in 0 .. 4, DisplayCtrl(n), behind' = Lag(behind) PROVE PanelInv'
  <2>1. refreshZero'
    BY <1>2 DEF DisplayCtrl, SetAutoCycle, SetScreen
  <2> QED BY <1>0, <1>2, <1>l, <2>1 DEF PanelInv
<1>3. ASSUME NEW code \in 0 .. 3, SetTrainDest(code), behind' = Lag(behind) PROVE PanelInv'
  <2>1. /\ refreshZero' = (refreshZero \/ current_screen = TRAIN)
        /\ UNCHANGED <<congestion_status, current_screen, guide_mode, dashboard_dirty, refreshAge,
                       shown>>
    BY <1>3 DEF SetTrainDest
  <2>2. current_screen # TRAIN /\ OldReading => OldReading'
    BY <2>1, OldReadingKept
  <2>3. refreshZero \/ current_screen = TRAIN => refreshZero'
    BY <2>1, Zenon
  <2>4. /\ shown' = Current' => behind' = 0
        /\ behind' <= behind /\ behind' \in Nat
    BY <1>0, <1>3, <1>l
  <2> QED BY <1>0, <2>1, <2>2, <2>3, <2>4 DEF PanelInv
<1>4. CASE Run
  <2>1. behind' = Lag(behind) /\ refreshAge' \in Nat /\ gas' \in Readings /\ climate' \in Readings
    <3>1. IInv'
      BY <1>4, RunType
    <3> QED BY <1>0, <1>4, <3>1 DEF Run, IInv, TypeOK
  <2>2. CASE shown' = Current'
    <3>1. OldReading' /\ behind' = 0
      BY <1>0, <1>l, <2>1, <2>2 DEF Current, OldReading
    <3> QED BY <2>1, <3>1 DEF PanelInv
  <2>3. CASE /\ UNCHANGED <<shown, refreshZero, refreshAge, current_screen, congestion_status,
                            train_dest_code>>
             /\ current_screen = DASHBOARD => guide_mode' = guide_mode
             /\ ~(current_screen = DASHBOARD /\ dashboard_dirty)
    <3>1. OldReading => OldReading'
      BY <2>3, OldReadingKept
    <3> QED BY <1>0, <1>l, <2>1, <2>3, <3>1 DEF PanelInv
  <2> QED BY <1>4, <2>2, <2>3, DrawnOrKept
<1>5. CASE Tick
  <2>1. /\ behind' = Lag(Up(behind, Refresh)) /\ refreshAge' = Up(refreshAge, Refresh)
        /\ UNCHANGED <<current_screen, shown, congestion_status, guide_mode, train_dest_code,
                       refreshZero, dashboard_dirty>>
    BY <1>5 DEF Tick
  <2>2. /\ Up(behind, Refresh) \in 0 .. Refresh
        /\ behind <= refreshAge => Up(behind, Refresh) <= refreshAge'
    BY <1>0, <2>1 DEF Up
  <2>3. OldReading => OldReading'
    BY <2>1, OldReadingKept
  <2>4. refreshAge' \in Nat
    BY <1>0, <2>1, UpRange
  <2> QED BY <1>0, <1>l, <2>1, <2>2, <2>3, <2>4 DEF PanelInv
<1>6. ASSUME NEW reading \in Readings, SetTempHumValues(reading) PROVE PanelInv'
  <2>1. /\ behind' = Lag(behind)
        /\ UNCHANGED <<current_screen, shown, congestion_status, guide_mode, train_dest_code,
                       refreshZero, refreshAge, dashboard_dirty>>
    BY <1>6 DEF SetTempHumValues
  <2>2. OldReading => OldReading'
    BY <2>1, OldReadingKept
  <2> QED BY <1>0, <1>l, <2>1, <2>2 DEF PanelInv
<1>7. CASE UNCHANGED vars
  BY <1>7 DEF vars, PanelInv, Current, OldReading
<1> QED BY <1>1, <1>2, <1>3, <1>4, <1>5, <1>6, <1>7 DEF Next, Command

(* However commands, sensors and turns interleave, no clear of the panel, dirty *)
(* flag or tick set to 0 is lost: after a turn of MatrixRun_Run the panel shows *)
(* the current screen, with the current data or a reading that was replaced     *)
(* less than Refresh ago, unless the counter is below Refresh.                  *)
THEOREM PanelStaysCurrent == Spec => PanelIsCurrent
<1>1. Init => PanelInv
  <2> SUFFICES ASSUME Init PROVE PanelInv
      OBVIOUS
  <2>1. OldReading
    BY CurrentIsShown DEF Init
  <2> QED BY <2>1 DEF Init, PanelInv
<1>2. IInv /\ PanelInv /\ [Next]_vars
        => [Run => \/ shown' = Current'
                   \/ OldReading' /\ behind' < Refresh
                   \/ uptime < Refresh]_vars
  <2> SUFFICES ASSUME IInv, PanelInv, Run, shown' # Current', ~(uptime < Refresh)
               PROVE  OldReading' /\ behind' < Refresh
      OBVIOUS
  <2>1. /\ UNCHANGED <<shown, current_screen, congestion_status, train_dest_code>>
        /\ current_screen = DASHBOARD => guide_mode' = guide_mode
        /\ refreshAge < Refresh /\ OldReading /\ behind <= refreshAge
    BY DrawnOrKept DEF PanelInv
  <2>2. OldReading'
    BY <2>1, OldReadingKept
  <2>3. /\ behind \in 0 .. Refresh /\ refreshAge \in Nat /\ Refresh \in Nat
        /\ behind' = Lag(behind)
    BY MatrixAssumption DEF IInv, TypeOK, Run
  <2>4. behind' \in 0 .. Refresh /\ behind' <= behind
    BY <2>3, LagRange
  <2> QED BY <2>1, <2>2, <2>3, <2>4
<1> QED BY <1>1, <1>2, Invariant, PanelStep, PTL DEF Spec, PanelIsCurrent
=============================================================================
