------------------------------ MODULE MatrixRun ------------------------------
(***************************************************************************)
(* The STM32's LED panel (features/display/matrix_run.c): a carousel of    *)
(* dashboard, gas and temperature screens, interrupted by a train event,   *)
(* steered by commands the UART handler hands over between two turns of    *)
(* the main loop.  The gas and temperature screens draw g_db_data, which   *)
(* the main loop and the UART handler renew without telling the panel.     *)
(*                                                                         *)
(* MatrixRun_Run works on differences HAL_GetTick() - last_..._tick, so    *)
(* the model keeps the differences, saturated at the largest limit they    *)
(* are compared with.  One of the ticks is also set to 0 to ask for a      *)
(* refresh: its difference is then the tick counter itself, which is small *)
(* after the start and whenever the 32 bits of the counter wrap.           *)
(* The text animation of the train screen is left out.                     *)
(***************************************************************************)
EXTENDS Integers

CONSTANTS
  DashShow, GasShow, TempShow,  \* DASHBOARD_SHOW_MS, GAS_.., TEMP_HUM_SHOW_MS
  TrainShow,       \* TRAIN_EVENT_SHOW_MS
  Toggle,          \* DASHBOARD_GUIDE_TOGGLE_MS
  Refresh, Anim,   \* DASHBOARD_REFRESH_MS, TRAIN_ANIM_REFRESH_MS
  Sense,           \* SENSOR_READ_INTERVAL_MS
  Levels,          \* congestion vectors received
  Readings,        \* values of the gas sensors, and of the Pi's climate sensor
  MaxCmds,         \* bound: commands
  MaxWraps         \* bound: wraps of the tick counter

ASSUME MatrixAssumption ==
  /\ {DashShow, GasShow, TempShow, TrainShow, Toggle, Refresh, Anim, Sense}
       \subseteq Nat \ {0}
  /\ Anim <= Refresh /\ Levels # {} /\ Readings # {}
  /\ MaxCmds \in Nat /\ MaxWraps \in Nat

DASHBOARD == 0
CO2 == 1
TEMP_HUM == 2
TRAIN == 3

VARIABLES
  congestion_status, dashboard_dirty, current_screen, auto_cycle_enabled,
  train_dest_code, train_event_active, guide_mode,
  gas, climate,                   \* g_db_data: CO and CO2, temperature and humidity
  sensorAge,                      \* now - s_sensor_tick
  switchAge, modeAge, trainAge,   \* now - last_switch_tick, etc.
  refreshAge, refreshZero,        \* now - last_refresh_tick; it was set to 0
  uptime,                         \* the tick counter, saturated
  shown,                          \* what the panel shows
  guide,                          \* the last turn called Audio_Guide
  sinceDest,                      \* history: time since a train was announced
  behind,                         \* history: how long the panel has been out of date
  cmds, wraps                     \* inputs so far

dataVars == <<gas, climate, sensorAge>>
ageVars == <<switchAge, modeAge, trainAge, refreshAge, uptime, sinceDest, wraps>>
vars == <<congestion_status, dashboard_dirty, current_screen, auto_cycle_enabled,
          train_dest_code, train_event_active, guide_mode, dataVars, ageVars, refreshZero, shown, guide,
          behind, cmds>>

\* What the screen-drawing functions would put on the panel.
Content(screen, levels, mode, dest, co, temp) ==
  CASE screen = DASHBOARD -> <<"dashboard", levels, mode>>
    [] screen = CO2       -> <<"co2", co>>
    [] screen = TEMP_HUM  -> <<"temp_hum", temp>>
    [] screen = TRAIN     -> <<"train", dest>>

Current ==
  Content(current_screen, congestion_status, guide_mode, train_dest_code, gas, climate)

\* The panel is out of date since n, unless it is not.
Lag(n) == IF shown' = Current' THEN 0 ELSE n

Blank == <<"blank">>   \* after HUB75_Clear

(* AppTask_Init, MatrixRun_Init; the counter has hardly moved since the start. *)
Init ==
  /\ congestion_status \in Levels
  /\ dashboard_dirty = FALSE /\ current_screen = DASHBOARD /\ auto_cycle_enabled = TRUE
  /\ train_dest_code = 0 /\ train_event_active = FALSE /\ guide_mode = 0
  /\ switchAge = 0 /\ modeAge = 0 /\ trainAge = 0 /\ refreshAge = 0 /\ uptime = 0
  /\ refreshZero = FALSE
  /\ gas \in Readings /\ climate \in Readings /\ sensorAge = 0
  /\ shown = Current /\ behind = 0
  /\ guide = FALSE /\ sinceDest = TrainShow /\ cmds = 0 /\ wraps = 0

-----------------------------------------------------------------------------
(* Commands, from UART_Handler_Process. *)
Command == cmds < MaxCmds /\ cmds' = cmds + 1 /\ behind' = Lag(behind)

\* MatrixRun_SetCongestionBulk.
SetCongestionBulk(levels) ==
  /\ congestion_status' = levels
  /\ dashboard_dirty' = (dashboard_dirty \/ levels # congestion_status)
  /\ UNCHANGED <<current_screen, auto_cycle_enabled, train_dest_code, train_event_active,
                 guide_mode, dataVars, ageVars, refreshZero, shown, guide>>

\* MatrixRun_SetScreen: auto_cycle_enabled is left alone.
SetScreen(screen) ==
  /\ shown' = Blank
  /\ current_screen' = screen
  /\ switchAge' = 0 /\ refreshZero' = TRUE
  /\ UNCHANGED <<congestion_status, dashboard_dirty, auto_cycle_enabled, train_dest_code,
                 train_event_active, guide_mode, dataVars, modeAge, trainAge, refreshAge, uptime,
                 guide, sinceDest, wraps>>

\* MatrixRun_SetAutoCycle(1), for "0"; the code never passes 0.
SetAutoCycle ==
  /\ auto_cycle_enabled' = TRUE
  /\ current_screen' = DASHBOARD /\ dashboard_dirty' = TRUE /\ guide_mode' = 0
  /\ modeAge' = 0 /\ switchAge' = 0 /\ refreshZero' = TRUE
  /\ shown' = Blank
  /\ UNCHANGED <<congestion_status, train_dest_code, train_event_active, dataVars, trainAge,
                 refreshAge, uptime, guide, sinceDest, wraps>>

\* train_event_start_tick after an announcement.
TrainAgeAfter_FirstOnly(dest) ==
  IF dest # 0 /\ ~train_event_active THEN 0 ELSE trainAge
TrainAgeAfter(dest) == IF dest # 0 THEN 0 ELSE trainAge

\* Codes without a screen text mean no train.
Dest(code) == IF code > 2 THEN 0 ELSE code

\* MatrixRun_SetTrainDest.
SetTrainDest(code) ==
  LET dest == Dest(code)
  IN  /\ train_dest_code' = dest
      /\ train_event_active' = (dest # 0)
      /\ trainAge' = TrainAgeAfter(dest)
      /\ sinceDest' = IF dest # 0 THEN 0 ELSE sinceDest
      /\ refreshZero' = (refreshZero \/ current_screen = TRAIN)
      /\ UNCHANGED <<congestion_status, dashboard_dirty, current_screen, auto_cycle_enabled,
                     guide_mode, dataVars, switchAge, modeAge, refreshAge, uptime, shown, guide,
                     wraps>>

\* CMD_DISPLAY_CTRL: "0" is the carousel, "1" to "4" a screen, the rest a NACK.
DisplayCtrl(n) ==
  \/ n = 0 /\ SetAutoCycle
  \/ n \in 1 .. 4 /\ SetScreen(n - 1)

\* CMD_GET_TEMP_HUM, which brings a temperature: no dirty flag is set.
SetTempHumValues(reading) ==
  /\ climate' = reading
  /\ UNCHANGED <<congestion_status, dashboard_dirty, current_screen, auto_cycle_enabled,
                 train_dest_code, train_event_active, guide_mode, gas, sensorAge, ageVars,
                 refreshZero, shown, guide, cmds>>
  /\ behind' = Lag(behind)

-----------------------------------------------------------------------------
(* AppTask_Run: the gas sensors, then MatrixRun_Run, in the order of the code. *)
AppTask_UpdateGasSensors ==
  \/ sensorAge < Sense /\ UNCHANGED <<gas, sensorAge>>
  \/ sensorAge >= Sense /\ gas' \in Readings /\ sensorAge' = 0

Stay(screen) ==
  IF screen = DASHBOARD THEN DashShow ELSE IF screen = CO2 THEN GasShow ELSE TempShow

NextScreen_Last(screen) == IF screen = TEMP_HUM THEN TEMP_HUM ELSE screen + 1
NextScreen_AllFour(screen) == (screen + 1) % 4
NextScreen(screen) == (screen + 1) % 3

\* Refresh without a change of screen: new dashboard data, or it is time.
NeedRefresh_TimeOnly(screen, dirty, age) == IF screen = TRAIN THEN age >= Anim ELSE age >= Refresh
NeedRefresh(screen, dirty, age) ==
  \/ screen = DASHBOARD /\ dirty
  \/ IF screen = TRAIN THEN age >= Anim ELSE age >= Refresh

MatrixRun_Run ==
  LET enter   == train_event_active /\ current_screen # TRAIN   \* the event takes the panel
      over    == train_event_active /\ trainAge >= TrainShow
      home    == over /\ auto_cycle_enabled
      s1      == IF home THEN DASHBOARD ELSE IF train_event_active THEN TRAIN
                                                               ELSE current_screen
      sw1     == IF enter \/ home THEN 0 ELSE switchAge
      turn    == auto_cycle_enabled /\ s1 <= TEMP_HUM /\ sw1 >= Stay(s1)
      s2      == IF turn THEN NextScreen(s1) ELSE s1
      again   == home \/ (turn /\ s2 = DASHBOARD)   \* the dashboard starts afresh
      mode1   == IF again THEN 0 ELSE guide_mode
      toggle  == s2 = DASHBOARD /\ ~again /\ modeAge >= Toggle
      mode2   == IF toggle THEN 1 - mode1 ELSE mode1
      dirty   == dashboard_dirty \/ again \/ toggle
      age     == IF refreshZero \/ enter THEN uptime ELSE refreshAge
      draw    == enter \/ home \/ turn \/ NeedRefresh(s2, dirty, age)
  IN  /\ train_event_active' = (train_event_active /\ ~over)
      /\ current_screen' = s2
      /\ switchAge' = IF turn THEN 0 ELSE sw1
      /\ guide_mode' = mode2
      /\ modeAge' = IF again \/ toggle THEN 0 ELSE modeAge
      /\ guide' = (turn /\ s2 = DASHBOARD)
      /\ shown' = IF draw THEN Content(s2, congestion_status, mode2, train_dest_code,
                                          gas', climate)
                             ELSE shown
      /\ dashboard_dirty' = (dirty /\ ~(draw /\ s2 = DASHBOARD))
      /\ refreshAge' = IF draw THEN 0 ELSE refreshAge
      /\ refreshZero' = (refreshZero /\ ~draw)
      /\ UNCHANGED <<congestion_status, auto_cycle_enabled, train_dest_code, climate, trainAge,
                     uptime, sinceDest, cmds, wraps>>

Run == AppTask_UpdateGasSensors /\ MatrixRun_Run /\ behind' = Lag(behind)

-----------------------------------------------------------------------------
Up(age, limit) == IF age < limit THEN age + 1 ELSE limit

(* HAL_GetTick moves on. *)
Tick ==
  /\ switchAge' = Up(switchAge, DashShow + GasShow + TempShow)
  /\ modeAge' = Up(modeAge, Toggle)
  /\ trainAge' = Up(trainAge, TrainShow)
  /\ refreshAge' = Up(refreshAge, Refresh)
  /\ sinceDest' = Up(sinceDest, TrainShow)
  /\ sensorAge' = Up(sensorAge, Sense)
  /\ \/ uptime' = Up(uptime, Refresh) /\ UNCHANGED wraps
     \/ uptime = Refresh /\ wraps < MaxWraps /\ uptime' = 0 /\ wraps' = wraps + 1
  /\ UNCHANGED <<congestion_status, dashboard_dirty, current_screen, auto_cycle_enabled,
                 train_dest_code, train_event_active, guide_mode, gas, climate, refreshZero, shown,
                 guide, cmds>>
  /\ behind' = Lag(Up(behind, Refresh))

Next ==
  \/ \E levels \in Levels : SetCongestionBulk(levels) /\ Command
  \/ \E n \in 0 .. 4 : DisplayCtrl(n) /\ Command
  \/ \E code \in 0 .. 3 : SetTrainDest(code) /\ Command
  \/ \E reading \in Readings : SetTempHumValues(reading)
  \/ Run
  \/ Tick

(* The main loop calls AppTask_Run for ever and time passes. *)
Spec == Init /\ [][Next]_vars /\ WF_vars(Run) /\ WF_vars(Tick)

-----------------------------------------------------------------------------
(* Type invariant. *)
TypeOK ==
  /\ congestion_status \in Levels
  /\ {dashboard_dirty, auto_cycle_enabled, train_event_active, refreshZero, guide}
       \subseteq BOOLEAN
  /\ current_screen \in DASHBOARD .. TRAIN /\ train_dest_code \in 0 .. 2
  /\ guide_mode \in 0 .. 1
  /\ switchAge \in 0 .. DashShow + GasShow + TempShow /\ modeAge \in 0 .. Toggle
  /\ trainAge \in 0 .. TrainShow /\ refreshAge \in 0 .. Refresh
  /\ uptime \in 0 .. Refresh /\ sinceDest \in 0 .. TrainShow
  /\ gas \in Readings /\ climate \in Readings /\ sensorAge \in 0 .. Sense
  /\ behind \in 0 .. Refresh
  /\ cmds \in 0 .. MaxCmds /\ wraps \in 0 .. MaxWraps

\* The right screen, with a reading that may have been replaced since.
OldReading ==
  \E co, temp \in Readings :
    shown = Content(current_screen, congestion_status, guide_mode, train_dest_code, co, temp)

(* After each turn of the main loop the panel shows the current screen, the  *)
(* dashboard and the train with the current data, whichever of the clears,   *)
(* dirty flags and reset ticks the last commands went through.  A gas or     *)
(* temperature reading on it may be an old one, for nothing but the periodic *)
(* refresh brings a new one to a screen that stays: it is out of date for    *)
(* less than Refresh.  And for Refresh ticks after the counter starts or     *)
(* wraps nothing is claimed: a tick "reset" to 0 then asks for no refresh.   *)
PanelIsCurrent ==
  [][Run => \/ shown' = Current'
            \/ OldReading' /\ behind' < Refresh
            \/ uptime < Refresh]_vars

(* An announced train keeps the panel for its full time, also when it is    *)
(* announced while an earlier one is showing; only a command ends it early. *)
FullShow ==
  [][train_event_active /\ ~train_event_active' => sinceDest >= TrainShow \/ cmds' # cmds]_vars

(* The carousel goes round for ever, and with it the announcements, unless  *)
(* the panel is left on the train screen without an event: nothing but a    *)
(* command ends that.                                                       *)
CarouselTurns ==
  \/ []<>guide
  \/ <>[](current_screen = TRAIN /\ ~train_event_active)

(* To the rest of the system the panel is LedPanel: whatever the carousel, the *)
(* commands and the resets of the ticks do, levels are taken over whole, and a *)
(* train has the panel exactly from the turn after its announcement for its    *)
(* time, to leave it to the dashboard.                                         *)
Promised == INSTANCE LedPanel WITH trainScreen <- current_screen = TRAIN
ImplementsLedPanel == Promised!Spec
=============================================================================
