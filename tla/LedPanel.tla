------------------------------- MODULE LedPanel -------------------------------
(***************************************************************************)
(* What the rest of the system may rely on of the STM32's LED panel: which *)
(* levels it knows, and whether a train has the panel.  MatrixRun, with    *)
(* its carousel, its dirty flags and its five clocks, implements this.     *)
(***************************************************************************)
EXTENDS Integers

CONSTANTS
  Levels,     \* congestion vectors
  TrainShow   \* TRAIN_EVENT_SHOW_MS

VARIABLES
  congestion_status,
  train_event_active,
  trainAge,    \* time since the last announcement, up to TrainShow
  trainScreen, \* current_screen is SCREEN_TRAIN
  cmds         \* commands so far: what comes from outside

panel == <<congestion_status, train_event_active, trainAge, trainScreen, cmds>>

Init ==
  /\ congestion_status \in Levels
  /\ train_event_active = FALSE /\ trainAge = 0 /\ trainScreen = FALSE
  /\ cmds = 0

SetCongestionBulk(levels) ==
  /\ congestion_status' = levels
  /\ UNCHANGED <<train_event_active, trainAge, trainScreen>>

\* Screen 4 is the train's, 1 to 3 the others, 0 the carousel.
DisplayCtrl(n) ==
  /\ trainScreen' = (n = 4)
  /\ UNCHANGED <<congestion_status, train_event_active, trainAge>>

\* An announcement does not take the panel before the next turn.
SetTrainDest(code) ==
  /\ train_event_active' = (code \in 1 .. 2)
  /\ trainAge' = IF code \in 1 .. 2 THEN 0 ELSE trainAge
  /\ UNCHANGED <<congestion_status, trainScreen>>

\* A turn of the main loop: a train has the panel for TrainShow.
Run ==
  /\ train_event_active' = (train_event_active /\ trainAge < TrainShow)
  /\ trainScreen' = IF train_event_active THEN trainAge < TrainShow ELSE trainScreen
  /\ UNCHANGED <<congestion_status, trainAge>>

Tick ==
  /\ trainAge' = (IF trainAge < TrainShow THEN trainAge + 1 ELSE trainAge)
  /\ UNCHANGED <<congestion_status, train_event_active, trainScreen>>

Command ==
  /\ cmds' = cmds + 1
  /\ \/ \E levels \in Levels : SetCongestionBulk(levels)
     \/ \E n \in 0 .. 4 : DisplayCtrl(n)
     \/ \E code \in 0 .. 3 : SetTrainDest(code)

Next == Command \/ (UNCHANGED cmds /\ (Run \/ Tick))

Spec == Init /\ [][Next]_panel
=============================================================================
