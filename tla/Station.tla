-------------------------------- MODULE Station --------------------------------
(***************************************************************************)
(* What passengers see: the congestion found by the server (Congestion)    *)
(* and the trains the Raspberry Pi asks a web service about                *)
(* (drivers/src/display.cpp), both sent to the STM32 and shown by its LED  *)
(* panel (LedPanel).                                                       *)
(*                                                                         *)
(* Two threads of the Pi write frames, each until tcdrain returns; on the  *)
(* STM32 a frame lies in one mailbox until the main loop comes round, and  *)
(* the next frame replaces it.  Stm32Link has the details; here a frame    *)
(* is put into the mailbox whole, and taken out whole.                     *)
(*                                                                         *)
(* The unit of time is 5 s: much longer than a frame or a turn of the main *)
(* loop, and than the second after which the levels are published again.   *)
(***************************************************************************)
EXTENDS Congestion

CONSTANTS
  Poll, Hold,     \* subway_poll_ms and subway_hold_sec
  Codes,          \* of the trains' destinations
  PerUnit,        \* bound: levels that come in a unit of time
  TrainShow       \* TRAIN_EVENT_SHOW_MS

ASSUME StationAssumption ==
  Poll \in Nat \ {0} /\ Hold \in Nat /\ Codes \subseteq 0 .. 2 /\ PerUnit \in Nat \ {0}

VARIABLES
  congestion_status, train_event_active, trainAge, trainScreen,   \* see LedPanel
  mailbox,       \* pendingPkt and pktReady: a frame or <<>>
  loop,          \* the STM32's main loop: "uart" or "matrix"
  subway,        \* the Pi's subway thread: "sleep", "fetch" or "screen"
  active,        \* a train is shown, as the Pi thinks
  event_armed,
  slept, held,   \* time slept; time since active was set
  arrived,       \* levels that have come in this unit of time
  faults         \* history: subway frames lost in the mailbox, and trains without
                 \* a destination text, up to 2

Levels == [Cameras -> 0 .. 2]
Panel == INSTANCE LedPanel WITH cmds <- 0   \* they are not counted here
panelVars == <<congestion_status, train_event_active, trainAge, trainScreen>>
subwayVars == <<subway, active, event_armed, slept, held>>
linkVars == <<mailbox, faults>>
vars == <<congestionVars, panelVars, subwayVars, linkVars, loop, arrived>>

TRAIN_DEST(code) == <<"TRAIN_DEST", code>>
DISPLAY_CTRL(n) == <<"DISPLAY_CTRL", n>>
SET_LED(ls) == <<"SET_LED", ls>>

Init ==
  /\ CongestionInit
  /\ Panel!Init /\ congestion_status = [c \in Cameras |-> 0]
  /\ mailbox = <<>> /\ faults = 0 /\ loop = "uart"
  /\ subway = "sleep" /\ active = FALSE /\ event_armed = TRUE
  /\ slept = Poll /\ held = 0
  /\ arrived = 0

-----------------------------------------------------------------------------
\* A frame of the Pi gets through to the mailbox.
Faults(n) == IF faults + n > 2 THEN 2 ELSE faults + n

Send(frame) ==
  /\ mailbox' = frame
  /\ faults' = Faults((IF mailbox # <<>> /\ mailbox[1] # "SET_LED" THEN 1 ELSE 0)
                      + (IF frame = TRAIN_DEST(0) THEN 1 ELSE 0))

(* DisplayCallback::message_arrived with levels. *)
LevelsArrive ==
  /\ topic # <<>> /\ arrived < PerUnit /\ topic' = Tail(topic)
  /\ Send(SET_LED(Head(topic)))
  /\ arrived' = arrived + 1
  /\ UNCHANGED <<people, objects, watching, levels, publishing, subscribed, changes,
                 panelVars, subwayVars, loop>>

(* run_subway_arrival_override_loop. *)
RestoreDue_Early == active /\ held < Hold
RestoreDue == active /\ held >= Hold

Wake ==
  /\ subway = "sleep" /\ slept = Poll
  /\ subway' = "fetch"
  /\ IF RestoreDue
       THEN Send(DISPLAY_CTRL(0)) /\ active' = FALSE
       ELSE UNCHANGED <<linkVars, active>>
  /\ UNCHANGED <<congestionVars, panelVars, loop, arrived, event_armed, slept, held>>

Sleep == subway' = "sleep" /\ slept' = 0

\* The fetch fails, or the next train is still away, or it is here.
FetchedNothing ==
  /\ subway = "fetch" /\ Sleep
  /\ UNCHANGED <<congestionVars, panelVars, linkVars, loop, arrived, active, event_armed,
                 held>>

FetchedAway ==
  /\ subway = "fetch" /\ Sleep
  /\ event_armed' = (event_armed \/ ~active)
  /\ UNCHANGED <<congestionVars, panelVars, linkVars, loop, arrived, active, held>>

FetchedHere(code) ==
  /\ subway = "fetch" /\ ~active /\ event_armed
  /\ Send(TRAIN_DEST(code)) /\ subway' = "screen"
  /\ UNCHANGED <<congestionVars, panelVars, loop, arrived, active, event_armed, slept, held>>

EventScreen ==
  /\ subway = "screen" /\ Sleep
  /\ Send(DISPLAY_CTRL(4))
  /\ active' = TRUE /\ event_armed' = FALSE /\ held' = 0
  /\ UNCHANGED <<congestionVars, panelVars, loop, arrived>>

-----------------------------------------------------------------------------
(* UART_Handler_Process. *)
Handle ==
  /\ loop = "uart" /\ loop' = "matrix"
  /\ mailbox' = <<>>
  /\ IF mailbox = <<>> THEN UNCHANGED panelVars
     ELSE \/ mailbox[1] = "SET_LED" /\ Panel!SetCongestionBulk(mailbox[2])
          \/ mailbox[1] = "TRAIN_DEST" /\ Panel!SetTrainDest(mailbox[2])
          \/ mailbox[1] = "DISPLAY_CTRL" /\ Panel!DisplayCtrl(mailbox[2])
  /\ UNCHANGED <<congestionVars, subwayVars, faults, arrived>>

(* AppTask_Run, and round again. *)
Show ==
  /\ loop = "matrix" /\ loop' = "uart"
  /\ Panel!Run
  /\ UNCHANGED <<congestionVars, subwayVars, linkVars, arrived>>

(* Time passes when nothing quick is under way. *)
Tick ==
  /\ mailbox = <<>> /\ loop = "uart" /\ subway # "screen"
  /\ arrived > 0 \/ ~publishing \/ ~subscribed
  /\ Panel!Tick
  /\ slept' = (IF slept < Poll THEN slept + 1 ELSE slept)
  /\ held' = (IF held < Hold THEN held + 1 ELSE held)
  /\ arrived' = 0
  /\ UNCHANGED <<congestionVars, linkVars, loop, subway, active, event_armed>>

Subway ==
  \/ Wake \/ FetchedNothing \/ FetchedAway \/ EventScreen
  \/ \E code \in Codes : FetchedHere(code)

Next ==
  \/ CongestionNext /\ UNCHANGED <<panelVars, subwayVars, linkVars, loop, arrived>>
  \/ LevelsArrive \/ Subway \/ Handle \/ Show \/ Tick

Others == <<panelVars, subwayVars, linkVars, loop, arrived>>

(* Every thread goes on, a camera that is connected reports, and time never stops. *)
Spec ==
  /\ Init /\ [][Next]_vars
  /\ \A c \in Cameras : WF_vars(Report(c) /\ UNCHANGED Others)
  /\ WF_vars(Analyze /\ UNCHANGED Others)
  /\ WF_vars(Publish /\ UNCHANGED Others)
  /\ WF_vars(LevelsArrive) /\ WF_vars(Subway) /\ WF_vars(Handle \/ Show) /\ SF_vars(Tick)

-----------------------------------------------------------------------------
(* What can keep the panel from the truth for ever is one of four things: the   *)
(* publisher has ended, the display client's connection broke once (it comes    *)
(* back without its subscription), a camera's connection broke once (its last   *)
(* objects stay), or the last person has left the Hanwha camera's picture.      *)
(* Nothing else does: without them the panel comes to know what the cameras see *)
(* once that stays the same, although frames are lost in the mailbox, levels    *)
(* are computed from two moments, and trains take the panel in between.  And    *)
(* the panel knows of a camera that is connected whatever becomes of the other. *)
Reaches(c) == publishing /\ subscribed /\ c \in watching /\ (c = "hanwha" => people[c] > 0)
CongestionShown ==
  \A c \in Cameras :
    <>[]Reaches(c) => <>[](congestion_status[c] = Level(people[c]))

(* The train screen does not stay.  One subway frame lost in the mailbox, or    *)
(* one train without a destination text, is made good by the panel's own time  *)
(* limit or by the Pi's restore command; it takes two to leave it there.       *)
ScreenComesBack == trainScreen ~> (~trainScreen \/ faults > 1)
=============================================================================
