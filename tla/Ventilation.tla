----------------------------- MODULE Ventilation -----------------------------
(***************************************************************************)
(* Control of the ventilation motor.  Qt clients switch between automatic  *)
(* and manual mode and start or stop the motor; the server keeps its own   *)
(* g_auto_mode and forwards commands over MQTT; on the motor Pi the Paho   *)
(* callback thread applies them while the sensor thread polls the gas      *)
(* values from the STM32 and, in automatic mode, drives the motor.         *)
(*                                                                         *)
(* Each reader thread of the server handles one command at a time in two   *)
(* steps, the change of g_auto_mode and the publication.  On the Pi every  *)
(* test of g_auto_mode and the two hardware writes of motor_write          *)
(* (direction pins, then PWM duty) are steps of their own, since the two   *)
(* threads share no lock.                                                  *)
(***************************************************************************)
EXTENDS Integers, Sequences

CONSTANTS
  Clients,     \* connected Qt clients, one reader thread each
  Gas,         \* values of the STM32's filters: records [co, co2], ppm
  MaxCmds,     \* bound: commands the clients send
  MaxLost,     \* bound: publications that fail
  MaxDevFails  \* bound: writes that find /dev/motor not to open

ASSUME BoundAssumption == MaxCmds \in Nat /\ MaxLost \in Nat /\ MaxDevFails \in Nat

ASSUME GasAssumption == \A g \in Gas : g.co \in Nat /\ g.co2 \in Nat

Writers  == {"sensor", "callback"}
Commands == {"auto", "manual", "start", "stop"}
Idle     == [pc |-> "idle", speed |-> 0]

VARIABLES
  gas,                 \* what the STM32 would answer now
  srvAuto, srv,        \* server: g_auto_mode, command each thread publishes
  srvMqtt,             \* server: g_mqtt_connected, set once at start
  net, subscribed,     \* messages on their way to the Pi; its subscription
  g_auto_mode,         \* on the Pi
  sensor,              \* sensor thread: next step
  last_co, last_co2,   \* hundredths of a ppm, as received
  write,               \* control_motor in progress, per thread
  dir, duty,           \* the motor's direction pin and PWM duty
  cmds, lost, devFails,   \* inputs and failures so far
  overlap,             \* history: two commands were in the server at once
  autoAfter            \* history: automatic writes begun since manual mode

srvVars   == <<srvAuto, srv, srvMqtt, cmds, overlap>>
netVars   == <<net, subscribed, lost>>
readVars  == <<last_co, last_co2>>
motorVars == <<dir, duty>>
vars == <<gas, srvVars, netVars, g_auto_mode, sensor, readVars, write, motorVars, devFails,
          autoAfter>>

Init ==
  /\ gas \in Gas
  /\ srvAuto = TRUE /\ srv = [c \in Clients |-> "idle"] /\ srvMqtt \in BOOLEAN
  /\ net = <<>> /\ subscribed \in BOOLEAN
  /\ g_auto_mode = TRUE /\ sensor = "co"
  /\ last_co = 0 /\ last_co2 = 0
  /\ write = [w \in Writers |-> Idle]
  /\ dir = FALSE /\ duty = 0
  /\ cmds = 0 /\ lost = 0 /\ devFails = 0 /\ overlap = FALSE /\ autoAfter = 0

-----------------------------------------------------------------------------
(* The server (command_handler.cpp, motor.cpp). *)

\* handle_qt_command up to the publication: a mode command sets g_auto_mode,
\* a motor command is dropped in automatic mode.
Handle(c, cmd) ==
  /\ srv[c] = "idle" /\ cmds < MaxCmds
  /\ cmds' = cmds + 1
  /\ \/ cmd \in {"auto", "manual"} /\ srvAuto' = (cmd = "auto")
     \/ cmd \in {"start", "stop"} /\ ~srvAuto /\ UNCHANGED srvAuto
  /\ srv' = [srv EXCEPT ![c] = cmd]
  /\ overlap' = (overlap \/ \E d \in Clients : srv[d] # "idle")
  /\ UNCHANGED <<gas, srvMqtt, netVars, g_auto_mode, sensor, readVars, write, motorVars,
                 devFails, autoAfter>>

\* send_mode_command, send_motor_command.  The topic has one subscriber; a
\* message without it, without a connection or with a failed publication
\* is gone, nothing tries again.
Publish(c) ==
  /\ srv[c] # "idle"
  /\ \/ srvMqtt /\ net' = (IF subscribed THEN Append(net, srv[c]) ELSE net) /\ UNCHANGED lost
     \/ ~srvMqtt /\ UNCHANGED <<net, lost>>
     \/ srvMqtt /\ lost < MaxLost /\ lost' = lost + 1 /\ UNCHANGED net
  /\ srv' = [srv EXCEPT ![c] = "idle"]
  /\ UNCHANGED <<gas, srvAuto, srvMqtt, cmds, overlap, subscribed, g_auto_mode, sensor, readVars,
                 write, motorVars, devFails, autoAfter>>

\* The Pi loses the broker.  The session is clean and init_motor_mqtt
\* subscribes only once: the automatic reconnection does not bring it back.
Disconnect ==
  /\ subscribed
  /\ subscribed' = FALSE /\ net' = <<>>
  /\ UNCHANGED <<gas, srvVars, lost, g_auto_mode, sensor, readVars, write, motorVars, devFails,
                 autoAfter>>

-----------------------------------------------------------------------------
(* The motor Pi (motor.cpp, sensor.cpp, motor_driver.c). *)

\* control_motor.  The speed the callback asked for last stays visible.
Begin(w, speed) == write' = [write EXCEPT ![w] = [pc |-> "dir", speed |-> speed]]
Done(w) == write' = [write EXCEPT ![w] = [pc |-> "idle",
                                          speed |-> IF w = "sensor" THEN 0 ELSE @.speed]]

\* The mode after a message.
ModeAfter_NoAuto(m) == g_auto_mode /\ m # "manual"
ModeAfter(m) == m = "auto" \/ (g_auto_mode /\ m # "manual")

\* handle_mqtt_command: manual mode stops the motor; motor commands count
\* in manual mode only.  No speed in a client's command means 100.
MqttCommand ==
  /\ net # <<>> /\ write["callback"].pc = "idle"
  /\ LET m == Head(net)
     IN  /\ g_auto_mode' = ModeAfter(m)
         /\ autoAfter' = IF m \in {"auto", "manual"} THEN 0 ELSE autoAfter
         /\ IF m = "manual" \/ (m \in {"start", "stop"} /\ ~g_auto_mode)
            THEN Begin("callback", IF m = "start" THEN 100 ELSE 0)
            ELSE UNCHANGED write
  /\ net' = Tail(net)
  /\ UNCHANGED <<gas, srvVars, subscribed, lost, sensor, readVars, motorVars, devFails>>

\* motor_write: direction first; /dev/motor may not open.
WriteDir(w) ==
  /\ write[w].pc = "dir"
  /\ \/ /\ write' = [write EXCEPT ![w].pc = "duty"]
        /\ dir' = (write[w].speed > 0)
        /\ UNCHANGED devFails
     \/ /\ devFails < MaxDevFails /\ devFails' = devFails + 1
        /\ Done(w)
        /\ UNCHANGED dir
  /\ autoAfter' = IF w = "sensor" /\ ~g_auto_mode THEN autoAfter + 1 ELSE autoAfter
  /\ UNCHANGED <<gas, srvVars, netVars, g_auto_mode, sensor, readVars, duty>>

WriteDuty(w) ==
  /\ write[w].pc = "duty"
  /\ duty' = write[w].speed
  /\ Done(w)
  /\ UNCHANGED <<gas, srvVars, netVars, g_auto_mode, sensor, readVars, dir, devFails,
                 autoAfter>>

U16 == 65536
Word == 0 .. U16 - 1

\* The STM32 sends (uint16_t)(ppm * 100).
Encode_Signed(ppm) == ((ppm * 100 + U16 \div 2) % U16) - U16 \div 2
Encode(ppm) == (ppm * 100) % U16

\* send_to_stm32_get_co and _get_co2: without a good answer within 300 ms
\* the last value stands.
GetCo(ok) ==
  /\ sensor = "co"
  /\ sensor' = "co2"
  /\ last_co' = IF ok THEN Encode(gas.co) ELSE last_co
  /\ UNCHANGED <<gas, srvVars, netVars, g_auto_mode, last_co2, write, motorVars, devFails,
                 autoAfter>>

GetCo2(ok) ==
  /\ sensor = "co2"
  /\ sensor' = "check"
  /\ last_co2' = IF ok THEN Encode(gas.co2) ELSE last_co2
  /\ UNCHANGED <<gas, srvVars, netVars, g_auto_mode, last_co, write, motorVars, devFails,
                 autoAfter>>

\* The speed for two received values.
Speed_WarningFirst(co, co2) ==
  IF co2 > 40000 \/ co > 900 THEN 60 ELSE IF co2 > 60000 \/ co > 2500 THEN 100 ELSE 0
Speed(co, co2) ==
  IF co2 > 60000 \/ co > 2500 THEN 100 ELSE IF co2 > 40000 \/ co > 900 THEN 60 ELSE 0

\* "if (g_auto_mode)" in receive_sensor_data and in auto_motor_control.
AutoAllowed_Dropped == TRUE
AutoAllowed == g_auto_mode

CheckMode ==
  /\ sensor \in {"check", "recheck"}
  /\ \/ ~AutoAllowed /\ sensor' = "co" /\ UNCHANGED write
     \/ AutoAllowed /\ sensor = "check" /\ sensor' = "recheck" /\ UNCHANGED write
     \/ /\ AutoAllowed /\ sensor = "recheck" /\ sensor' = "write"
        /\ Begin("sensor", Speed(last_co, last_co2))
  /\ UNCHANGED <<gas, srvVars, netVars, g_auto_mode, readVars, motorVars, devFails, autoAfter>>

\* Back in the loop after control_motor.
Written ==
  /\ sensor = "write" /\ write["sensor"].pc = "idle"
  /\ sensor' = "co"
  /\ UNCHANGED <<gas, srvVars, netVars, g_auto_mode, readVars, write, motorVars, devFails,
                 autoAfter>>

GasChanges ==
  /\ gas' \in Gas
  /\ UNCHANGED <<srvVars, netVars, g_auto_mode, sensor, readVars, write, motorVars, devFails,
                 autoAfter>>

-----------------------------------------------------------------------------
Sensor == (\E ok \in BOOLEAN : GetCo(ok) \/ GetCo2(ok)) \/ CheckMode \/ Written

Next ==
  \/ \E c \in Clients : Publish(c) \/ \E cmd \in Commands : Handle(c, cmd)
  \/ Disconnect \/ MqttCommand
  \/ \E w \in Writers : WriteDir(w) \/ WriteDuty(w)
  \/ Sensor \/ GasChanges

Spec == Init /\ [][Next]_vars

(* Threads run, messages arrive while the subscription lasts, and the STM32 *)
(* answers again and again even if some requests time out.                  *)
FairSpec ==
  /\ Spec
  /\ WF_vars(Sensor) /\ WF_vars(MqttCommand)
  /\ SF_vars(GetCo(TRUE)) /\ SF_vars(GetCo2(TRUE))
  /\ \A c \in Clients : WF_vars(Publish(c))
  /\ \A w \in Writers : WF_vars(WriteDir(w)) /\ WF_vars(WriteDuty(w))

-----------------------------------------------------------------------------
ServerType ==
  /\ srvAuto \in BOOLEAN /\ srvMqtt \in BOOLEAN /\ overlap \in BOOLEAN
  /\ srv \in [Clients -> Commands \cup {"idle"}] /\ cmds \in 0 .. MaxCmds

NetType == net \in Seq(Commands) /\ subscribed \in BOOLEAN /\ lost \in 0 .. MaxLost

ReadType == gas \in Gas /\ last_co \in Word /\ last_co2 \in Word

WriteState == [pc : {"idle", "dir", "duty"}, speed : {0, 60, 100}]

PiType ==
  /\ g_auto_mode \in BOOLEAN /\ dir \in BOOLEAN /\ duty \in {0, 60, 100}
  /\ sensor \in {"co", "co2", "check", "recheck", "write"}
  /\ write \in [Writers -> WriteState]
  /\ devFails \in 0 .. MaxDevFails /\ autoAfter \in Nat

(* Type invariant: what the Pi believes to be the gas values fits the two   *)
(* bytes of the frame, the duty is one of the speeds the code asks for.     *)
TypeOK == ServerType /\ NetType /\ ReadType /\ PiType

(* What the motor does: turns at the duty if the direction pin is set. *)
Output == IF dir THEN duty ELSE 0

(* The mode is tested without a lock, so a decision taken in automatic mode *)
(* may reach the motor after the switch to manual - but only one: the       *)
(* sensor thread cannot fight the operator for longer than that.            *)
OneStaleWrite ==
  ~g_auto_mode => autoAfter <= 1

(* A message still on its way, or not yet handled. *)
InFlight == net # <<>> \/ \E c \in Clients : srv[c] # "idle"

(* Two copies of one mode, on two machines: once everything in flight has   *)
(* been handled they are equal, unless a message was lost, the Pi is no     *)
(* longer subscribed or two clients' commands crossed inside the server.    *)
ModesAgree ==
  ~InFlight /\ srvMqtt /\ subscribed /\ lost = 0 /\ ~overlap => g_auto_mode = srvAuto

(* Speed the documented limits ask for, in ppm. *)
Required(g) ==
  CASE g.co2 > 600 \/ g.co > 25 -> 100
    [] g.co2 <= 600 /\ g.co <= 25 /\ (g.co2 > 400 \/ g.co > 9) -> 60
    [] OTHER -> 0

Settles(g) == <>[](g_auto_mode /\ gas = g) => <>[](Output = Required(g))

(* In automatic mode the motor ends up at the speed the gas values ask for, *)
(* whatever commands, torn writes, timeouts and device errors came before - *)
(* for values that the two bytes of the frame can hold (below 655.36 ppm).  *)
AutoSettles ==
  \A g \in Gas : g.co < 655 /\ g.co2 < 655 => Settles(g)

(* The documented rule without that restriction (drivers/README.md:18,      *)
(* motor.cpp:54): more than 600 ppm of CO2 means 100%.                      *)
DangerVentilated ==
  \A g \in Gas : Settles(g)

(* Nobody is about to write the motor. *)
Settled == \A w \in Writers : write[w].pc = "idle"

(* In manual mode the sensor thread leaves the motor alone (motor.cpp:55),  *)
(* so it turns as the last command from MQTT says (drivers/README.md:19).   *)
ManualObeyed ==
  ~g_auto_mode /\ Settled => Output = write["callback"].speed
=============================================================================
