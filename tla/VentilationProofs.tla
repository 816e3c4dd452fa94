-------------------------- MODULE VentilationProofs --------------------------
(***************************************************************************)
(* For any number of clients, commands, failures and any gas values: the   *)
(* values the motor Pi works with are typed, and the switch to manual mode *)
(* is followed by at most one automatic write.                             *)
(***************************************************************************)
EXTENDS Ventilation, TLAPS

(* OneStaleWrite is not inductive: a sensor thread that has decided must be  *)
(* known to have its one write still ahead of it.  Deciding needs automatic  *)
(* mode, so no second decision can be pending.                               *)
OneDecision ==
  /\ write["sensor"].pc # "idle" => sensor = "write"
  /\ g_auto_mode => autoAfter = 0
  /\ write["sensor"].pc = "dir" => autoAfter = 0
  /\ autoAfter <= 1

IInv == TypeOK /\ OneDecision

(* Beginning and ending a write of the motor keeps the writers' types and    *)
(* does not touch the other thread's.                                        *)
LEMMA BeginDone ==
  ASSUME write \in [Writers -> WriteState], NEW w \in Writers
  PROVE  /\ \A speed \in {0, 60, 100} : Begin(w, speed) =>
               /\ write' \in [Writers -> WriteState] /\ write'[w].pc = "dir"
               /\ \A v \in Writers \ {w} : write'[v] = write[v]
         /\ Done(w) =>
               /\ write' \in [Writers -> WriteState] /\ write'[w].pc = "idle"
               /\ \A v \in Writers \ {w} : write'[v] = write[v]
<1>1. ASSUME NEW speed \in {0, 60, 100}, Begin(w, speed)
      PROVE  /\ write' \in [Writers -> WriteState] /\ write'[w].pc = "dir"
             /\ \A v \in Writers \ {w} : write'[v] = write[v]
  BY <1>1 DEF Begin, WriteState
<1>2. ASSUME Done(w)
      PROVE  /\ write' \in [Writers -> WriteState] /\ write'[w].pc = "idle"
             /\ \A v \in Writers \ {w} : write'[v] = write[v]
  <2>1. write[w].speed \in {0, 60, 100}
    BY DEF WriteState
  <2>2. QED
    BY <1>2, <2>1 DEF Done, WriteState
<1>3. QED
  BY <1>1, <1>2

(* The two bytes of a sensor answer hold 0 .. 65535. *)
LEMMA EncodeType == ASSUME NEW ppm \in Nat PROVE Encode(ppm) \in Word
BY DEF Encode, Word, U16

(* The automatic speeds are the three of the table. *)
LEMMA SpeedType == ASSUME NEW co, NEW co2 PROVE Speed(co, co2) \in {0, 60, 100}
BY DEF Speed

(* The initial states satisfy the inductive invariant. *)
LEMMA InitIInv == Init => IInv
<1> SUFFICES ASSUME Init PROVE IInv
    OBVIOUS
<1> USE DEF Init
<1>b. /\ srvAuto \in BOOLEAN /\ srvMqtt \in BOOLEAN /\ overlap \in BOOLEAN
      /\ subscribed \in BOOLEAN /\ g_auto_mode \in BOOLEAN /\ dir \in BOOLEAN
  BY Zenon
<1>c. cmds \in 0 .. MaxCmds /\ lost \in 0 .. MaxLost /\ devFails \in 0 .. MaxDevFails
  BY BoundAssumption
<1>d. srv \in [Clients -> Commands \cup {"idle"}]
  OBVIOUS
<1>1. ServerType
  BY <1>b, <1>c, <1>d, Zenon DEF ServerType
<1>2. NetType /\ ReadType
  <2>1. net \in Seq(Commands) /\ last_co \in Word /\ last_co2 \in Word
    BY DEF Word, U16
  <2>2. QED
    BY <1>b, <1>c, <2>1, Zenon DEF NetType, ReadType
<1>3. PiType
  <2>1. write \in [Writers -> WriteState]
    BY DEF Idle, WriteState
  <2>2. duty \in {0, 60, 100} /\ autoAfter \in Nat
    OBVIOUS
  <2>3. sensor \in {"co", "co2", "check", "recheck", "write"}
    OBVIOUS
  <2>4. QED
    BY <1>b, <1>c, <2>1, <2>2, <2>3, Zenon DEF PiType
<1>4. OneDecision
  BY DEF OneDecision, Idle, Writers
<1>5. QED
  BY <1>1, <1>2, <1>3, <1>4 DEF IInv, TypeOK

(* Every step keeps it. *)
LEMMA NextIInv == IInv /\ [Next]_vars => IInv'
<1> SUFFICES ASSUME IInv, [Next]_vars PROVE IInv'
    OBVIOUS
<1> USE DEF IInv, TypeOK
<1>a. write \in [Writers -> WriteState] /\ "sensor" \in Writers /\ "callback" \in Writers
  BY DEF PiType, Writers
<1>s. UNCHANGED srvVars => ServerType'
  BY DEF srvVars, ServerType
<1>n. UNCHANGED netVars => NetType'
  BY DEF netVars, NetType
<1>r. UNCHANGED <<gas, readVars>> => ReadType'
  BY DEF readVars, ReadType
<1>p. UNCHANGED <<g_auto_mode, sensor, write, motorVars, devFails, autoAfter>>
        => PiType' /\ OneDecision'
  BY DEF motorVars, PiType, OneDecision
<1>1. ASSUME NEW c \in Clients, NEW cmd \in Commands, Handle(c, cmd) PROVE IInv'
  <2>1. /\ UNCHANGED <<gas, srvMqtt, netVars, readVars>>
        /\ UNCHANGED <<g_auto_mode, sensor, write, motorVars, devFails, autoAfter>>
    BY <1>1 DEF Handle
  <2>2. overlap' \in BOOLEAN
    BY <1>1 DEF Handle
  <2>3. srvAuto' \in BOOLEAN
    BY <1>1, Zenon DEF Handle, ServerType
  <2>4. srv' \in [Clients -> Commands \cup {"idle"}] /\ cmds' \in 0 .. MaxCmds
    <3>1. srv' = [srv EXCEPT ![c] = cmd] /\ cmds < MaxCmds /\ cmds' = cmds + 1
      BY <1>1, Zenon DEF Handle
    <3>2. QED
      BY <3>1, BoundAssumption DEF ServerType
  <2>5. ServerType'
    BY <2>1, <2>2, <2>3, <2>4 DEF ServerType
  <2>6. QED
    BY <2>1, <2>5, <1>n, <1>r, <1>p
<1>2. ASSUME NEW c \in Clients, Publish(c) PROVE IInv'
  <2>1. /\ UNCHANGED <<gas, readVars>> /\ UNCHANGED <<srvAuto, srvMqtt, cmds, overlap>>
        /\ UNCHANGED <<g_auto_mode, sensor, write, motorVars, devFails, autoAfter>>
    BY <1>2 DEF Publish
  <2>2. srv[c] \in Commands
    BY <1>2 DEF Publish, ServerType
  <2>3. NetType'
    <3>1. net' = Append(net, srv[c]) \/ net' = net
      BY <1>2, Zenon DEF Publish
    <3>2. net' \in Seq(Commands)
      BY <2>2, <3>1 DEF NetType
    <3>3. lost' = lost \/ (lost < MaxLost /\ lost' = lost + 1)
      BY <1>2, Zenon DEF Publish
    <3>4. lost' \in 0 .. MaxLost
      BY <3>3, BoundAssumption DEF NetType
    <3>5. QED
      BY <1>2, <3>2, <3>4, Zenon DEF Publish, NetType
  <2>4. srv' \in [Clients -> Commands \cup {"idle"}]
    BY <1>2 DEF Publish, ServerType
  <2>5. ServerType'
    BY <2>1, <2>4 DEF ServerType
  <2>6. QED
    BY <2>1, <2>3, <2>5, <1>r, <1>p
<1>3. CASE Disconnect
  <2>1. NetType'
    <3>1. net' \in Seq(Commands)
      BY <1>3 DEF Disconnect
    <3>2. QED
      BY <1>3, <3>1, Zenon DEF Disconnect, NetType
  <2>2. QED
    BY <1>3, <2>1, <1>s, <1>r, <1>p DEF Disconnect
<1>4. CASE MqttCommand
  <2> DEFINE m == Head(net)
  <2>1. m \in Commands /\ Tail(net) \in Seq(Commands)
    BY <1>4 DEF MqttCommand, NetType
  <2>2. NetType'
    BY <1>4, <2>1 DEF MqttCommand, NetType
  <2>3. /\ write' \in [Writers -> WriteState]
        /\ write'["sensor"] = write["sensor"]
    <3>1. CASE UNCHANGED write
      BY <3>1, <1>a
    <3>2. ASSUME NEW speed \in {0, 100}, Begin("callback", speed)
          PROVE  write' \in [Writers -> WriteState] /\ write'["sensor"] = write["sensor"]
      BY <3>2, <1>a, BeginDone DEF Writers
    <3>3. UNCHANGED write \/ \E speed \in {0, 100} : Begin("callback", speed)
      BY <1>4 DEF MqttCommand
    <3>4. QED
      BY <3>1, <3>2, <3>3
  <2>4. /\ g_auto_mode' = ModeAfter(m)
        /\ autoAfter' = (IF m \in {"auto", "manual"} THEN 0 ELSE autoAfter)
        /\ UNCHANGED <<sensor, dir, duty, devFails>>
    BY <1>4 DEF MqttCommand, motorVars
  <2>5. g_auto_mode' \in BOOLEAN /\ autoAfter' \in Nat
    BY <2>4 DEF ModeAfter, PiType
  <2>6. PiType'
    BY <2>3, <2>4, <2>5 DEF PiType
  <2>7. OneDecision'
    <3>1. CASE m \in {"auto", "manual"}
      BY <2>3, <2>4, <3>1 DEF OneDecision
    <3>2. CASE m \notin {"auto", "manual"}
      <4>1. g_auto_mode' = g_auto_mode
        BY <2>4, <3>2 DEF ModeAfter, PiType
      <4>2. QED
        BY <2>3, <2>4, <3>2, <4>1 DEF OneDecision
    <3>3. QED
      BY <3>1, <3>2
  <2>8. QED
    BY <1>4, <2>2, <2>6, <2>7, <1>s, <1>r DEF MqttCommand
<1>5. ASSUME NEW w \in Writers, WriteDir(w) PROVE IInv'
  <2>1. /\ UNCHANGED <<gas, srvVars, netVars, readVars>>
        /\ UNCHANGED <<g_auto_mode, sensor, duty>>
    BY <1>5 DEF WriteDir
  <2>2. /\ write' \in [Writers -> WriteState] /\ write'[w].pc \in {"idle", "duty"}
        /\ \A v \in Writers \ {w} : write'[v] = write[v]
    <3>1. CASE Done(w)
      BY <3>1, <1>a, BeginDone
    <3>2. CASE write' = [write EXCEPT ![w].pc = "duty"]
      <4>1. [write[w] EXCEPT !.pc = "duty"] \in WriteState
        BY <1>a DEF WriteState
      <4>2. QED
        BY <3>2, <4>1, <1>a
    <3>3. QED
      BY <1>5, <3>1, <3>2 DEF WriteDir
  <2>3. dir' \in BOOLEAN /\ devFails' \in 0 .. MaxDevFails
    <3>1. dir' \in BOOLEAN
      <4>1. dir' = (write[w].speed > 0) \/ dir' = dir
        BY <1>5, Zenon DEF WriteDir
      <4>2. (write[w].speed > 0) \in BOOLEAN
        OBVIOUS
      <4>3. QED
        BY <4>1, <4>2, Zenon DEF PiType
    <3>2. devFails' = devFails \/ (devFails < MaxDevFails /\ devFails' = devFails + 1)
      BY <1>5, Zenon DEF WriteDir
    <3>3. QED
      BY <3>1, <3>2, BoundAssumption DEF PiType
  <2>4. autoAfter' = (IF w = "sensor" /\ ~g_auto_mode THEN autoAfter + 1 ELSE autoAfter)
    BY <1>5 DEF WriteDir
  <2>5. PiType'
    BY <2>1, <2>2, <2>3, <2>4 DEF PiType
  <2>6. write[w].pc = "dir"
    BY <1>5 DEF WriteDir
  <2>7. ASSUME w = "sensor" PROVE OneDecision'
    BY <2>1, <2>2, <2>4, <2>6, <2>7 DEF OneDecision, PiType
  <2>8. ASSUME w = "callback" PROVE OneDecision'
    BY <1>a, <2>1, <2>2, <2>4, <2>8 DEF OneDecision
  <2>9. OneDecision'
    BY <2>7, <2>8 DEF Writers
  <2>10. QED
    BY <2>1, <2>5, <2>9, <1>s, <1>n, <1>r
<1>6. ASSUME NEW w \in Writers, WriteDuty(w) PROVE IInv'
  <2>1. /\ UNCHANGED <<gas, srvVars, netVars, readVars>>
        /\ UNCHANGED <<g_auto_mode, sensor, dir, devFails, autoAfter>>
    BY <1>6 DEF WriteDuty
  <2>2. /\ write' \in [Writers -> WriteState] /\ write'[w].pc = "idle"
        /\ \A v \in Writers \ {w} : write'[v] = write[v]
    BY <1>6, <1>a, BeginDone DEF WriteDuty
  <2>3. duty' \in {0, 60, 100}
    BY <1>6, <1>a DEF WriteDuty, WriteState
  <2>4. PiType'
    BY <2>1, <2>2, <2>3 DEF PiType
  <2>5. ASSUME w = "sensor" PROVE OneDecision'
    BY <2>1, <2>2, <2>5 DEF OneDecision
  <2>6. ASSUME w = "callback" PROVE OneDecision'
    BY <1>a, <2>1, <2>2, <2>6 DEF OneDecision
  <2>7. OneDecision'
    BY <2>5, <2>6 DEF Writers
  <2>8. QED
    BY <2>1, <2>4, <2>7, <1>s, <1>n, <1>r
<1>7. ASSUME NEW ok \in BOOLEAN, GetCo(ok) \/ GetCo2(ok) PROVE IInv'
  <2>1. Encode(gas.co) \in Word /\ Encode(gas.co2) \in Word
    BY EncodeType, GasAssumption DEF ReadType
  <2>2. /\ UNCHANGED <<srvVars, netVars>>
        /\ UNCHANGED <<gas, g_auto_mode, write, motorVars, devFails, autoAfter>>
    BY <1>7 DEF GetCo, GetCo2
  <2>3. sensor' \in {"co2", "check"} /\ sensor # "write"
    BY <1>7 DEF GetCo, GetCo2
  <2>4. ReadType'
    BY <1>7, <2>1, <2>2 DEF GetCo, GetCo2, ReadType
  <2>5. PiType'
    BY <2>2, <2>3 DEF PiType, motorVars
  <2>6. OneDecision'
    BY <2>2, <2>3 DEF OneDecision
  <2>7. QED
    BY <2>2, <2>4, <2>5, <2>6, <1>s, <1>n
<1>8. CASE CheckMode
  <2>1. /\ UNCHANGED <<gas, srvVars, netVars, readVars>>
        /\ UNCHANGED <<g_auto_mode, motorVars, devFails, autoAfter>>
    BY <1>8 DEF CheckMode
  <2>2. CASE UNCHANGED write
    <3>1. sensor' \in {"co", "recheck", "write"} /\ (sensor = "write" => sensor' = "write")
      BY <1>8 DEF CheckMode
    <3>2. PiType' /\ OneDecision'
      BY <2>1, <2>2, <3>1 DEF PiType, OneDecision, motorVars
    <3>3. QED
      BY <2>1, <3>2, <1>s, <1>n, <1>r
  <2>3. CASE g_auto_mode /\ sensor' = "write" /\ Begin("sensor", Speed(last_co, last_co2))
    <3>1. write' \in [Writers -> WriteState]
      BY <1>a, <2>3, SpeedType, BeginDone
    <3>2. PiType' /\ OneDecision'
      BY <2>1, <2>3, <3>1 DEF PiType, OneDecision, motorVars
    <3>3. QED
      BY <2>1, <3>2, <1>s, <1>n, <1>r
  <2>4. QED
    BY <1>8, <2>2, <2>3 DEF CheckMode, AutoAllowed
<1>9. CASE Written
  <2>1. PiType' /\ OneDecision'
    BY <1>9 DEF Written, PiType, OneDecision, motorVars
  <2>2. QED
    BY <1>9, <2>1, <1>s, <1>n, <1>r DEF Written
<1>10. CASE GasChanges
  <2>1. ReadType'
    BY <1>10 DEF GasChanges, ReadType, readVars
  <2>2. QED
    BY <1>10, <2>1, <1>s, <1>n, <1>p DEF GasChanges
<1>11. CASE UNCHANGED vars
  BY <1>11, <1>s, <1>n, <1>r, <1>p DEF vars
<1>12. QED
  BY <1>1, <1>2, <1>3, <1>4, <1>5, <1>6, <1>7, <1>8, <1>9, <1>10, <1>11 DEF Next, Sensor

(* TypeOK holds in every reachable state: what the STM32 sends fits two      *)
(* bytes on arrival and the duty is always one of 0, 60 and 100.             *)
THEOREM TypeCorrect == Spec => []TypeOK
<1>1. IInv => TypeOK
  BY DEF IInv
<1>2. QED
  BY InitIInv, NextIInv, <1>1, PTL DEF Spec

(* After the switch to manual mode the sensor thread begins at most one more *)
(* write of the motor, however the three threads interleave.                 *)
THEOREM StaleWriteBound == Spec => []OneStaleWrite
<1>1. IInv => OneStaleWrite
  BY DEF IInv, OneDecision, OneStaleWrite
<1>2. QED
  BY InitIInv, NextIInv, <1>1, PTL DEF Spec

-----------------------------------------------------------------------------
(* ModesAgree speaks of the end of an exchange.  During it, the server's mode *)
(* is what the Pi's will be when the last mode message under way has arrived, *)
(* and one that waits to be published is the server's own.                    *)
Modes == {"auto", "manual"}

Undisturbed == srvMqtt /\ subscribed /\ lost = 0 /\ ~overlap

LastMode(i) ==
  net[i] \in Modes /\ \A j \in 1 .. Len(net) : j > i => net[j] \notin Modes

Arriving ==
  /\ (\A i \in 1 .. Len(net) : net[i] \notin Modes) => g_auto_mode = srvAuto
  /\ \A i \in 1 .. Len(net) : LastMode(i) => srvAuto = (net[i] = "auto")

OneInHand == \A c, d \in Clients : srv[c] # "idle" /\ srv[d] # "idle" => c = d
OwnMode == \A c \in Clients : srv[c] \in Modes => srvAuto = (srv[c] = "auto")
NoneInHand == \A c \in Clients : srv[c] \notin Modes

ModeInv == Undisturbed => OneInHand /\ OwnMode /\ (NoneInHand => Arriving)

(* Both start in automatic mode. *)
LEMMA InitModes == Init => ModeInv
<1> SUFFICES ASSUME Init PROVE OneInHand /\ OwnMode /\ Arriving
  BY DEF ModeInv
<1>1. OneInHand /\ OwnMode
  BY DEF Init, OneInHand, OwnMode, Modes
<1>2. Len(net) = 0 /\ g_auto_mode = srvAuto
  BY DEF Init
<1>3. Arriving
  BY <1>2 DEF Arriving
<1> QED BY <1>1, <1>3

(* A command enters an empty server, or spoils the exchange. *)
LEMMA HandleModes ==
  ASSUME IInv, ModeInv, NEW c \in Clients, NEW cmd \in Commands, Handle(c, cmd)
  PROVE  ModeInv'
<1> SUFFICES ASSUME Undisturbed' PROVE (OneInHand /\ OwnMode /\ (NoneInHand => Arriving))'
  BY DEF ModeInv
<1>1. /\ UNCHANGED <<net, g_auto_mode>>
      /\ srv' = [srv EXCEPT ![c] = cmd] /\ srv \in [Clients -> Commands \cup {"idle"}]
  BY DEF Handle, netVars, IInv, TypeOK, ServerType
<1>2. \A d \in Clients : srv[d] = "idle"
  BY DEF Handle, Undisturbed
<1>3. Undisturbed
  BY DEF Handle, netVars, Undisturbed
<1>4. srv'[c] = cmd /\ \A d \in Clients \ {c} : srv'[d] = "idle"
  BY <1>1, <1>2
<1>5. OneInHand'
  BY <1>4 DEF OneInHand
<1>6. CASE cmd \in Modes
  <2>1. srvAuto' = (cmd = "auto")
    BY <1>6 DEF Handle, Modes
  <2>2. OwnMode' /\ ~NoneInHand'
    BY <1>4, <1>6, <2>1 DEF OwnMode, NoneInHand, Modes
  <2> QED BY <1>5, <2>2
<1>7. CASE cmd \notin Modes
  <2>1. srvAuto' = srvAuto
    BY <1>7 DEF Handle, Modes
  <2>2. Arriving
    BY <1>2, <1>3 DEF ModeInv, NoneInHand, Modes
  <2>3. Arriving'
    BY <1>1, <2>1, <2>2 DEF Arriving, LastMode
  <2>4. OwnMode'
    BY <1>4, <1>7 DEF OwnMode, Modes
  <2> QED BY <1>5, <2>3, <2>4
<1> QED BY <1>6, <1>7

(* A message under way is the last one; if it is a mode, it is the server's. *)
LEMMA PublishModes ==
  ASSUME IInv, ModeInv, NEW c \in Clients, Publish(c)
  PROVE  ModeInv'
<1> SUFFICES ASSUME Undisturbed' PROVE (OneInHand /\ OwnMode /\ (NoneInHand => Arriving))'
  BY DEF ModeInv
<1>1. /\ UNCHANGED <<srvAuto, g_auto_mode, srvMqtt, subscribed, overlap>>
      /\ srv' = [srv EXCEPT ![c] = "idle"] /\ srv \in [Clients -> Commands \cup {"idle"}]
      /\ srv[c] # "idle"
  BY DEF Publish, IInv, TypeOK, ServerType
<1>2. Undisturbed /\ net' = Append(net, srv[c])
  <2>1. lost \in Nat /\ lost' = 0 /\ srvMqtt /\ subscribed
    BY <1>1 DEF Undisturbed, IInv, TypeOK, NetType
  <2>2. lost' # lost + 1
    BY <2>1
  <2>3. net' = Append(net, srv[c]) /\ lost' = lost
    BY <2>1, <2>2 DEF Publish
  <2> QED BY <1>1, <2>1, <2>3 DEF Undisturbed
<1>3. /\ OneInHand /\ OwnMode /\ (NoneInHand => Arriving)
  BY <1>2 DEF ModeInv
<1>4. \A d \in Clients : srv'[d] = "idle" /\ (d # c => srv[d] = "idle")
  BY <1>1, <1>3 DEF OneInHand
<1>5. OneInHand' /\ OwnMode'
  BY <1>4 DEF OneInHand, OwnMode, Modes
<1>6. /\ Len(net') = Len(net) + 1 /\ Len(net) \in Nat /\ net'[Len(net) + 1] = srv[c]
      /\ \A i \in 1 .. Len(net) : net'[i] = net[i]
  BY <1>2, <1>1 DEF IInv, TypeOK, NetType
<1>7. CASE srv[c] \in Modes
  <2>1. srvAuto = (srv[c] = "auto")
    BY <1>3, <1>7 DEF OwnMode
  <2>2. \A i \in 1 .. Len(net') : LastMode(i)' => i = Len(net) + 1
    BY <1>6, <1>7 DEF LastMode
  <2>3. ~(\A i \in 1 .. Len(net') : net'[i] \notin Modes)
    BY <1>6, <1>7
  <2>4. Arriving'
    BY <1>1, <1>6, <2>1, <2>2, <2>3 DEF Arriving
  <2> QED BY <1>5, <2>4
<1>8. CASE srv[c] \notin Modes
  <2>1. Arriving
    BY <1>3, <1>4, <1>8 DEF NoneInHand, Modes
  <2>2. ASSUME \A i \in 1 .. Len(net') : net'[i] \notin Modes PROVE g_auto_mode' = srvAuto'
    <3>1. \A i \in 1 .. Len(net) : net[i] \notin Modes
      BY <1>6, <2>2
    <3> QED BY <1>1, <2>1, <3>1 DEF Arriving
  <2>3. ASSUME NEW i \in 1 .. Len(net'), LastMode(i)' PROVE srvAuto' = (net'[i] = "auto")
    <3>1. i \in 1 .. Len(net) /\ LastMode(i) /\ net'[i] = net[i]
      BY <1>6, <1>8, <2>3 DEF LastMode
    <3> QED BY <1>1, <2>1, <3>1 DEF Arriving
  <2>4. Arriving'
    BY <2>2, <2>3 DEF Arriving
  <2> QED BY <1>5, <2>4
<1> QED BY <1>7, <1>8

(* What the Pi takes was the first message: either it was the last mode, and  *)
(* the Pi now has it, or that one is still under way.                         *)
LEMMA CommandModes ==
  ASSUME IInv, ModeInv, MqttCommand
  PROVE  ModeInv'
<1> SUFFICES ASSUME Undisturbed' PROVE (OneInHand /\ OwnMode /\ (NoneInHand => Arriving))'
  BY DEF ModeInv
<1>1. /\ UNCHANGED <<srvAuto, srv, srvMqtt, subscribed, lost, overlap>>
      /\ net # <<>> /\ net' = Tail(net) /\ g_auto_mode' = ModeAfter(net[1])
  BY DEF MqttCommand, srvVars, IInv, TypeOK, NetType
<1>2. OneInHand /\ OwnMode /\ (NoneInHand => Arriving)
  BY <1>1 DEF ModeInv, Undisturbed
<1>3. OneInHand' /\ OwnMode'
  BY <1>1, <1>2 DEF OneInHand, OwnMode
<1>4. /\ Len(net) \in Nat /\ Len(net) >= 1 /\ Len(net') = Len(net) - 1
      /\ \A i \in 1 .. Len(net') : net'[i] = net[i + 1]
  BY <1>1 DEF IInv, TypeOK, NetType
<1>5. ASSUME NoneInHand' PROVE Arriving'
  <2>1. Arriving
    BY <1>1, <1>2, <1>5 DEF NoneInHand
  <2>2. ASSUME \A i \in 1 .. Len(net') : net'[i] \notin Modes PROVE g_auto_mode' = srvAuto'
    <3>1. \A i \in 2 .. Len(net) : net[i] \notin Modes
      <4> SUFFICES ASSUME NEW i \in 2 .. Len(net) PROVE net[i] \notin Modes
        OBVIOUS
      <4>1. i - 1 \in 1 .. Len(net') /\ (i - 1) + 1 = i
        BY <1>4
      <4> QED BY <1>4, <2>2, <4>1
    <3>2. CASE net[1] \in Modes
      <4>1. LastMode(1) /\ 1 \in 1 .. Len(net)
        BY <1>4, <3>1, <3>2 DEF LastMode
      <4>2. srvAuto = (net[1] = "auto")
        BY <2>1, <4>1 DEF Arriving
      <4>3. g_auto_mode' = (net[1] = "auto")
        BY <1>1, <3>2 DEF ModeAfter, Modes
      <4> QED BY <1>1, <4>2, <4>3
    <3>3. CASE net[1] \notin Modes
      <4>1. \A i \in 1 .. Len(net) : net[i] \notin Modes
        BY <1>4, <3>1, <3>3
      <4>2. g_auto_mode = srvAuto
        BY <2>1, <4>1 DEF Arriving
      <4>3. g_auto_mode' = g_auto_mode
        BY <1>1, <3>3, Zenon DEF ModeAfter, Modes, IInv, TypeOK, PiType
      <4> QED BY <1>1, <4>2, <4>3
    <3> QED BY <3>2, <3>3
  <2>3. ASSUME NEW i \in 1 .. Len(net'), LastMode(i)' PROVE srvAuto' = (net'[i] = "auto")
    <3>1. i + 1 \in 1 .. Len(net) /\ net'[i] = net[i + 1] /\ net[i + 1] \in Modes
      BY <1>4, <2>3 DEF LastMode
    <3>2. ASSUME NEW j \in 1 .. Len(net), j > i + 1 PROVE net[j] \notin Modes
      <4>1. j - 1 \in 1 .. Len(net') /\ j - 1 > i /\ (j - 1) + 1 = j
        BY <1>4, <3>2
      <4> QED BY <1>4, <2>3, <4>1 DEF LastMode
    <3>3. LastMode(i + 1)
      BY <3>1, <3>2 DEF LastMode
    <3> QED BY <1>1, <2>1, <3>1, <3>3 DEF Arriving
  <2> QED BY <2>2, <2>3 DEF Arriving
<1> QED BY <1>3, <1>5

LEMMA NextModes == IInv /\ ModeInv /\ [Next]_vars => ModeInv'
<1> SUFFICES ASSUME IInv, ModeInv, [Next]_vars PROVE ModeInv'
  OBVIOUS
<1>1. ASSUME UNCHANGED <<srvVars, netVars, g_auto_mode>> PROVE ModeInv'
  BY <1>1 DEF srvVars, netVars, ModeInv, Undisturbed, OneInHand, OwnMode, NoneInHand, Arriving,
              LastMode
<1>2. CASE Disconnect
  BY <1>2 DEF Disconnect, ModeInv, Undisturbed
<1>3. CASE (\E w \in Writers : WriteDir(w) \/ WriteDuty(w)) \/ Sensor \/ GasChanges
  BY <1>1, <1>3 DEF WriteDir, WriteDuty, Sensor, GetCo, GetCo2, CheckMode, Written, GasChanges
<1>4. CASE UNCHANGED vars
  BY <1>1, <1>4 DEF vars
<1> QED BY <1>2, <1>3, <1>4, HandleModes, PublishModes, CommandModes DEF Next

(* Once every command has been published and handled, the server and the Pi   *)
(* are in the same mode, for any clients and any number of commands, as long  *)
(* as no message was lost and no two commands crossed inside the server.      *)
THEOREM ModesAgreeAlways == Spec => []ModesAgree
<1>1. ModeInv => ModesAgree
  <2> SUFFICES ASSUME ModeInv, ~InFlight, Undisturbed PROVE g_auto_mode = srvAuto
    BY DEF ModesAgree, Undisturbed
  <2>1. NoneInHand /\ Len(net) = 0
    BY DEF InFlight, NoneInHand, Modes
  <2> QED BY <2>1 DEF ModeInv, Arriving
<1> QED BY InitIInv, NextIInv, InitModes, NextModes, <1>1, PTL DEF Spec
=============================================================================
