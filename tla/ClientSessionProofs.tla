-------------------------- MODULE ClientSessionProofs --------------------------
(* Proofs about a session and the client at its other end, for all queue      *)
(* limits, packets and connections: the session's types and its freeing, the  *)
(* room that pictures leave for data, the loop of readData on every stream    *)
(* (Cut), and from it the bound on mixed packets and the order of packets on  *)
(* the screen.                                                                *)
EXTENDS NetworkClient, FiniteSetTheorems, SequenceTheorems, WellFoundedInduction, TLAPS

\* The thread that handle_client has joined when it reaches a place.
Past(places, state) == mpc \in places => state = "ended"

JoinOrder ==
  /\ Past({"join_writer", "join_hw", "join_pi", "free"}, rpc)
  /\ Past({"join_hw", "join_pi", "free"}, wpc)
  /\ Past({"join_pi", "free"}, work["hw"])
  /\ Past({"free"}, work["pi"])
  /\ mpc = "off" => rpc = "off" /\ wpc = "off" /\ work = [w \in Workers |-> "off"]

IInv == SessionType /\ JoinOrder

(* A numbered packet of a producer is a packet.                               *)
LEMMA PacketIn ==
  ASSUME NEW producer \in Producers, NEW n \in 1 .. MaxPackets[producer]
  PROVE  [from |-> producer, n |-> n] \in Packets
<1> DEFINE packet == [from |-> producer, n |-> n]
<1>1. n \in Nat
  BY SessionAssumption
<1>2. packet \in [from : Producers, n : Nat] /\ packet.from = producer /\ packet.n = n
  BY <1>1
<1> HIDE DEF packet
<1>3. packet \in Packets
  BY <1>2 DEF Packets
<1> QED BY <1>3 DEF packet

(* A packet that is put into the queue by any producer leaves it typed and no *)
(* longer than the limit for data, since the limit for pictures is the lower. *)
LEMMA EnqueueType ==
  ASSUME SessionType, NEW producer \in Producers, Enqueue(producer)
  PROVE  /\ made' \in [Producers -> Nat]
         /\ queue' \in Seq(Packets) /\ Len(queue') <= JsonLimit
<1>1. CASE made[producer] < MaxPackets[producer]
  <2>1. made' = [made EXCEPT ![producer] = @ + 1] /\ made' \in [Producers -> Nat]
    BY <1>1, SessionAssumption DEF Enqueue, SessionType
  <2>2. made'[producer] \in 1 .. MaxPackets[producer]
    <3>1. made[producer] \in Nat /\ MaxPackets[producer] \in Nat
      BY SessionAssumption DEF SessionType
    <3>2. made'[producer] = made[producer] + 1
      BY <2>1 DEF SessionType
    <3> QED BY <1>1, <3>1, <3>2
  <2>6. [from |-> producer, n |-> made'[producer]] \in Packets
    BY <2>2, PacketIn
  <2>3. Limit(producer) <= JsonLimit /\ Limit(producer) \in Nat
    BY SessionAssumption DEF Limit
  <2>4. CASE Len(queue) < Limit(producer)
    <3>1. queue' = Append(queue, [from |-> producer, n |-> made'[producer]])
      BY <1>1, <2>4 DEF Enqueue
    <3>2. queue' \in Seq(Packets) /\ Len(queue') = Len(queue) + 1
      BY <2>6, <3>1 DEF SessionType
    <3> QED BY <2>1, <2>3, <2>4, <3>2, SessionAssumption DEF SessionType
  <2>5. CASE ~(Len(queue) < Limit(producer))
    BY <1>1, <2>1, <2>5 DEF Enqueue, SessionType
  <2> QED BY <2>4, <2>5
<1>2. CASE ~(made[producer] < MaxPackets[producer])
  BY <1>2 DEF Enqueue, SessionType
<1> QED BY <1>1, <1>2

(* Before the first session nothing runs.                                     *)
LEMMA InitHolds == Init => IInv
<1> SUFFICES ASSUME Init PROVE IInv
  OBVIOUS
<1>1. /\ mpc = "off" /\ rpc = "off" /\ wpc = "off" /\ work = [w \in Workers |-> "off"]
      /\ queue = <<>> /\ hand = <<>> /\ made = [p \in Producers |-> 0]
      /\ connected = FALSE /\ stop_flag = FALSE /\ peerOpen = FALSE
  BY DEF Init, SessionInit
<1>2. queue \in Seq(Packets) /\ Len(queue) <= JsonLimit /\ hand \in Seq(Packets)
  BY <1>1, SessionAssumption
<1>3. SessionType
  BY <1>1, <1>2 DEF SessionType
<1>4. JoinOrder
  BY <1>1 DEF JoinOrder, Past
<1> QED BY <1>3, <1>4 DEF IInv

(* The first packet of a session is the list of ROIs; the threads start with  *)
(* the session, so that none of them has ended before handle_client waits.    *)
LEMMA AcceptHolds == IInv /\ Accept => IInv'
<1> SUFFICES ASSUME IInv, Accept PROVE IInv'
  OBVIOUS
<1> USE DEF IInv, SessionType, JoinOrder, Past, AfterJoin
<1>1. CASE mpc' = "loop"
  <2>1. /\ rpc' = "read" /\ wpc' = "check" /\ work' = [w \in Workers |-> "run"] /\ hand' = <<>>
        /\ connected' = TRUE /\ UNCHANGED <<stop_flag, peerOpen>> /\ mpc = "off"
    BY <1>1 DEF Accept
  <2>2. made' \in [Producers -> Nat] /\ queue' \in Seq(Packets) /\ Len(queue') <= JsonLimit
    <3>1. CASE UNCHANGED made /\ queue' = <<>>
      BY <3>1, SessionAssumption
    <3>2. CASE /\ made' = [made EXCEPT !["main"] = @ + 1] /\ made["main"] < MaxPackets["main"]
               /\ queue' = <<[from |-> "main", n |-> made'["main"]]>>
      <4>1. made' \in [Producers -> Nat] /\ made'["main"] = made["main"] + 1
        BY <3>2 DEF Producers
      <4>2. "main" \in Producers /\ made'["main"] \in 1 .. MaxPackets["main"]
        BY <3>2, <4>1, SessionAssumption DEF Producers
      <4>3. [from |-> "main", n |-> made'["main"]] \in Packets
        BY <4>2, PacketIn
      <4> QED BY <3>2, <4>1, <4>3, SessionAssumption
    <3> QED BY <1>1, <2>1, <3>1, <3>2 DEF Accept
  <2>3. hand' \in Seq(Packets)
    BY <2>1
  <2> QED BY <1>1, <2>1, <2>2, <2>3
<1>2. CASE mpc' # "loop"
  <2>1. UNCHANGED <<mpc, rpc, wpc, work, queue, hand, made, connected, stop_flag>>
        /\ peerOpen' = FALSE
    BY <1>2 DEF Accept
  <2> QED BY <2>1
<1> QED BY <1>1, <1>2

(* What reader and writer do keeps the order of the joins: they only end.     *)
LEMMA ConnectionHolds ==
  ASSUME IInv, ReadFails \/ ReadCommand \/ WriterCheck \/ WriterPop \/ WriterSends \/ WriteFails
  PROVE  IInv'
<1> USE DEF IInv, SessionType, JoinOrder, Past, AfterJoin
<1>1. CASE ReadFails BY <1>1 DEF ReadFails
<1>2. CASE ReadCommand BY <1>2 DEF ReadCommand
<1>3. CASE WriterCheck BY <1>3 DEF WriterCheck
<1>4. CASE WriterPop
  <2>1. CASE queue = <<>> BY <1>4, <2>1 DEF WriterPop
  <2>2. CASE queue # <<>>
    <3>1. hand' = <<Head(queue)>> /\ queue' = Tail(queue) /\ wpc' = "write" /\ wpc = "drain"
          /\ UNCHANGED <<mpc, rpc, work, made, connected, stop_flag, peerOpen>>
      BY <1>4, <2>2 DEF WriterPop, QueueAfterPop
    <3>2. Head(queue) \in Packets /\ Tail(queue) \in Seq(Packets)
          /\ Len(Tail(queue)) = Len(queue) - 1
      BY <2>2
    <3>3. hand' \in Seq(Packets) /\ queue' \in Seq(Packets) /\ Len(queue') <= JsonLimit
      BY <3>1, <3>2, SessionAssumption
    <3> QED BY <3>1, <3>3
  <2> QED BY <2>1, <2>2
<1>5. CASE WriterSends BY <1>5 DEF WriterSends
<1>6. CASE WriteFails
  <2>1. /\ connected' = FALSE /\ wpc = "write" /\ wpc' = "ended" /\ hand' = <<>>
        /\ UNCHANGED <<mpc, rpc, work, queue, made, stop_flag, peerOpen>>
    BY <1>6 DEF WriteFails
  <2>2. hand' \in Seq(Packets)
    BY <2>1
  <2> QED BY <2>1, <2>2
<1> QED BY <1>1, <1>2, <1>3, <1>4, <1>5, <1>6

(* The picture threads and handle_client itself.                              *)
LEMMA OwnerHolds ==
  ASSUME IInv, (\E w \in Workers : Picture(w)) \/ MainLoop \/ Join \/ Free \/ Stop
  PROVE  IInv'
<1>1. ASSUME NEW w \in Workers, Picture(w) PROVE IInv'
  <2>1. CASE WorkerGoesOn
    <3>1. made' \in [Producers -> Nat] /\ queue' \in Seq(Packets) /\ Len(queue') <= JsonLimit
      BY <1>1, <2>1, EnqueueType DEF Picture, IInv, Producers
    <3> QED BY <1>1, <2>1, <3>1 DEF Picture, IInv, SessionType, JoinOrder, Past, AfterJoin
  <2>2. CASE ~WorkerGoesOn
    BY <1>1, <2>2 DEF Picture, IInv, SessionType, JoinOrder, Past, AfterJoin, Workers
  <2> QED BY <2>1, <2>2
<1>2. CASE MainLoop
  <2>1. CASE connected /\ ~stop_flag
    <3>1. made' \in [Producers -> Nat] /\ queue' \in Seq(Packets) /\ Len(queue') <= JsonLimit
      BY <1>2, <2>1, EnqueueType DEF MainLoop, IInv, Producers
    <3> QED BY <1>2, <2>1, <3>1 DEF MainLoop, IInv, SessionType, JoinOrder, Past, AfterJoin
  <2>2. CASE ~(connected /\ ~stop_flag)
    BY <1>2, <2>2 DEF MainLoop, IInv, SessionType, JoinOrder, Past, AfterJoin
  <2> QED BY <2>1, <2>2
<1>3. CASE Join
  <2>1. /\ UNCHANGED <<rpc, wpc, work, queue, hand, made, connected, stop_flag, peerOpen>>
        /\ mpc' = AfterJoin[mpc] /\ Joined[mpc] = "ended"
        /\ mpc \in {"join_reader", "join_writer", "join_hw", "join_pi"}
    BY <1>3 DEF Join, AfterJoin
  <2>2. \/ mpc = "join_reader" /\ mpc' = "join_writer" /\ rpc = "ended"
        \/ mpc = "join_writer" /\ mpc' = "join_hw" /\ wpc = "ended"
        \/ mpc = "join_hw" /\ mpc' = "join_pi" /\ work["hw"] = "ended"
        \/ mpc = "join_pi" /\ mpc' = "free" /\ work["pi"] = "ended"
    BY <2>1 DEF AfterJoin, Joined
  <2>3. mpc' \in {"free"} \cup DOMAIN AfterJoin
    BY <2>2 DEF AfterJoin
  <2>4. JoinOrder'
    BY <2>1, <2>2 DEF IInv, JoinOrder, Past
  <2> QED BY <2>1, <2>3, <2>4 DEF IInv, SessionType
<1>4. CASE Free
  <2>1. /\ mpc' = "off" /\ rpc' = "off" /\ wpc' = "off" /\ work' = [w \in Workers |-> "off"]
        /\ queue' = <<>> /\ hand' = <<>> /\ peerOpen' = FALSE
        /\ UNCHANGED <<made, connected, stop_flag>>
    BY <1>4 DEF Free
  <2>2. queue' \in Seq(Packets) /\ Len(queue') <= JsonLimit /\ hand' \in Seq(Packets)
    BY <2>1, SessionAssumption
  <2>3. SessionType'
    BY <2>1, <2>2 DEF IInv, SessionType
  <2>4. JoinOrder'
    BY <2>1 DEF JoinOrder, Past
  <2> QED BY <2>3, <2>4 DEF IInv
<1>5. CASE Stop
  BY <1>5 DEF Stop, IInv, SessionType, JoinOrder, Past, AfterJoin
<1> QED BY <1>1, <1>2, <1>3, <1>4, <1>5

(* The client only opens and closes the connection and takes from the stream. *)
LEMMA ClientHolds ==
  ASSUME IInv, ConnectToServer \/ Disconnected \/ \E n \in 1 .. Len(wire) : ReadData(n)
  PROVE  IInv'
<1>1. /\ UNCHANGED <<mpc, rpc, wpc, work, queue, hand, made, connected, stop_flag>>
      /\ peerOpen' \in BOOLEAN
  BY DEF ConnectToServer, Disconnected, ReadData, IInv, SessionType
<1> QED BY <1>1 DEF IInv, SessionType, JoinOrder, Past

(* Every step keeps the types and the order of joining.                       *)
LEMMA StepHolds == IInv /\ [Next]_vars => IInv'
<1> SUFFICES ASSUME IInv, [Next]_vars PROVE IInv'
  OBVIOUS
<1>1. CASE SessionNext
  BY <1>1, AcceptHolds, ConnectionHolds, OwnerHolds DEF SessionNext
<1>2. CASE ConnectToServer \/ Disconnected \/ \E n \in 1 .. Len(wire) : ReadData(n)
  BY <1>2, ClientHolds
<1>3. CASE UNCHANGED vars
  BY <1>3 DEF vars, sessionVars, IInv, SessionType, JoinOrder, Past
<1> QED BY <1>1, <1>2, <1>3 DEF Next

(* The five threads, the queue and its limit are typed in every reachable     *)
(* state of a server and a client.                                            *)
THEOREM SessionTyped == Spec => []SessionType
<1>1. IInv => SessionType
  BY DEF IInv
<1> QED BY <1>1, InitHolds, StepHolds, PTL DEF Spec

(* handle_client returns, and frees the SSL object, the database connection   *)
(* and the queue, only after the four threads that use them have ended.       *)
THEOREM NothingIsFreedInUse == Spec => []NothingFreedInUse
<1>1. IInv => NothingFreedInUse
  BY DEF IInv, SessionType, JoinOrder, Past, NothingFreedInUse, Threads, Workers
<1> QED BY <1>1, InitHolds, StepHolds, PTL DEF Spec
-----------------------------------------------------------------------------
(* A picture was put into the queue when fewer than CamLimit packets were     *)
(* there, and the writer only moves it forward.                               *)
PicturesInFront == \A i \in DOMAIN queue : queue[i].from # "main" => i <= CamLimit

(* enqueuePacket keeps pictures in front only where the limit leaves room.    *)
LEMMA EnqueueInFront ==
  ASSUME SessionType, PicturesInFront, NEW producer \in Producers, Enqueue(producer)
  PROVE  PicturesInFront'
<1> DEFINE packet == [from |-> producer, n |-> made'[producer]]
<1>1. CASE UNCHANGED queue
  BY <1>1 DEF PicturesInFront
<1>2. CASE Len(queue) < Limit(producer) /\ queue' = Append(queue, packet)
  <2>1. queue \in Seq(Packets) /\ Len(queue) \in Nat /\ CamLimit \in Nat
    BY SessionAssumption DEF SessionType
  <2>2. /\ DOMAIN queue' = 1 .. Len(queue) + 1
        /\ queue'[Len(queue) + 1].from = producer
        /\ \A i \in 1 .. Len(queue) : queue'[i] = queue[i]
    BY <1>2, <2>1
  <2>3. producer # "main" => Len(queue) + 1 <= CamLimit
    BY <1>2, <2>1 DEF Limit
  <2> QED BY <2>1, <2>2, <2>3 DEF PicturesInFront
<1> QED BY <1>1, <1>2 DEF Enqueue

(* Every step keeps it.                                                       *)
LEMMA FrontStep == IInv /\ PicturesInFront /\ [Next]_vars => PicturesInFront'
<1> SUFFICES ASSUME IInv, PicturesInFront, [Next]_vars PROVE PicturesInFront'
  OBVIOUS
<1>0. UNCHANGED queue => PicturesInFront'
  BY DEF PicturesInFront
<1>1. CASE Accept
  <2>1. \/ UNCHANGED queue
        \/ queue' = <<>>
        \/ \E n : queue' = <<[from |-> "main", n |-> n]>>
    BY <1>1 DEF Accept
  <2>2. ASSUME NEW n, queue' = <<[from |-> "main", n |-> n]>> PROVE PicturesInFront'
    <3>1. \A i \in DOMAIN queue' : queue'[i].from = "main"
      BY <2>2
    <3> QED BY <3>1 DEF PicturesInFront
  <2>3. queue' = <<>> => PicturesInFront'
    BY DEF PicturesInFront
  <2> QED BY <1>0, <2>1, <2>2, <2>3
<1>2. CASE ReadFails \/ ReadCommand \/ WriterCheck \/ WriterSends \/ WriteFails \/ Join \/ Stop
  BY <1>0, <1>2 DEF ReadFails, ReadCommand, WriterCheck, WriterSends, WriteFails, Join, Stop
<1>3. CASE WriterPop
  <2>1. CASE queue = <<>>
    BY <1>0, <1>3, <2>1 DEF WriterPop
  <2>2. CASE queue # <<>>
    <3>1. queue \in Seq(Packets) /\ CamLimit \in Nat /\ queue' = Tail(queue)
      BY <1>3, <2>2, SessionAssumption DEF WriterPop, QueueAfterPop, IInv, SessionType
    <3>2. \A i \in DOMAIN queue' : i + 1 \in DOMAIN queue /\ queue'[i] = queue[i + 1]
      BY <2>2, <3>1
    <3>3. \A i \in DOMAIN queue' : i \in Nat
      BY <3>1
    <3> QED BY <3>1, <3>2, <3>3 DEF PicturesInFront
  <2> QED BY <2>1, <2>2
<1>4. ASSUME NEW w \in Workers, Picture(w) PROVE PicturesInFront'
  BY <1>0, <1>4, EnqueueInFront DEF Picture, IInv, Producers
<1>5. CASE MainLoop
  BY <1>0, <1>5, EnqueueInFront DEF MainLoop, IInv, Producers
<1>6. CASE Free
  BY <1>6 DEF Free, PicturesInFront
<1>7. CASE ConnectToServer \/ Disconnected \/ \E n \in 1 .. Len(wire) : ReadData(n)
  BY <1>0, <1>7 DEF ConnectToServer, Disconnected, ReadData
<1>8. CASE UNCHANGED vars
  BY <1>0, <1>8 DEF vars, sessionVars
<1> QED BY <1>1, <1>2, <1>3, <1>4, <1>5, <1>6, <1>7, <1>8 DEF Next, SessionNext

\* Behind the pictures there is only data.
LEMMA DataBehind ==
  ASSUME SessionType, PicturesInFront, Len(queue) >= JsonLimit
  PROVE  Cardinality(Data(queue)) >= JsonLimit - CamLimit
<1> DEFINE behind == CamLimit + 1 .. Len(queue)
<1>1. /\ Len(queue) \in Nat /\ DOMAIN queue = 1 .. Len(queue)
      /\ CamLimit \in Nat /\ JsonLimit \in Nat /\ CamLimit <= JsonLimit
  BY SessionAssumption DEF SessionType
<1>2. behind \subseteq Data(queue)
  BY <1>1 DEF PicturesInFront, Data
<1>3. IsFiniteSet(Data(queue))
  <2>1. IsFiniteSet(1 .. Len(queue))
    BY <1>1, FS_Interval
  <2> QED BY <1>1, <2>1, FS_Subset DEF Data
<1>4. Cardinality(behind) = Len(queue) - CamLimit
  <2>1. CamLimit + 1 \in Int /\ Len(queue) \in Int
    BY <1>1
  <2>2. Cardinality(behind)
          = IF CamLimit + 1 > Len(queue) THEN 0 ELSE Len(queue) - (CamLimit + 1) + 1
    BY <2>1, FS_Interval
  <2> QED BY <1>1, <2>2
<1>5. Cardinality(behind) <= Cardinality(Data(queue)) /\ Cardinality(Data(queue)) \in Nat
  BY <1>2, <1>3, FS_Subset, FS_CardinalityType
<1> QED BY <1>1, <1>4, <1>5

(* Dropping the front of the queue.                                           *)
LEMMA DropsBehindData ==
  ASSUME IInv, PicturesInFront, [Next]_vars,
         made'["main"] # made["main"], mpc = "loop", queue' = queue
  PROVE  Cardinality(Data(queue)) >= JsonLimit - CamLimit
<1>1. ASSUME NEW w \in Workers, Picture(w) PROVE FALSE
  <2>1. w # "main" /\ made \in [Producers -> Nat] /\ "main" \in Producers
    BY DEF Workers, Producers, IInv, SessionType
  <2>2. made' = made \/ made' = [made EXCEPT ![w] = @ + 1]
    BY <1>1 DEF Picture, Enqueue
  <2> QED BY <2>1, <2>2
<1>2. CASE MainLoop
  <2>1. Enqueue("main")
    BY <1>2 DEF MainLoop
  <2>2. /\ queue \in Seq(Packets) /\ JsonLimit \in Nat
        /\ ~(Len(queue) < JsonLimit) \/ queue' = Append(queue, [from |-> "main", n |-> made'["main"]])
    BY <2>1, SessionAssumption DEF Enqueue, Limit, IInv, SessionType
  <2>3. \A packet : Append(queue, packet) # queue
    BY <2>2
  <2>4. Len(queue) >= JsonLimit
    BY <2>2, <2>3
  <2> QED BY <2>4, DataBehind DEF IInv
<1> QED
  BY <1>1, <1>2
     DEF Next, SessionNext, Accept, ReadFails, ReadCommand, WriterCheck, WriterPop, WriterSends,
         WriteFails, Join, Free, Stop, ConnectToServer, Disconnected, ReadData, vars, sessionVars

(* enqueue_json_packet drops a packet only when ten are waiting, and          *)
(* enqueue_camera_packet stops at six: the rest of such a queue is data,      *)
(* whatever the pace of the cameras and of the writer.                        *)
THEOREM PicturesLeaveRoom == Spec => RoomForData
<1>1. Init => PicturesInFront
  BY DEF Init, SessionInit, PicturesInFront
<1>2. IInv /\ PicturesInFront /\ [Next]_vars
        => [made'["main"] # made["main"] /\ mpc = "loop" /\ queue' = queue
              => Cardinality(Data(queue)) >= JsonLimit - CamLimit]_sessionVars
  BY DropsBehindData
<1> QED BY <1>1, <1>2, InitHolds, StepHolds, FrontStep, PTL DEF Spec, RoomForData

-----------------------------------------------------------------------------
(* A non-empty set of naturals has a least member: how a statement about      *)
(* every stream is proved here is by the shortest stream that would refute    *)
(* it.                                                                        *)
LEMMA LeastNumber ==
  ASSUME NEW S, S \subseteq Nat, S # {}
  PROVE  \E n \in S : \A m \in S : n <= m
<1> DEFINE Lesser == {pair \in Nat \X Nat : pair[1] < pair[2]}
<1>1. IsWellFoundedOn(Lesser, Nat)
  BY NatLessThanWellFounded DEF OpToRel
<1> HIDE DEF Lesser
<1>2. PICK n \in S : \A m \in S : ~ (<<m, n>> \in Lesser)
  BY <1>1, WFMin
<1>3. \A y, x \in Nat : <<y, x>> \in Lesser <=> y < x
  BY DEF Lesser
<1>4. ASSUME NEW m \in S PROVE n <= m
  <2>1. ~ (m < n)
    BY <1>2, <1>3
  <2> QED BY <2>1
<1> QED BY <1>4

(* The elements of a stream: the parts of packets that readData tells apart.  *)
Unit == [part : {"magic", "id", "sizes", "json", "image"}, of : Packets]

\* What is left of a sequence without its first k elements.
Rest(s, k) == SubSeq(s, k + 1, Len(s))

(* A stream is a sequence of units.                                           *)
LEMMA StreamSeq ==
  ASSUME NEW buf \in Stream
  PROVE  /\ Len(buf) \in Nat /\ DOMAIN buf = 1 .. Len(buf)
         /\ \A i \in 1 .. Len(buf) : buf[i] \in Unit
<1>1. buf \in Seq(Unit)
  BY DEF Stream, Unit
<1> QED BY <1>1, LenProperties, ElementOfSeq

(* What is left of a stream is a stream, shifted by k.                        *)
LEMMA RestOf ==
  ASSUME NEW buf \in Stream, NEW k \in 0 .. Len(buf)
  PROVE  /\ Rest(buf, k) \in Stream /\ Len(Rest(buf, k)) = Len(buf) - k
         /\ \A i \in 1 .. Len(buf) - k : Rest(buf, k)[i] = buf[k + i]
<1>1. k + 1 \in Int /\ Len(buf) \in Int /\ k \in Nat /\ k <= Len(buf) /\ Len(buf) \in Nat
  BY StreamSeq
<1>2. \A i \in (k + 1) .. Len(buf) : buf[i] \in Unit
  BY <1>1, StreamSeq
<1>3. /\ SubSeq(buf, k + 1, Len(buf)) \in Seq(Unit)
      /\ Len(SubSeq(buf, k + 1, Len(buf)))
           = IF k + 1 <= Len(buf) THEN Len(buf) - (k + 1) + 1 ELSE 0
      /\ \A i \in 1 .. (Len(buf) - (k + 1) + 1) :
           SubSeq(buf, k + 1, Len(buf))[i] = buf[(k + 1) + i - 1]
  BY <1>1, <1>2, SubSeqProperties
<1>4. Rest(buf, k) \in Stream
  BY <1>3 DEF Rest, Stream, Unit
<1>5. Len(Rest(buf, k)) = Len(buf) - k
  BY <1>1, <1>3 DEF Rest
<1>6. ASSUME NEW i \in 1 .. Len(buf) - k PROVE Rest(buf, k)[i] = buf[k + i]
  <2>1. i \in 1 .. (Len(buf) - (k + 1) + 1) /\ (k + 1) + i - 1 = k + i
    BY <1>1
  <2> QED BY <1>3, <2>1 DEF Rest
<1> QED BY <1>4, <1>5, <1>6

(* Synced drops the units before the first magic number, or everything.       *)
LEMMA Syncing ==
  ASSUME NEW buf \in Stream
  PROVE  \E k \in 0 .. Len(buf) :
           /\ Synced(buf) = Rest(buf, k)
           /\ k < Len(buf) => buf[k + 1].part = "magic"
           /\ \A i \in 1 .. k : buf[i].part # "magic"
<1> DEFINE starts == {i \in DOMAIN buf : buf[i].part = "magic"}
<1>1. CASE starts = {}
  <2>1. Synced(buf) = <<>>
    BY <1>1 DEF Synced
  <2>2. Len(buf) \in 0 .. Len(buf)
    BY StreamSeq
  <2>3. Rest(buf, Len(buf)) = <<>>
    <3>1. Len(Rest(buf, Len(buf))) = 0 /\ Rest(buf, Len(buf)) \in Stream
      BY <2>2, RestOf, StreamSeq
    <3> QED BY <3>1 DEF Stream
  <2>4. \A i \in 1 .. Len(buf) : buf[i].part # "magic"
    BY <1>1, StreamSeq
  <2> QED BY <2>1, <2>2, <2>3, <2>4, StreamSeq
<1>2. CASE starts # {}
  <2>1. starts \subseteq Nat
    BY StreamSeq
  <2>2. \E i \in starts : \A j \in starts : i <= j
    BY <1>2, <2>1, LeastNumber
  <2> DEFINE first == CHOOSE i \in starts : \A j \in starts : i <= j
  <2>3. first \in starts /\ \A j \in starts : first <= j
    BY <2>2
  <2>4. Synced(buf) = SubSeq(buf, first, Len(buf))
    BY <1>2 DEF Synced
  <2> HIDE DEF first
  <2>5. first \in 1 .. Len(buf) /\ buf[first].part = "magic" /\ Len(buf) \in Nat
    BY <2>3, StreamSeq
  <2>6. ASSUME NEW i \in 1 .. first - 1 PROVE buf[i].part # "magic"
    <3>1. i \in DOMAIN buf /\ ~(first <= i)
      BY <2>5, StreamSeq
    <3> QED BY <2>3, <3>1
  <2>7. PICK k \in Nat : first = k + 1 /\ k = first - 1
    BY <2>5
  <2>8. k \in 0 .. Len(buf) /\ Synced(buf) = Rest(buf, k)
    BY <2>4, <2>5, <2>7 DEF Rest
  <2> QED BY <2>5, <2>6, <2>7, <2>8
<1> QED BY <1>1, <1>2

(* The header of any packet announces four units or five.                     *)
LEMMA PacketLength ==
  ASSUME NEW b \in Stream, Len(b) >= 3
  PROVE  Length(b) \in 4 .. 5
<1>1. b[2] \in Unit
  BY StreamSeq
<1>2. Len(Units(b[2].of)) \in 4 .. 5
  BY DEF Units
<1> QED BY <1>2 DEF Length

-----------------------------------------------------------------------------
(* One turn of the loop of readData, with f for the turns that follow.        *)
CutBy(f, buf) ==
  LET b == Synced(buf)
  IN  IF Len(b) < 3 THEN [rest |-> b, found |-> <<>>]
      ELSE IF Abnormal(b) THEN f[SubSeq(b, 2, Len(b))]
      ELSE IF Len(b) < Length(b) THEN [rest |-> b, found |-> <<>>]
      ELSE LET packet == SubSeq(b, 1, Length(b))
               after  == f[SubSeq(b, Length(b) + 1, Len(b))]
           IN  [rest  |-> after.rest,
                found |-> <<IF IsWhole(packet) THEN <<packet[1].of>> ELSE Mixture>> \o after.found]

(* The turn for a stream asks f only about shorter streams.                   *)
LEMMA CutDepends ==
  ASSUME NEW buf \in Stream, NEW f, NEW g,
         \A t \in Stream : Len(t) < Len(buf) => f[t] = g[t]
  PROVE  CutBy(f, buf) = CutBy(g, buf)
<1> DEFINE b == Synced(buf)
<1>1. b \in Stream /\ Len(b) <= Len(buf) /\ Len(buf) \in Nat /\ Len(b) \in Nat
  <2>1. PICK k \in 0 .. Len(buf) : b = Rest(buf, k)
    BY Syncing
  <2>2. b \in Stream /\ Len(b) = Len(buf) - k /\ Len(buf) \in Nat
    BY <2>1, RestOf, StreamSeq
  <2> HIDE DEF b
  <2> QED BY <2>2
<1>2. CASE Len(b) < 3 \/ (~Abnormal(b) /\ Len(b) < Length(b))
  BY <1>2 DEF CutBy
<1>4. CASE ~(Len(b) < 3) /\ Abnormal(b)
  <2> DEFINE t == Rest(b, 1)
  <2>1. t \in Stream /\ Len(t) < Len(buf)
    <3> HIDE DEF b
    <3>1. 1 \in 0 .. Len(b)
      BY <1>1, <1>4
    <3>2. t \in Stream /\ Len(t) = Len(b) - 1
      BY <1>1, <3>1, RestOf
    <3> HIDE DEF t
    <3> QED BY <1>1, <3>2
  <2>2. f[t] = g[t]
    BY <2>1
  <2> QED BY <1>4, <2>2 DEF CutBy, Rest
<1>3. CASE ~(Len(b) < 3) /\ ~Abnormal(b) /\ ~(Len(b) < Length(b))
  <2> DEFINE t == Rest(b, Length(b))
  <2>1. Length(b) \in 4 .. 5 /\ Length(b) \in 0 .. Len(b)
    <3> HIDE DEF b
    <3>1. Length(b) \in 4 .. 5
      BY <1>1, <1>3, PacketLength
    <3> QED BY <1>1, <1>3, <3>1
  <2>2. t \in Stream /\ Len(t) < Len(buf)
    <3> HIDE DEF b
    <3>1. t \in Stream /\ Len(t) = Len(b) - Length(b)
      BY <1>1, <2>1, RestOf
    <3> HIDE DEF t
    <3> QED BY <1>1, <2>1, <3>1
  <2>3. f[t] = g[t]
    BY <2>2
  <2> QED BY <1>3, <2>3 DEF CutBy, Rest
<1> QED BY <1>2, <1>3, <1>4

(* The streams shorter than n, and the loop of readData on them.              *)
Shorter(n) == {buf \in Stream : Len(buf) < n}
IsCut(f, n) == f = [buf \in Shorter(n) |-> CutBy(f, buf)]

(* Two functions that are the loop agree wherever both are defined.           *)
LEMMA CutUnique ==
  ASSUME NEW m \in Nat, NEW n \in Nat, NEW f, NEW g, IsCut(f, m), IsCut(g, n)
  PROVE  \A buf \in Stream : Len(buf) < m /\ Len(buf) < n => f[buf] = g[buf]
<1> DEFINE bad == {k \in Nat : \E buf \in Stream : /\ Len(buf) = k /\ k < m /\ k < n
                                                  /\ f[buf] # g[buf]}
<1>1. SUFFICES bad = {}
  BY StreamSeq
<1>2. SUFFICES ASSUME bad # {} PROVE FALSE
  OBVIOUS
<1>3. PICK k \in bad : \A j \in bad : k <= j
  <2>1. bad \subseteq Nat
    OBVIOUS
  <2> HIDE DEF bad
  <2> QED BY <1>2, <2>1, LeastNumber
<1>4. PICK buf \in Stream : Len(buf) = k /\ k < m /\ k < n /\ f[buf] # g[buf]
  BY <1>3
<1>5. \A t \in Stream : Len(t) < Len(buf) => f[t] = g[t]
  <2> SUFFICES ASSUME NEW t \in Stream, Len(t) < Len(buf), f[t] # g[t] PROVE FALSE
    OBVIOUS
  <2>1. Len(t) \in Nat
    BY StreamSeq
  <2>2. Len(t) \in bad
    BY <1>3, <1>4, <2>1
  <2> QED BY <1>3, <1>4, <2>1, <2>2
<1>6. CutBy(f, buf) = CutBy(g, buf)
  BY <1>5, CutDepends
<1>7. f[buf] = CutBy(f, buf) /\ g[buf] = CutBy(g, buf)
  BY <1>4 DEF IsCut, Shorter
<1> QED BY <1>4, <1>6, <1>7

(* The loop is a function on the streams of any bounded length.               *)
LEMMA CutBelow == \A n \in Nat : \E f : IsCut(f, n)
<1> DEFINE bad == {n \in Nat : \A f : ~IsCut(f, n)}
<1>1. SUFFICES ASSUME bad # {} PROVE FALSE
  OBVIOUS
<1>2. PICK n \in bad : \A j \in bad : n <= j
  <2>1. bad \subseteq Nat
    OBVIOUS
  <2> HIDE DEF bad
  <2> QED BY <1>1, <2>1, LeastNumber
<1>3. n \in Nat /\ \A f : ~IsCut(f, n)
  BY <1>2
<1>4. PICK f : n > 0 => IsCut(f, n - 1)
  <2>1. CASE n = 0
    BY <2>1
  <2>2. CASE n > 0
    <3>1. n - 1 \in Nat /\ ~(n <= n - 1)
      BY <1>3, <2>2
    <3>2. n - 1 \notin bad
      BY <1>2, <3>1
    <3> QED BY <3>1, <3>2
  <2> QED BY <1>3, <2>1, <2>2
<1> DEFINE g == [buf \in Shorter(n) |-> CutBy(f, buf)]
<1>5. ASSUME NEW buf \in Shorter(n) PROVE CutBy(g, buf) = CutBy(f, buf)
  <2>1. buf \in Stream /\ Len(buf) < n /\ Len(buf) \in Nat
    BY StreamSeq DEF Shorter
  <2>2. ASSUME NEW t \in Stream, Len(t) < Len(buf) PROVE g[t] = f[t]
    <3>1. Len(t) < n /\ Len(t) < n - 1 /\ n > 0 /\ Len(t) \in Nat
      BY <1>3, <2>1, <2>2, StreamSeq
    <3>2. t \in Shorter(n) /\ t \in Shorter(n - 1)
      BY <3>1 DEF Shorter
    <3>3. f[t] = CutBy(f, t)
      BY <1>4, <3>1, <3>2 DEF IsCut
    <3> QED BY <3>2, <3>3
  <2> HIDE DEF g
  <2> QED BY <2>1, <2>2, CutDepends
<1>6. g = [buf \in Shorter(n) |-> CutBy(g, buf)]
  BY <1>5
<1> HIDE DEF g
<1>7. IsCut(g, n)
  BY <1>6 DEF IsCut
<1> QED BY <1>3, <1>7

(* The recursive function Cut exists and satisfies its defining equation: the *)
(* loop of readData ends on every stream.                                     *)
LEMMA CutStep == \A buf \in Stream : Cut[buf] = CutBy(Cut, buf)
<1> DEFINE Upto(n) == CHOOSE f : IsCut(f, n)
           whole == [buf \in Stream |-> Upto(Len(buf) + 1)[buf]]
<1>1. \A n \in Nat : IsCut(Upto(n), n)
  BY CutBelow
<1> HIDE DEF Upto
<1>2. ASSUME NEW buf \in Stream PROVE whole[buf] = CutBy(whole, buf)
  <2>1. Len(buf) \in Nat /\ Len(buf) + 1 \in Nat /\ buf \in Shorter(Len(buf) + 1)
    BY StreamSeq DEF Shorter
  <2>2. whole[buf] = CutBy(Upto(Len(buf) + 1), buf)
    <3>1. IsCut(Upto(Len(buf) + 1), Len(buf) + 1)
      BY <1>1, <2>1
    <3> QED BY <2>1, <3>1 DEF IsCut
  <2>3. ASSUME NEW t \in Stream, Len(t) < Len(buf) PROVE Upto(Len(buf) + 1)[t] = whole[t]
    <3>1. Len(t) \in Nat /\ Len(t) < Len(t) + 1 /\ Len(t) < Len(buf) + 1 /\ Len(t) + 1 \in Nat
      BY <2>1, <2>3, StreamSeq
    <3>2. IsCut(Upto(Len(t) + 1), Len(t) + 1) /\ IsCut(Upto(Len(buf) + 1), Len(buf) + 1)
      BY <1>1, <2>1, <3>1
    <3>3. Upto(Len(buf) + 1)[t] = Upto(Len(t) + 1)[t]
      BY <2>1, <3>1, <3>2, CutUnique
    <3> QED BY <3>3
  <2> HIDE DEF whole
  <2> QED BY <2>2, <2>3, CutDepends
<1>3. whole = [buf \in Stream |-> CutBy(whole, buf)]
  BY <1>2
<1> HIDE DEF whole
<1>4. Cut = CHOOSE f : f = [buf \in Stream |-> CutBy(f, buf)]
  BY DEF Cut, CutBy
<1>5. Cut = [buf \in Stream |-> CutBy(Cut, buf)]
  BY <1>3, <1>4
<1> QED BY <1>5

-----------------------------------------------------------------------------
(* Where the loop stops: nothing left, or a packet that is not complete yet.  *)
Stuck(s) ==
  \/ s = <<>>
  \/ s[1].part = "magic" /\ (Len(s) < 3 \/ (~Abnormal(s) /\ Len(s) < Length(s)))

(* What one packet cut out of the stream is delivered as.                     *)
Taken(packet) == IF IsWhole(packet) THEN <<packet[1].of>> ELSE Mixture

(* Dropping twice is dropping once.                                           *)
LEMMA RestOfRest ==
  ASSUME NEW s \in Stream, NEW j \in 0 .. Len(s), NEW k \in 0 .. Len(s) - j
  PROVE  Rest(Rest(s, j), k) = Rest(s, j + k)
<1>1. Len(s) \in Nat /\ j + k \in 0 .. Len(s) /\ j \in Nat /\ k \in Nat
  BY StreamSeq
<1>2. /\ Rest(s, j) \in Stream /\ Len(Rest(s, j)) = Len(s) - j
      /\ \A i \in 1 .. Len(s) - j : Rest(s, j)[i] = s[j + i]
  BY RestOf
<1>3. k \in 0 .. Len(Rest(s, j))
  BY <1>2
<1>4. /\ Rest(Rest(s, j), k) \in Stream
      /\ Len(Rest(Rest(s, j), k)) = Len(Rest(s, j)) - k
      /\ \A i \in 1 .. Len(Rest(s, j)) - k : Rest(Rest(s, j), k)[i] = Rest(s, j)[k + i]
  BY <1>2, <1>3, RestOf
<1>5. /\ Rest(s, j + k) \in Stream /\ Len(Rest(s, j + k)) = Len(s) - (j + k)
      /\ \A i \in 1 .. Len(s) - (j + k) : Rest(s, j + k)[i] = s[(j + k) + i]
  BY <1>1, RestOf
<1>6. Len(Rest(Rest(s, j), k)) = Len(Rest(s, j + k))
  <2>1. Len(Rest(s, j)) = Len(s) - j /\ Len(Rest(Rest(s, j), k)) = Len(Rest(s, j)) - k
    BY <1>2, <1>4
  <2>2. Len(Rest(s, j + k)) = Len(s) - (j + k)
    BY <1>5
  <2>3. (Len(s) - j) - k = Len(s) - (j + k)
    BY <1>1
  <2> QED BY <2>1, <2>2, <2>3
<1>7. ASSUME NEW i \in 1 .. Len(Rest(Rest(s, j), k))
      PROVE  Rest(Rest(s, j), k)[i] = Rest(s, j + k)[i]
  <2>1. i \in 1 .. Len(s) - j - k /\ k + i \in 1 .. Len(s) - j /\ j + (k + i) = (j + k) + i
    BY <1>1, <1>2, <1>4
  <2> QED BY <1>1, <1>2, <1>4, <1>5, <2>1
<1>8. Rest(Rest(s, j), k) \in Seq(Unit) /\ Rest(s, j + k) \in Seq(Unit)
  BY <1>4, <1>5 DEF Stream, Unit
<1> HIDE DEF Rest
<1> QED BY <1>6, <1>7, <1>8, SeqEqual

(* A non-empty set of streams has a shortest member.                          *)
LEMMA ShortestStream ==
  ASSUME NEW bad, bad \subseteq Stream, bad # {}
  PROVE  \E buf \in bad : \A t \in Stream : Len(t) < Len(buf) => t \notin bad
<1> DEFINE lengths == {n \in Nat : \E buf \in bad : Len(buf) = n}
<1>1. PICK buf0 \in bad : TRUE
  OBVIOUS
<1>2. Len(buf0) \in lengths
  BY StreamSeq
<1>3. PICK n \in lengths : \A m \in lengths : n <= m
  <2>1. lengths \subseteq Nat /\ lengths # {}
    BY <1>2
  <2> HIDE DEF lengths
  <2> QED BY <2>1, LeastNumber
<1>4. PICK buf \in bad : Len(buf) = n
  BY <1>3
<1>5. ASSUME NEW t \in Stream, Len(t) < Len(buf), t \in bad PROVE FALSE
  <2>1. Len(t) \in lengths /\ Len(t) \in Nat /\ n \in Nat
    BY <1>3, <1>5, StreamSeq
  <2> HIDE DEF lengths
  <2> QED BY <1>3, <1>4, <1>5, <2>1
<1> QED BY <1>4, <1>5

(* What the loop drops from the front of a stream: everything before a magic  *)
(* number, and magic numbers of headers that were cut off before their sizes. *)
Skips(buf, k) ==
  \A i \in 1 .. k : buf[i].part = "magic"
                     => i + 2 <= Len(buf) /\ buf[i + 1].part = "id" /\ buf[i + 2].part # "sizes"

(* Then it stops, or takes one packet of n units and continues behind it.     *)
TakesAt(buf, k, n) ==
  /\ n <= Len(buf) - k /\ n = Length(Rest(buf, k))
  /\ buf[k + 1].part = "magic"
  /\ Cut[buf] = [rest  |-> Cut[Rest(buf, k + n)].rest,
                 found |-> <<Taken(SubSeq(Rest(buf, k), 1, n))>> \o Cut[Rest(buf, k + n)].found]

CutsAt(buf, k) ==
  \/ Cut[buf] = [rest |-> Rest(buf, k), found |-> <<>>] /\ Stuck(Rest(buf, k))
  \/ \E n \in 4 .. 5 : TakesAt(buf, k, n)

(* A stream behind a dropped front is cut as the stream.                      *)
LEMMA CutsBehind ==
  ASSUME NEW buf \in Stream, NEW d \in 0 .. Len(buf), Cut[buf] = Cut[Rest(buf, d)],
         NEW j \in 0 .. Len(Rest(buf, d)), CutsAt(Rest(buf, d), j)
  PROVE  d + j \in 0 .. Len(buf) /\ CutsAt(buf, d + j)
<1> DEFINE t == Rest(buf, d)
<1>1. /\ t \in Stream /\ Len(t) = Len(buf) - d /\ Len(buf) \in Nat /\ d \in Nat /\ j \in Nat
      /\ \A i \in 1 .. Len(buf) - d : t[i] = buf[d + i]
  <2>1. /\ t \in Stream /\ Len(t) = Len(buf) - d
        /\ \A i \in 1 .. Len(buf) - d : t[i] = buf[d + i]
    BY RestOf
  <2>2. Len(buf) \in Nat /\ d \in Nat
    BY StreamSeq
  <2>3. j \in Nat
    <3>1. j \in 0 .. Len(t)
      OBVIOUS
    <3> HIDE DEF t
    <3> QED BY <2>1, <2>2, <3>1
  <2> QED BY <2>1, <2>2, <2>3
<1>2. d + j \in 0 .. Len(buf) /\ j \in 0 .. Len(buf) - d
  BY <1>1
<1>3. Rest(t, j) = Rest(buf, d + j)
  BY <1>2, RestOfRest
<1>4. CASE Cut[t] = [rest |-> Rest(t, j), found |-> <<>>] /\ Stuck(Rest(t, j))
  BY <1>2, <1>3, <1>4 DEF CutsAt
<1>5. ASSUME NEW n \in 4 .. 5, TakesAt(t, j, n) PROVE TakesAt(buf, d + j, n)
  <2>1. n <= Len(buf) - (d + j) /\ n <= Len(t) - j
    <3>1. n <= Len(t) - j
      BY <1>5 DEF TakesAt
    <3> HIDE DEF t
    <3> QED BY <1>1, <3>1
  <2>2. j + n \in 0 .. Len(buf) - d /\ d + (j + n) = (d + j) + n
    BY <1>1, <2>1
  <2>3. Rest(t, j + n) = Rest(buf, (d + j) + n)
    BY <2>2, RestOfRest
  <2>4. t[j + 1] = buf[(d + j) + 1]
    <3>1. j + 1 \in 1 .. Len(buf) - d /\ d + (j + 1) = (d + j) + 1
      BY <1>1, <2>1
    <3> QED BY <1>1, <3>1
  <2> QED BY <1>3, <1>5, <2>1, <2>3, <2>4 DEF TakesAt
<1> QED BY <1>2, <1>4, <1>5 DEF CutsAt

(* The loop drops a front, and then stops or takes a packet.                  *)
LEMMA CutCases == \A buf \in Stream : \E k \in 0 .. Len(buf) : Skips(buf, k) /\ CutsAt(buf, k)
<1> DEFINE good(buf) == \E k \in 0 .. Len(buf) : Skips(buf, k) /\ CutsAt(buf, k)
           bad == {buf \in Stream : ~good(buf)}
<1>1. SUFFICES ASSUME bad # {} PROVE FALSE
  OBVIOUS
<1>2. PICK buf \in bad : \A t \in Stream : Len(t) < Len(buf) => t \notin bad
  <2>1. bad \subseteq Stream
    OBVIOUS
  <2> HIDE DEF bad
  <2> QED BY <1>1, <2>1, ShortestStream
<1>3. /\ buf \in Stream /\ \A k \in 0 .. Len(buf) : ~(Skips(buf, k) /\ CutsAt(buf, k))
      /\ \A t \in Stream : Len(t) < Len(buf)
           => \E k \in 0 .. Len(t) : Skips(t, k) /\ CutsAt(t, k)
  BY <1>2
<1> HIDE DEF bad, good
<1>4. PICK k \in 0 .. Len(buf) :
        /\ Synced(buf) = Rest(buf, k)
        /\ k < Len(buf) => buf[k + 1].part = "magic"
        /\ \A i \in 1 .. k : buf[i].part # "magic"
  BY <1>3, Syncing
<1>5. Skips(buf, k)
  BY <1>4 DEF Skips
<1> DEFINE b == Rest(buf, k)
<1>6. /\ b \in Stream /\ Len(b) = Len(buf) - k /\ Len(buf) \in Nat /\ k \in Nat
      /\ \A i \in 1 .. Len(buf) - k : b[i] = buf[k + i]
  BY <1>3, RestOf, StreamSeq
<1>7. Cut[buf] = CutBy(Cut, buf)
  BY <1>3, CutStep
<1>8. CASE Len(b) < 3 \/ (~Abnormal(b) /\ Len(b) < Length(b))
  <2>1. Cut[buf] = [rest |-> b, found |-> <<>>]
    BY <1>4, <1>7, <1>8 DEF CutBy
  <2>2. b = <<>> \/ b[1].part = "magic"
    <3>1. CASE k < Len(buf)
      <4>1. 1 \in 1 .. Len(buf) - k
        BY <1>6, <3>1
      <4> QED BY <1>4, <1>6, <3>1, <4>1
    <3>2. CASE ~(k < Len(buf))
      <4>1. Len(b) = 0
        BY <1>6, <3>2
      <4> HIDE DEF b
      <4> QED BY <1>6, <4>1 DEF Stream
    <3> QED BY <3>1, <3>2
  <2>3. Stuck(b)
    BY <1>8, <2>2 DEF Stuck
  <2> QED BY <1>3, <1>5, <2>1, <2>3 DEF CutsAt
<1>9. CASE ~(Len(b) < 3) /\ Abnormal(b)
  <2> DEFINE d == k + 1
             t == Rest(buf, d)
  <2>1. d \in 0 .. Len(buf) /\ 1 \in 0 .. Len(buf) - k /\ k + 3 <= Len(buf)
    <3> HIDE DEF b
    <3> QED BY <1>6, <1>9
  <2>2. Rest(b, 1) = t
    BY <1>3, <2>1, RestOfRest
  <2>3. Cut[buf] = Cut[t]
    <3>1. Cut[buf] = Cut[Rest(b, 1)]
      BY <1>4, <1>7, <1>9 DEF CutBy, Rest
    <3> QED BY <2>2, <3>1
  <2>4. /\ t \in Stream /\ Len(t) = Len(buf) - d
        /\ \A i \in 1 .. Len(buf) - d : t[i] = buf[d + i]
    BY <1>3, <2>1, RestOf
  <2>5. Len(t) < Len(buf)
    BY <1>6, <2>4
  <2> HIDE DEF t
  <2>6. PICK j \in 0 .. Len(t) : Skips(t, j) /\ CutsAt(t, j)
    BY <1>3, <2>4, <2>5
  <2>7. d + j \in 0 .. Len(buf) /\ CutsAt(buf, d + j)
    BY <1>3, <2>1, <2>3, <2>6, CutsBehind DEF t
  <2>8. Skips(buf, d + j)
    <3> SUFFICES ASSUME NEW i \in 1 .. d + j, buf[i].part = "magic"
                 PROVE  /\ i + 2 <= Len(buf) /\ buf[i + 1].part = "id"
                        /\ buf[i + 2].part # "sizes"
      BY DEF Skips
    <3>1. i \in Nat /\ j \in Nat /\ d \in Nat
      BY <1>6, <2>4
    <3>2. CASE i <= k
      BY <1>4, <1>6, <3>1, <3>2
    <3>3. CASE i = k + 1
      <4>1. b[2] = buf[k + 2] /\ b[3] = buf[k + 3]
        <5>1. 2 \in 1 .. Len(buf) - k /\ 3 \in 1 .. Len(buf) - k
          BY <1>6, <2>1
        <5> QED BY <1>6, <5>1
      <4>2. b[2].part = "id" /\ b[3].part # "sizes"
        BY <1>9 DEF Abnormal
      <4>3. i + 1 = k + 2 /\ i + 2 = k + 3
        BY <1>6, <3>3
      <4> HIDE DEF b
      <4> QED BY <2>1, <4>1, <4>2, <4>3
    <3>4. CASE i > k + 1
      <4>1. PICK h \in 1 .. j : i = d + h
        <5>1. i - d \in 1 .. j /\ i = d + (i - d)
          BY <1>6, <3>1, <3>4
        <5> QED BY <5>1
      <4>2. h \in 1 .. Len(buf) - d /\ t[h] = buf[i]
        BY <1>6, <2>4, <4>1
      <4>3. h + 2 <= Len(t) /\ t[h + 1].part = "id" /\ t[h + 2].part # "sizes"
        BY <2>6, <4>1, <4>2 DEF Skips
      <4>4. /\ h + 1 \in 1 .. Len(buf) - d /\ h + 2 \in 1 .. Len(buf) - d
            /\ d + (h + 1) = i + 1 /\ d + (h + 2) = i + 2 /\ i + 2 <= Len(buf)
        BY <1>6, <2>4, <3>1, <4>1, <4>3
      <4>5. t[h + 1] = buf[d + (h + 1)] /\ t[h + 2] = buf[d + (h + 2)]
        BY <2>4, <4>4
      <4>6. buf[i + 1].part = "id" /\ buf[i + 2].part # "sizes"
        <5> HIDE DEF d
        <5> QED BY <4>3, <4>4, <4>5
      <4> QED BY <4>4, <4>6
    <3> QED BY <1>6, <3>1, <3>2, <3>3, <3>4
  <2> QED BY <1>3, <2>7, <2>8
<1>10. CASE ~(Len(b) < 3) /\ ~Abnormal(b) /\ ~(Len(b) < Length(b))
  <2> DEFINE n == Length(b)
  <2>1. n \in 4 .. 5 /\ n <= Len(buf) - k /\ k < Len(buf)
    <3> HIDE DEF b
    <3>1. Length(b) \in 4 .. 5
      BY <1>6, <1>10, PacketLength
    <3> QED BY <1>6, <1>10, <3>1
  <2>2. Rest(b, n) = Rest(buf, k + n)
    <3> HIDE DEF n
    <3>1. n \in 0 .. Len(buf) - k
      BY <1>6, <2>1
    <3> QED BY <1>3, <3>1, RestOfRest
  <2>3. Cut[buf] = [rest  |-> Cut[Rest(b, n)].rest,
                    found |-> <<Taken(SubSeq(b, 1, n))>> \o Cut[Rest(b, n)].found]
    BY <1>4, <1>7, <1>10 DEF CutBy, Taken, Rest
  <2>4. TakesAt(buf, k, n)
    BY <1>4, <2>1, <2>2, <2>3 DEF TakesAt
  <2> QED BY <1>3, <1>5, <2>1, <2>4 DEF CutsAt
<1> QED BY <1>8, <1>9, <1>10

-----------------------------------------------------------------------------
(* What can be delivered: a packet, or the mixture of two.                    *)
Results == {<<>>} \cup {<<packet>> : packet \in Packets}

(* Result r of the loop on buf: k units are consumed, and the packet of each  *)
(* result begins at a magic number among them, in the order of the results.   *)
ShownAt(buf, r, k, at) ==
  /\ r.rest = Rest(buf, k)
  /\ \A i \in 1 .. Len(r.found) :
       \/ r.found[i] = Mixture
       \/ /\ buf[at[i]].part = "magic"
          /\ r.found[i] = <<buf[at[i]].of>>
  /\ \A i, j \in 1 .. Len(r.found) : i < j => at[i] < at[j]

Shows(buf, r) ==
  /\ r.found \in Seq(Results)
  /\ \E k \in 0 .. Len(buf) : \E at \in [1 .. Len(r.found) -> 1 .. k] : ShownAt(buf, r, k, at)

(* A packet cut out of the stream is the packet of its magic number or a      *)
(* mixture.                                                                   *)
LEMMA TakenResult ==
  ASSUME NEW buf \in Stream, NEW k \in 0 .. Len(buf), NEW n \in 4 .. 5, n <= Len(buf) - k
  PROVE  LET taken == Taken(SubSeq(Rest(buf, k), 1, n))
         IN  taken \in Results /\ (taken = Mixture \/ taken = <<buf[k + 1].of>>)
<1>1. /\ Rest(buf, k) \in Stream /\ Len(Rest(buf, k)) = Len(buf) - k /\ Len(buf) \in Nat
      /\ \A i \in 1 .. Len(buf) - k : Rest(buf, k)[i] = buf[k + i]
  BY RestOf, StreamSeq
<1>2. SubSeq(Rest(buf, k), 1, n)[1] = buf[k + 1] /\ buf[k + 1] \in Unit
  <2>1. \A i \in 1 .. n : Rest(buf, k)[i] \in Unit
    BY <1>1, StreamSeq
  <2>2. \A i \in 1 .. (n - 1 + 1) : SubSeq(Rest(buf, k), 1, n)[i] = Rest(buf, k)[1 + i - 1]
    BY <2>1, SubSeqProperties
  <2>3. 1 \in 1 .. (n - 1 + 1) /\ 1 \in 1 .. Len(buf) - k /\ 1 + 1 - 1 = 1 /\ k + 1 \in 1 .. Len(buf)
    BY <1>1
  <2>4. SubSeq(Rest(buf, k), 1, n)[1] = Rest(buf, k)[1]
    BY <2>2, <2>3
  <2> QED BY <1>1, <2>3, <2>4, StreamSeq
<1>3. buf[k + 1].of \in Packets
  BY <1>2 DEF Unit
<1> QED BY <1>2, <1>3 DEF Taken, Results, Mixture

(* The packets that the loop finds begin at magic numbers of the stream, in   *)
(* the order of the stream, and what it leaves is an end of the stream.       *)
LEMMA CutShows == \A buf \in Stream : Shows(buf, Cut[buf])
<1> DEFINE bad == {buf \in Stream : ~Shows(buf, Cut[buf])}
<1>1. SUFFICES ASSUME bad # {} PROVE FALSE
  OBVIOUS
<1>2. PICK buf \in bad : \A t \in Stream : Len(t) < Len(buf) => t \notin bad
  <2>1. bad \subseteq Stream
    OBVIOUS
  <2> HIDE DEF bad
  <2> QED BY <1>1, <2>1, ShortestStream
<1>3. /\ buf \in Stream /\ ~Shows(buf, Cut[buf])
      /\ \A t \in Stream : Len(t) < Len(buf) => Shows(t, Cut[t])
  BY <1>2
<1> HIDE DEF bad
<1>4. PICK k \in 0 .. Len(buf) :
        \/ Cut[buf] = [rest |-> Rest(buf, k), found |-> <<>>]
        \/ \E n \in 4 .. 5 :
             /\ n <= Len(buf) - k
             /\ buf[k + 1].part = "magic"
             /\ Cut[buf] = [rest  |-> Cut[Rest(buf, k + n)].rest,
                            found |-> <<Taken(SubSeq(Rest(buf, k), 1, n))>>
                                        \o Cut[Rest(buf, k + n)].found]
  BY <1>3, CutCases DEF CutsAt, TakesAt
<1>5. Len(buf) \in Nat /\ k \in Nat /\ k <= Len(buf)
  BY <1>3, StreamSeq
<1>6. CASE Cut[buf] = [rest |-> Rest(buf, k), found |-> <<>>]
  <2>1. Cut[buf].rest = Rest(buf, k) /\ Cut[buf].found = <<>> /\ Len(Cut[buf].found) = 0
    BY <1>6
  <2>2. [i \in 1 .. 0 |-> 1] \in [1 .. Len(Cut[buf].found) -> 1 .. k]
    BY <2>1
  <2>3. ShownAt(buf, Cut[buf], k, [i \in 1 .. 0 |-> 1])
    BY <2>1 DEF ShownAt
  <2>4. Cut[buf].found \in Seq(Results)
    BY <2>1
  <2> QED BY <1>3, <2>2, <2>3, <2>4 DEF Shows
<1>7. ASSUME NEW n \in 4 .. 5, n <= Len(buf) - k, buf[k + 1].part = "magic",
             Cut[buf] = [rest  |-> Cut[Rest(buf, k + n)].rest,
                         found |-> <<Taken(SubSeq(Rest(buf, k), 1, n))>>
                                     \o Cut[Rest(buf, k + n)].found]
      PROVE  FALSE
  <2> DEFINE t == Rest(buf, k + n)
             x == Taken(SubSeq(Rest(buf, k), 1, n))
             r == Cut[t]
  <2>1. /\ t \in Stream /\ Len(t) = Len(buf) - (k + n)
        /\ \A i \in 1 .. Len(buf) - (k + n) : t[i] = buf[(k + n) + i]
    <3>1. k + n \in 0 .. Len(buf)
      BY <1>5, <1>7
    <3> QED BY <1>3, <3>1, RestOf
  <2>2. Len(t) < Len(buf)
    BY <1>5, <2>1
  <2>3. r.found \in Seq(Results)
    BY <1>3, <2>1, <2>2 DEF Shows
  <2>4. PICK m \in 0 .. Len(t) : \E at \in [1 .. Len(r.found) -> 1 .. m] : ShownAt(t, r, m, at)
    <3> HIDE DEF t
    <3> QED BY <1>3, <2>1, <2>2 DEF Shows
  <2>13. PICK at \in [1 .. Len(r.found) -> 1 .. m] : ShownAt(t, r, m, at)
    BY <2>4
  <2>5. x \in Results /\ (x = Mixture \/ x = <<buf[k + 1].of>>)
    BY <1>3, <1>7, TakenResult
  <2> HIDE DEF x
  <2>6. /\ Cut[buf].found = <<x>> \o r.found /\ Cut[buf].rest = r.rest
        /\ <<x>> \o r.found \in Seq(Results) /\ Len(r.found) \in Nat
        /\ Len(<<x>> \o r.found) = 1 + Len(r.found)
        /\ \A i \in 1 .. 1 + Len(r.found) :
             (<<x>> \o r.found)[i] = IF i = 1 THEN x ELSE r.found[i - 1]
    <3>1. Cut[buf].found = <<x>> \o r.found /\ Cut[buf].rest = r.rest
      BY <1>7 DEF x
    <3>2. <<x>> \in Seq(Results) /\ Len(<<x>>) = 1 /\ <<x>>[1] = x
      BY <2>5
    <3> HIDE DEF r
    <3>3. /\ <<x>> \o r.found \in Seq(Results)
          /\ Len(<<x>> \o r.found) = Len(<<x>>) + Len(r.found)
          /\ \A i \in 1 .. Len(<<x>>) + Len(r.found) :
               (<<x>> \o r.found)[i] = IF i <= Len(<<x>>) THEN <<x>>[i] ELSE r.found[i - Len(<<x>>)]
      BY <2>3, <3>2, ConcatProperties
    <3>4. Len(r.found) \in Nat
      BY <2>3
    <3> QED BY <3>1, <3>2, <3>3, <3>4
  <2> HIDE DEF t, r
  <2> DEFINE at2 == [i \in 1 .. 1 + Len(r.found) |-> IF i = 1 THEN k + 1 ELSE k + n + at[i - 1]]
  <2>7. r.rest = Rest(buf, k + n + m) /\ k + n + m \in 0 .. Len(buf) /\ m \in Nat
    <3>1. k + n \in 0 .. Len(buf) /\ m \in 0 .. Len(buf) - (k + n) /\ m \in Nat
      BY <1>5, <1>7, <2>1
    <3>2. Rest(Rest(buf, k + n), m) = Rest(buf, (k + n) + m)
      BY <1>3, <3>1, RestOfRest
    <3> QED BY <1>5, <2>13, <3>1, <3>2 DEF t, ShownAt
  <2>8. ASSUME NEW i \in 1 .. 1 + Len(r.found), i # 1
        PROVE  /\ i - 1 \in 1 .. Len(r.found) /\ at[i - 1] \in 1 .. m
               /\ t[at[i - 1]] = buf[k + n + at[i - 1]]
    <3>1. i - 1 \in 1 .. Len(r.found)
      BY <2>6, <2>8
    <3>2. at[i - 1] \in 1 .. m
      BY <3>1
    <3>3. m <= Len(buf) - (k + n) /\ m \in Nat
      BY <2>1, <2>7
    <3>4. at[i - 1] \in 1 .. Len(buf) - (k + n)
      BY <3>2, <3>3
    <3>5. (k + n) + at[i - 1] = k + n + at[i - 1]
      BY <1>5, <2>7, <3>2
    <3> QED BY <2>1, <3>1, <3>2, <3>4, <3>5
  <2>9. at2 \in [1 .. 1 + Len(r.found) -> 1 .. (k + n + m)]
    BY <1>5, <2>7, <2>8
  <2>10. ASSUME NEW i \in 1 .. 1 + Len(r.found)
         PROVE  \/ (<<x>> \o r.found)[i] = Mixture
                \/ /\ buf[at2[i]].part = "magic"
                   /\ (<<x>> \o r.found)[i] = <<buf[at2[i]].of>>
    <3>1. CASE i = 1
      BY <1>7, <2>5, <2>6, <3>1
    <3>2. CASE i # 1
      BY <2>6, <2>8, <2>13, <3>2 DEF ShownAt
    <3> QED BY <3>1, <3>2
  <2>11. ASSUME NEW i \in 1 .. 1 + Len(r.found), NEW j \in 1 .. 1 + Len(r.found), i < j
         PROVE  at2[i] < at2[j]
    <3>1. j # 1 /\ at[j - 1] \in Nat /\ at[j - 1] >= 1
      BY <2>8, <2>11, <2>7
    <3>2. CASE i = 1
      BY <1>5, <3>1, <3>2
    <3>3. CASE i # 1
      <4>1. i - 1 \in 1 .. Len(r.found) /\ j - 1 \in 1 .. Len(r.found) /\ i - 1 < j - 1
        BY <2>8, <2>11, <3>1, <3>3
      <4>2. at[i - 1] < at[j - 1] /\ at[i - 1] \in Nat
        <5>1. at[i - 1] < at[j - 1]
          BY <2>13, <4>1 DEF ShownAt
        <5>2. at[i - 1] \in 1 .. m
          BY <4>1
        <5> QED BY <2>7, <5>1, <5>2
      <4> QED BY <1>5, <3>1, <3>3, <4>2
    <3> QED BY <3>2, <3>3
  <2> HIDE DEF at2
  <2>14. ShownAt(buf, Cut[buf], k + n + m, at2)
    BY <2>6, <2>7, <2>10, <2>11 DEF ShownAt
  <2>12. Shows(buf, Cut[buf])
    BY <2>6, <2>7, <2>9, <2>14 DEF Shows
  <2> QED BY <1>3, <2>12
<1> QED BY <1>4, <1>6, <1>7

-----------------------------------------------------------------------------
(* The loop goes on until it is stuck.                                        *)
LEMMA CutStuck == \A buf \in Stream : Stuck(Cut[buf].rest)
<1> DEFINE bad == {buf \in Stream : ~Stuck(Cut[buf].rest)}
<1>1. SUFFICES ASSUME bad # {} PROVE FALSE
  OBVIOUS
<1>2. PICK buf \in bad : \A t \in Stream : Len(t) < Len(buf) => t \notin bad
  <2>1. bad \subseteq Stream
    OBVIOUS
  <2> HIDE DEF bad
  <2> QED BY <1>1, <2>1, ShortestStream
<1>3. /\ buf \in Stream /\ ~Stuck(Cut[buf].rest)
      /\ \A t \in Stream : Len(t) < Len(buf) => Stuck(Cut[t].rest)
  BY <1>2
<1> HIDE DEF bad
<1>4. PICK k \in 0 .. Len(buf) :
        \/ Cut[buf] = [rest |-> Rest(buf, k), found |-> <<>>] /\ Stuck(Rest(buf, k))
        \/ \E n \in 4 .. 5 : n <= Len(buf) - k /\ Cut[buf].rest = Cut[Rest(buf, k + n)].rest
  <2>1. PICK k \in 0 .. Len(buf) :
          \/ Cut[buf] = [rest |-> Rest(buf, k), found |-> <<>>] /\ Stuck(Rest(buf, k))
          \/ \E n \in 4 .. 5 :
               /\ n <= Len(buf) - k
               /\ Cut[buf] = [rest  |-> Cut[Rest(buf, k + n)].rest,
                              found |-> <<Taken(SubSeq(Rest(buf, k), 1, n))>>
                                          \o Cut[Rest(buf, k + n)].found]
    BY <1>3, CutCases DEF CutsAt, TakesAt
  <2>2. ASSUME NEW n \in 4 .. 5,
               Cut[buf] = [rest  |-> Cut[Rest(buf, k + n)].rest,
                           found |-> <<Taken(SubSeq(Rest(buf, k), 1, n))>>
                                       \o Cut[Rest(buf, k + n)].found]
        PROVE  Cut[buf].rest = Cut[Rest(buf, k + n)].rest
    BY <2>2
  <2> QED BY <2>1, <2>2
<1>5. ASSUME NEW n \in 4 .. 5, n <= Len(buf) - k, Cut[buf].rest = Cut[Rest(buf, k + n)].rest
      PROVE  FALSE
  <2>1. k + n \in 0 .. Len(buf) /\ Len(buf) - (k + n) < Len(buf)
    BY <1>3, <1>5, StreamSeq
  <2>2. Rest(buf, k + n) \in Stream /\ Len(Rest(buf, k + n)) = Len(buf) - (k + n)
    BY <1>3, <2>1, RestOf
  <2> QED BY <1>3, <1>5, <2>1, <2>2
<1> QED BY <1>3, <1>4, <1>5

-----------------------------------------------------------------------------
(* The last unit of a packet, which unit follows which in what the server     *)
(* sends, and the streams that are made of packets sent whole: a first packet *)
(* may have lost its front (Chained), and the last one is complete (Whole).   *)
Ends(u) == u.part = IF u.of.from = "main" THEN "json" ELSE "image"
NextPart == [magic |-> "id", id |-> "sizes", sizes |-> "json", json |-> "image"]
Follows(u, v) ==
  IF Ends(u) THEN v.part = "magic" ELSE v = [part |-> NextPart[u.part], of |-> u.of]
Chained(s) == \A i \in 1 .. Len(s) - 1 : Follows(s[i], s[i + 1])
Whole(s) == Chained(s) /\ (s # <<>> => Ends(s[Len(s)]))

(* An end of a chained stream is chained.                                     *)
LEMMA ChainedRest ==
  ASSUME NEW s \in Stream, NEW k \in 0 .. Len(s), Chained(s)
  PROVE  Chained(Rest(s, k))
<1>1. /\ Len(s) \in Nat /\ k \in Nat /\ Len(Rest(s, k)) = Len(s) - k
      /\ \A i \in 1 .. Len(s) - k : Rest(s, k)[i] = s[k + i]
  BY RestOf, StreamSeq
<1>2. ASSUME NEW i \in 1 .. Len(s) - k - 1 PROVE Follows(Rest(s, k)[i], Rest(s, k)[i + 1])
  <2>1. i \in 1 .. Len(s) - k /\ i + 1 \in 1 .. Len(s) - k /\ k + i \in 1 .. Len(s) - 1
        /\ k + (i + 1) = (k + i) + 1
    BY <1>1
  <2>2. Follows(s[k + i], s[(k + i) + 1])
    BY <2>1 DEF Chained
  <2> QED BY <1>1, <2>1, <2>2
<1> QED BY <1>1, <1>2 DEF Chained

(* The five units of a packet with a picture.                                 *)
LEMMA PictureUnits ==
  ASSUME NEW p \in Packets, p.from # "main"
  PROVE  Units(p) = <<[part |-> "magic", of |-> p], [part |-> "id", of |-> p],
                      [part |-> "sizes", of |-> p], [part |-> "json", of |-> p],
                      [part |-> "image", of |-> p]>>
<1> DEFINE a == <<[part |-> "magic", of |-> p], [part |-> "id", of |-> p],
                  [part |-> "sizes", of |-> p], [part |-> "json", of |-> p]>>
           b == <<[part |-> "image", of |-> p]>>
           c == <<[part |-> "magic", of |-> p], [part |-> "id", of |-> p],
                  [part |-> "sizes", of |-> p], [part |-> "json", of |-> p],
                  [part |-> "image", of |-> p]>>
<1>1. Units(p) = a \o b
  BY DEF Units
<1>2. a \in Seq(Unit) /\ Len(a) = 4 /\ b \in Seq(Unit) /\ Len(b) = 1
      /\ c \in Seq(Unit) /\ Len(c) = 5
  BY DEF Unit
<1>3. c[1] = a[1] /\ c[2] = a[2] /\ c[3] = a[3] /\ c[4] = a[4] /\ c[5] = b[1]
  OBVIOUS
<1> HIDE DEF a, b, c
<1>4. /\ a \o b \in Seq(Unit) /\ Len(a \o b) = Len(a) + Len(b)
      /\ \A i \in 1 .. Len(a) + Len(b) : (a \o b)[i] = IF i <= Len(a) THEN a[i] ELSE b[i - Len(a)]
  BY <1>2, ConcatProperties
<1>5. ASSUME NEW i \in 1 .. 5 PROVE (a \o b)[i] = c[i]
  <2>1. i = 1 \/ i = 2 \/ i = 3 \/ i = 4 \/ i = 5
    OBVIOUS
  <2> QED BY <1>2, <1>3, <1>4, <2>1
<1>6. Len(a \o b) = 5 /\ Len(c) = 5
  BY <1>2, <1>4
<1>7. a \o b = c
  BY <1>2, <1>4, <1>5, <1>6, SeqEqual
<1> QED BY <1>1, <1>7 DEF c

(* In a chained stream the packet at a magic number is whole.                 *)
LEMMA WholePacket ==
  ASSUME NEW b \in Stream, Chained(b), b[1].part = "magic", Len(b) >= 3, Length(b) <= Len(b)
  PROVE  IsWhole(SubSeq(b, 1, Length(b)))
<1> DEFINE p == b[1].of
           n == Length(b)
<1>1. Len(b) \in Nat /\ n \in 4 .. 5 /\ b[1] \in Unit /\ p \in Packets
  BY PacketLength, StreamSeq DEF Unit
<1>2. b[1] = [part |-> "magic", of |-> p]
  BY <1>1 DEF Unit
<1>3. b[2] = [part |-> "id", of |-> p]
  <2>1. Follows(b[1], b[1 + 1])
    BY <1>1 DEF Chained
  <2>2. ~Ends(b[1])
    BY DEF Ends
  <2> QED BY <2>1, <2>2 DEF Follows, NextPart
<1>9. b[3] = [part |-> "sizes", of |-> p]
  <2>1. Follows(b[2], b[2 + 1])
    BY <1>1 DEF Chained
  <2>2. ~Ends(b[2])
    BY <1>3 DEF Ends
  <2> QED BY <1>3, <2>1, <2>2 DEF Follows, NextPart
<1>4. b[4] = [part |-> "json", of |-> p]
  <2>1. Follows(b[3], b[3 + 1])
    BY <1>1 DEF Chained
  <2>2. ~Ends(b[3])
    BY <1>9 DEF Ends
  <2> QED BY <1>9, <2>1, <2>2 DEF Follows, NextPart
<1>5. n = Len(Units(p))
  BY <1>3 DEF Length
<1>6. SubSeq(b, 1, n) \in Seq(Unit) /\ Len(SubSeq(b, 1, n)) = n
      /\ \A i \in 1 .. n : SubSeq(b, 1, n)[i] = b[i]
  <2>1. \A i \in 1 .. n : b[i] \in Unit
    BY <1>1, StreamSeq
  <2> HIDE DEF n
  <2>2. /\ SubSeq(b, 1, n) \in Seq(Unit)
        /\ Len(SubSeq(b, 1, n)) = IF 1 <= n THEN n - 1 + 1 ELSE 0
        /\ \A i \in 1 .. (n - 1 + 1) : SubSeq(b, 1, n)[i] = b[1 + i - 1]
    BY <1>1, <2>1, SubSeqProperties
  <2> QED BY <1>1, <2>2
<1> HIDE DEF p
<1>7. SubSeq(b, 1, n) = Units(p)
  <2>1. CASE p.from = "main"
    <3>1. Units(p) = <<[part |-> "magic", of |-> p], [part |-> "id", of |-> p],
                       [part |-> "sizes", of |-> p], [part |-> "json", of |-> p]>>
      BY <2>1 DEF Units
    <3>2. n = 4
      BY <1>5, <3>1
    <3> HIDE DEF n
    <3>3. ASSUME NEW i \in 1 .. 4 PROVE SubSeq(b, 1, n)[i] = Units(p)[i]
      <4>1. SubSeq(b, 1, n)[i] = b[i]
        BY <1>6, <3>2
      <4>2. i = 1 \/ i = 2 \/ i = 3 \/ i = 4
        OBVIOUS
      <4>3. b[1] = Units(p)[1] /\ b[2] = Units(p)[2] /\ b[3] = Units(p)[3] /\ b[4] = Units(p)[4]
        BY <1>2, <1>3, <1>4, <1>9, <3>1
      <4> QED BY <4>1, <4>2, <4>3
    <3>4. Units(p) \in Seq(Unit) /\ Len(Units(p)) = 4
      BY <1>1, <3>1 DEF Unit
    <3> QED BY <1>6, <3>2, <3>3, <3>4, SeqEqual
  <2>2. CASE p.from # "main"
    <3>1. Units(p) = <<[part |-> "magic", of |-> p], [part |-> "id", of |-> p],
                       [part |-> "sizes", of |-> p], [part |-> "json", of |-> p],
                       [part |-> "image", of |-> p]>>
      BY <1>1, <2>2, PictureUnits
    <3>2. n = 5
      BY <1>5, <3>1
    <3>3. b[5] = [part |-> "image", of |-> p]
      <4>1. Follows(b[4], b[4 + 1])
        BY <1>1, <3>2 DEF Chained
      <4>2. ~Ends(b[4])
        BY <1>4, <2>2 DEF Ends
      <4> QED BY <1>4, <4>1, <4>2 DEF Follows, NextPart
    <3> HIDE DEF n
    <3>4. ASSUME NEW i \in 1 .. 5 PROVE SubSeq(b, 1, n)[i] = Units(p)[i]
      <4>1. SubSeq(b, 1, n)[i] = b[i]
        BY <1>6, <3>2
      <4>2. i = 1 \/ i = 2 \/ i = 3 \/ i = 4 \/ i = 5
        OBVIOUS
      <4>3. /\ b[1] = Units(p)[1] /\ b[2] = Units(p)[2] /\ b[3] = Units(p)[3] /\ b[4] = Units(p)[4]
            /\ b[5] = Units(p)[5]
        BY <1>2, <1>3, <1>4, <1>9, <3>1, <3>3
      <4> QED BY <4>1, <4>2, <4>3
    <3>5. Units(p) \in Seq(Unit) /\ Len(Units(p)) = 5
      BY <1>1, <3>1 DEF Unit
    <3> QED BY <1>6, <3>2, <3>4, <3>5, SeqEqual
  <2> QED BY <2>1, <2>2
<1>8. SubSeq(b, 1, n)[1].of = p
  BY <1>1, <1>6 DEF p
<1> QED BY <1>7, <1>8 DEF IsWhole

NoMixture(found) == \A i \in 1 .. Len(found) : found[i] # Mixture

(* One packet more in front.                                                  *)
LEMMA OneMore ==
  ASSUME NEW x \in Results, NEW found \in Seq(Results)
  PROVE  /\ Len(<<x>> \o found) = 1 + Len(found) /\ Len(found) \in Nat
         /\ (<<x>> \o found)[1] = x
         /\ \A i \in 1 .. Len(found) : (<<x>> \o found)[i + 1] = found[i]
         /\ \A i \in 2 .. 1 + Len(found) : i - 1 \in 1 .. Len(found)
                                          /\ (<<x>> \o found)[i] = found[i - 1]
<1>1. <<x>> \in Seq(Results) /\ Len(<<x>>) = 1 /\ <<x>>[1] = x /\ Len(found) \in Nat
  OBVIOUS
<1>2. /\ Len(<<x>> \o found) = Len(<<x>>) + Len(found)
      /\ \A i \in 1 .. Len(<<x>>) + Len(found) :
           (<<x>> \o found)[i] = IF i <= Len(<<x>>) THEN <<x>>[i] ELSE found[i - Len(<<x>>)]
  BY <1>1, ConcatProperties
<1> QED BY <1>1, <1>2

(* No mixture is cut out of a chained stream.                                 *)
LEMMA CutWhole == \A buf \in Stream : Chained(buf) => NoMixture(Cut[buf].found)
<1> DEFINE bad == {buf \in Stream : Chained(buf) /\ ~NoMixture(Cut[buf].found)}
<1>1. SUFFICES ASSUME bad # {} PROVE FALSE
  OBVIOUS
<1>2. PICK buf \in bad : \A t \in Stream : Len(t) < Len(buf) => t \notin bad
  <2>1. bad \subseteq Stream
    OBVIOUS
  <2> HIDE DEF bad
  <2> QED BY <1>1, <2>1, ShortestStream
<1>3. /\ buf \in Stream /\ Chained(buf) /\ ~NoMixture(Cut[buf].found)
      /\ \A t \in Stream : Len(t) < Len(buf) /\ Chained(t) => NoMixture(Cut[t].found)
  BY <1>2
<1> HIDE DEF bad
<1>4. PICK k \in 0 .. Len(buf) :
        \/ Cut[buf] = [rest |-> Rest(buf, k), found |-> <<>>]
        \/ \E n \in 4 .. 5 :
             /\ n <= Len(buf) - k /\ n = Length(Rest(buf, k))
             /\ buf[k + 1].part = "magic"
             /\ Cut[buf] = [rest  |-> Cut[Rest(buf, k + n)].rest,
                            found |-> <<Taken(SubSeq(Rest(buf, k), 1, n))>>
                                        \o Cut[Rest(buf, k + n)].found]
  BY <1>3, CutCases DEF CutsAt, TakesAt
<1>5. Len(buf) \in Nat /\ k \in Nat /\ k <= Len(buf)
  BY <1>3, StreamSeq
<1>6. CASE Cut[buf] = [rest |-> Rest(buf, k), found |-> <<>>]
  BY <1>3, <1>6 DEF NoMixture
<1>7. ASSUME NEW n \in 4 .. 5, n <= Len(buf) - k, n = Length(Rest(buf, k)),
             buf[k + 1].part = "magic",
             Cut[buf] = [rest  |-> Cut[Rest(buf, k + n)].rest,
                         found |-> <<Taken(SubSeq(Rest(buf, k), 1, n))>>
                                     \o Cut[Rest(buf, k + n)].found]
      PROVE  FALSE
  <2> DEFINE b == Rest(buf, k)
             t == Rest(buf, k + n)
             x == Taken(SubSeq(b, 1, n))
             found == Cut[t].found
  <2>1. k + n \in 0 .. Len(buf) /\ Len(buf) - (k + n) < Len(buf)
    BY <1>5, <1>7
  <2>2. t \in Stream /\ Len(t) = Len(buf) - (k + n) /\ Chained(t)
    BY <1>3, <2>1, RestOf, ChainedRest
  <2>3. b \in Stream /\ Len(b) = Len(buf) - k /\ b[1] = buf[k + 1] /\ Chained(b)
    <3>1. b \in Stream /\ Len(b) = Len(buf) - k /\ Chained(b)
          /\ \A i \in 1 .. Len(buf) - k : b[i] = buf[k + i]
      BY <1>3, RestOf, ChainedRest
    <3>2. 1 \in 1 .. Len(buf) - k
      BY <1>5, <1>7
    <3> QED BY <3>1, <3>2
  <2>4. NoMixture(found)
    BY <1>3, <2>1, <2>2
  <2>5. IsWhole(SubSeq(b, 1, n))
    <3> HIDE DEF b
    <3>1. b[1].part = "magic" /\ Len(b) >= 3 /\ Length(b) <= Len(b) /\ n = Length(b)
      BY <1>5, <1>7, <2>3 DEF b
    <3> QED BY <2>3, <3>1, WholePacket
  <2>6. x # Mixture /\ x \in Results /\ found \in Seq(Results)
    <3>1. x \in Results
      BY <1>3, <1>7, TakenResult
    <3>2. found \in Seq(Results)
      BY <2>2, CutShows DEF Shows
    <3>3. x # Mixture
      BY <2>5 DEF Taken, Mixture
    <3> QED BY <3>1, <3>2, <3>3
  <2>7. Cut[buf].found = <<x>> \o found
    BY <1>7
  <2> HIDE DEF x, found
  <2>8. NoMixture(<<x>> \o found)
    <3> SUFFICES ASSUME NEW i \in 1 .. Len(<<x>> \o found) PROVE (<<x>> \o found)[i] # Mixture
      BY DEF NoMixture
    <3>1. CASE i = 1
      BY <2>6, <3>1, OneMore
    <3>2. CASE i # 1
      <4>1. i \in 2 .. 1 + Len(found)
        BY <2>6, <3>2, OneMore
      <4>2. i - 1 \in 1 .. Len(found) /\ (<<x>> \o found)[i] = found[i - 1]
        BY <2>6, <4>1, OneMore
      <4> QED BY <2>4, <4>2 DEF NoMixture
    <3> QED BY <3>1, <3>2
  <2> QED BY <1>3, <2>7, <2>8
<1> QED BY <1>4, <1>6, <1>7

-----------------------------------------------------------------------------
(* The first n units of a stream.                                             *)
First(s, n) == SubSeq(s, 1, n)

(* Two streams after each other are a stream.                                 *)
LEMMA Joining ==
  ASSUME NEW a \in Stream, NEW b \in Stream
  PROVE  /\ a \o b \in Stream /\ Len(a \o b) = Len(a) + Len(b)
         /\ \A i \in 1 .. Len(a) : (a \o b)[i] = a[i]
         /\ \A i \in 1 .. Len(b) : (a \o b)[Len(a) + i] = b[i]
<1>1. a \in Seq(Unit) /\ b \in Seq(Unit) /\ Len(a) \in Nat /\ Len(b) \in Nat
  BY StreamSeq DEF Stream, Unit
<1>2. /\ a \o b \in Seq(Unit) /\ Len(a \o b) = Len(a) + Len(b)
      /\ \A i \in 1 .. Len(a) + Len(b) :
           (a \o b)[i] = IF i <= Len(a) THEN a[i] ELSE b[i - Len(a)]
  BY <1>1, ConcatProperties
<1>3. ASSUME NEW i \in 1 .. Len(a) PROVE (a \o b)[i] = a[i]
  BY <1>1, <1>2
<1>4. ASSUME NEW i \in 1 .. Len(b) PROVE (a \o b)[Len(a) + i] = b[i]
  <2>1. Len(a) + i \in 1 .. Len(a) + Len(b) /\ ~(Len(a) + i <= Len(a)) /\ Len(a) + i - Len(a) = i
    BY <1>1
  <2> QED BY <1>2, <2>1
<1> QED BY <1>2, <1>3, <1>4 DEF Stream, Unit

(* The first units of a stream are a stream.                                  *)
LEMMA FirstOf ==
  ASSUME NEW s \in Stream, NEW n \in 0 .. Len(s)
  PROVE  /\ First(s, n) \in Stream /\ Len(First(s, n)) = n
         /\ \A i \in 1 .. n : First(s, n)[i] = s[i]
<1>1. Len(s) \in Nat /\ n \in Nat /\ \A i \in 1 .. n : s[i] \in Unit
  BY StreamSeq
<1>2. /\ SubSeq(s, 1, n) \in Seq(Unit)
      /\ Len(SubSeq(s, 1, n)) = IF 1 <= n THEN n - 1 + 1 ELSE 0
      /\ \A i \in 1 .. (n - 1 + 1) : SubSeq(s, 1, n)[i] = s[1 + i - 1]
  BY <1>1, SubSeqProperties
<1> QED BY <1>1, <1>2 DEF First, Stream, Unit

(* Streams with the same units are equal.                                     *)
LEMMA SameStream ==
  ASSUME NEW s \in Stream, NEW t \in Stream, Len(s) = Len(t), \A i \in 1 .. Len(s) : s[i] = t[i]
  PROVE  s = t
<1>1. s \in Seq(Unit) /\ t \in Seq(Unit)
  BY DEF Stream, Unit
<1> QED BY <1>1, SeqEqual

(* Dropping from the front of the first of two streams.                       *)
LEMMA RestJoined ==
  ASSUME NEW a \in Stream, NEW b \in Stream, NEW k \in 0 .. Len(a)
  PROVE  Rest(a, k) \o b = Rest(a \o b, k)
<1>1. Len(a) \in Nat /\ Len(b) \in Nat /\ k \in Nat /\ k <= Len(a)
  BY StreamSeq
<1>2. /\ Rest(a, k) \in Stream /\ Len(Rest(a, k)) = Len(a) - k
      /\ \A i \in 1 .. Len(a) - k : Rest(a, k)[i] = a[k + i]
  BY RestOf
<1>3. /\ a \o b \in Stream /\ Len(a \o b) = Len(a) + Len(b)
      /\ \A i \in 1 .. Len(a) : (a \o b)[i] = a[i]
      /\ \A i \in 1 .. Len(b) : (a \o b)[Len(a) + i] = b[i]
  BY Joining
<1>4. /\ Rest(a \o b, k) \in Stream /\ Len(Rest(a \o b, k)) = Len(a) + Len(b) - k
      /\ \A i \in 1 .. Len(a) + Len(b) - k : Rest(a \o b, k)[i] = (a \o b)[k + i]
  <2>1. k \in 0 .. Len(a \o b)
    BY <1>1, <1>3
  <2>2. /\ Rest(a \o b, k) \in Stream /\ Len(Rest(a \o b, k)) = Len(a \o b) - k
        /\ \A i \in 1 .. Len(a \o b) - k : Rest(a \o b, k)[i] = (a \o b)[k + i]
    BY <1>3, <2>1, RestOf
  <2>3. Len(a \o b) = Len(a) + Len(b)
    BY <1>3
  <2> QED BY ONLY <2>2, <2>3
<1>5. /\ Rest(a, k) \o b \in Stream /\ Len(Rest(a, k) \o b) = Len(a) - k + Len(b)
      /\ \A i \in 1 .. Len(a) - k : (Rest(a, k) \o b)[i] = Rest(a, k)[i]
      /\ \A i \in 1 .. Len(b) : (Rest(a, k) \o b)[Len(a) - k + i] = b[i]
  <2>1. /\ Rest(a, k) \o b \in Stream /\ Len(Rest(a, k) \o b) = Len(Rest(a, k)) + Len(b)
        /\ \A i \in 1 .. Len(Rest(a, k)) : (Rest(a, k) \o b)[i] = Rest(a, k)[i]
        /\ \A i \in 1 .. Len(b) : (Rest(a, k) \o b)[Len(Rest(a, k)) + i] = b[i]
    BY <1>2, Joining
  <2>2. Len(Rest(a, k)) = Len(a) - k
    BY <1>2
  <2> QED BY ONLY <2>1, <2>2
<1>6. ASSUME NEW i \in 1 .. Len(a) - k + Len(b) PROVE (Rest(a, k) \o b)[i] = Rest(a \o b, k)[i]
  <2>1. Rest(a \o b, k)[i] = (a \o b)[k + i]
    BY <1>1, <1>4
  <2>2. CASE i <= Len(a) - k
    <3>1. i \in 1 .. Len(a) - k /\ k + i \in 1 .. Len(a)
      BY <1>1, <2>2
    <3> QED BY <1>2, <1>3, <1>5, <2>1, <3>1
  <2>3. CASE ~(i <= Len(a) - k)
    <3>1. PICK j \in 1 .. Len(b) : i = Len(a) - k + j
      <4>1. i - (Len(a) - k) \in 1 .. Len(b) /\ i = Len(a) - k + (i - (Len(a) - k))
        BY <1>1, <2>3
      <4> QED BY <4>1
    <3>2. k + i = Len(a) + j
      BY <1>1, <3>1
    <3> QED BY <1>3, <1>5, <2>1, <3>1, <3>2
  <2> QED BY <2>2, <2>3
<1>7. Len(Rest(a, k) \o b) = Len(Rest(a \o b, k))
  BY <1>1, <1>4, <1>5
<1> QED BY <1>4, <1>5, <1>6, <1>7, SameStream

(* A stream that is split and joined is the stream.                           *)
LEMMA JoinAgain ==
  ASSUME NEW a \in Stream, NEW b \in Stream, NEW n \in 0 .. Len(b)
  PROVE  /\ First(b, n) \o Rest(b, n) = b
         /\ (a \o First(b, n)) \o Rest(b, n) = a \o b
<1>1. Len(b) \in Nat /\ n \in Nat /\ n <= Len(b)
  BY StreamSeq
<1>2. /\ First(b, n) \in Stream /\ Len(First(b, n)) = n
      /\ \A i \in 1 .. n : First(b, n)[i] = b[i]
  BY FirstOf
<1>3. /\ Rest(b, n) \in Stream /\ Len(Rest(b, n)) = Len(b) - n
      /\ \A i \in 1 .. Len(b) - n : Rest(b, n)[i] = b[n + i]
  BY RestOf
<1>4. /\ First(b, n) \o Rest(b, n) \in Stream
      /\ Len(First(b, n) \o Rest(b, n)) = n + (Len(b) - n)
      /\ \A i \in 1 .. n : (First(b, n) \o Rest(b, n))[i] = First(b, n)[i]
      /\ \A i \in 1 .. Len(b) - n : (First(b, n) \o Rest(b, n))[n + i] = Rest(b, n)[i]
  BY <1>2, <1>3, Joining
<1>5. ASSUME NEW i \in 1 .. Len(b) PROVE (First(b, n) \o Rest(b, n))[i] = b[i]
  <2>1. CASE i <= n
    BY <1>1, <1>2, <1>4, <2>1
  <2>2. CASE ~(i <= n)
    <3>1. PICK j \in 1 .. Len(b) - n : i = n + j
      <4>1. i - n \in 1 .. Len(b) - n /\ i = n + (i - n)
        BY <1>1, <2>2
      <4> QED BY <4>1
    <3> QED BY <1>3, <1>4, <3>1
  <2> QED BY <2>1, <2>2
<1>6. n + (Len(b) - n) = Len(b)
  BY <1>1
<1>7. First(b, n) \o Rest(b, n) = b
  BY <1>4, <1>5, <1>6, SameStream
<1>8. a \in Seq(Unit) /\ First(b, n) \in Seq(Unit) /\ Rest(b, n) \in Seq(Unit)
  BY <1>2, <1>3 DEF Stream, Unit
<1>9. (a \o First(b, n)) \o Rest(b, n) = a \o (First(b, n) \o Rest(b, n))
  BY <1>8, ConcatAssociative
<1> QED BY <1>7, <1>9

(* Parts of a whole stream.                                                   *)
LEMMA WholeRest ==
  ASSUME NEW s \in Stream, NEW k \in 0 .. Len(s), Whole(s)
  PROVE  Whole(Rest(s, k))
<1>1. /\ Rest(s, k) \in Stream /\ Len(Rest(s, k)) = Len(s) - k /\ Len(s) \in Nat
      /\ \A i \in 1 .. Len(s) - k : Rest(s, k)[i] = s[k + i]
  BY RestOf, StreamSeq
<1>2. Chained(Rest(s, k))
  BY ChainedRest DEF Whole
<1>3. ASSUME Rest(s, k) # <<>> PROVE Ends(Rest(s, k)[Len(Rest(s, k))])
  <2>1. Len(Rest(s, k)) # 0
    BY <1>1, <1>3 DEF Stream
  <2>2. Len(s) - k \in 1 .. Len(s) - k /\ k + (Len(s) - k) = Len(s) /\ Len(s) # 0
    BY <1>1, <2>1
  <2>3. Rest(s, k)[Len(Rest(s, k))] = s[Len(s)]
    BY <1>1, <2>2
  <2>4. s # <<>>
    BY <2>2
  <2> QED BY <2>3, <2>4 DEF Whole
<1> QED BY <1>2, <1>3 DEF Whole

(* The first units of a chained stream are chained.                           *)
LEMMA ChainedFirst ==
  ASSUME NEW a \in Stream, NEW b \in Stream, Chained(a \o b)
  PROVE  Chained(a)
<1>1. Len(a) \in Nat /\ Len(b) \in Nat
  BY StreamSeq
<1>2. ASSUME NEW i \in 1 .. Len(a) - 1 PROVE Follows(a[i], a[i + 1])
  <2>1. i \in 1 .. Len(a) /\ i + 1 \in 1 .. Len(a) /\ i \in 1 .. Len(a \o b) - 1
    BY <1>1, Joining
  <2>2. Follows((a \o b)[i], (a \o b)[i + 1])
    BY <2>1 DEF Chained
  <2>3. (a \o b)[i] = a[i] /\ (a \o b)[i + 1] = a[i + 1]
    BY <2>1, Joining
  <2> QED BY <2>2, <2>3
<1> QED BY <1>2 DEF Chained

(* What sendBinaryPacket writes for a packet is a whole stream.               *)
LEMMA UnitsOf ==
  ASSUME NEW p \in Packets
  PROVE  /\ Units(p) \in Stream /\ Len(Units(p)) \in 4 .. 5 /\ Whole(Units(p))
         /\ Units(p)[1] = [part |-> "magic", of |-> p]
         /\ \A i \in 2 .. Len(Units(p)) : Units(p)[i].part # "magic"
<1> DEFINE m == [part |-> "magic", of |-> p]
           h == [part |-> "id", of |-> p]
           z == [part |-> "sizes", of |-> p]
           j == [part |-> "json", of |-> p]
           c == [part |-> "image", of |-> p]
<1>1. Follows(m, h) /\ Follows(h, z) /\ Follows(z, j)
  BY DEF Follows, Ends, NextPart
<1>2. CASE p.from = "main"
  <2>1. Units(p) = <<m, h, z, j>> /\ Units(p) \in Stream /\ Len(Units(p)) = 4
    BY <1>2 DEF Units, Stream
  <2>2. Units(p)[1] = m /\ Units(p)[2] = h /\ Units(p)[3] = z /\ Units(p)[4] = j
    BY <2>1
  <2>3. Ends(j)
    BY <1>2 DEF Ends
  <2>4. h.part # "magic" /\ z.part # "magic" /\ j.part # "magic"
    OBVIOUS
  <2> HIDE DEF m, h, z, j
  <2>5. Chained(Units(p))
    <3> SUFFICES ASSUME NEW i \in 1 .. 3 PROVE Follows(Units(p)[i], Units(p)[i + 1])
      BY <2>1 DEF Chained
    <3>1. i = 1 \/ i = 2 \/ i = 3
      OBVIOUS
    <3> QED BY <1>1, <2>2, <3>1
  <2>6. ASSUME NEW i \in 2 .. 4 PROVE Units(p)[i].part # "magic"
    <3>1. i = 2 \/ i = 3 \/ i = 4
      OBVIOUS
    <3> QED BY <2>2, <2>4, <3>1
  <2> QED BY <2>1, <2>2, <2>3, <2>5, <2>6 DEF Whole, m
<1>3. CASE p.from # "main"
  <2>1. Units(p) = <<m, h, z, j, c>> /\ Units(p) \in Stream /\ Len(Units(p)) = 5
    <3>1. Units(p) = <<m, h, z, j, c>>
      BY <1>3, PictureUnits
    <3> QED BY <3>1 DEF Stream
  <2>2. Units(p)[1] = m /\ Units(p)[2] = h /\ Units(p)[3] = z /\ Units(p)[4] = j /\ Units(p)[5] = c
    BY <2>1
  <2>3. Ends(c) /\ Follows(j, c)
    BY <1>3 DEF Ends, Follows, NextPart
  <2>4. h.part # "magic" /\ z.part # "magic" /\ j.part # "magic" /\ c.part # "magic"
    OBVIOUS
  <2> HIDE DEF m, h, z, j, c
  <2>5. Chained(Units(p))
    <3> SUFFICES ASSUME NEW i \in 1 .. 4 PROVE Follows(Units(p)[i], Units(p)[i + 1])
      BY <2>1 DEF Chained
    <3>1. i = 1 \/ i = 2 \/ i = 3 \/ i = 4
      OBVIOUS
    <3> QED BY <1>1, <2>2, <2>3, <3>1
  <2>6. ASSUME NEW i \in 2 .. 5 PROVE Units(p)[i].part # "magic"
    <3>1. i = 2 \/ i = 3 \/ i = 4 \/ i = 5
      OBVIOUS
    <3> QED BY <2>2, <2>4, <3>1
  <2> QED BY <2>1, <2>2, <2>3, <2>5, <2>6 DEF Whole, m
<1> QED BY <1>2, <1>3

(* A packet that is sent keeps the stream whole.                              *)
LEMMA WholeSent ==
  ASSUME NEW s \in Stream, Whole(s), NEW p \in Packets
  PROVE  Whole(s \o Units(p))
<1> DEFINE u == Units(p)
           t == s \o u
<1>1. /\ u \in Stream /\ Len(u) \in 4 .. 5 /\ Chained(u) /\ Ends(u[Len(u)]) /\ Len(s) \in Nat
      /\ u[1].part = "magic"
  <2>1. u \in Stream /\ Len(u) \in 4 .. 5 /\ Whole(u) /\ u[1] = [part |-> "magic", of |-> p]
    BY UnitsOf
  <2>2. u # <<>>
    BY <2>1
  <2> HIDE DEF u
  <2> QED BY <2>1, <2>2, StreamSeq DEF Whole
<1> HIDE DEF u
<1>2. /\ t \in Stream /\ Len(t) = Len(s) + Len(u)
      /\ \A i \in 1 .. Len(s) : t[i] = s[i]
      /\ \A i \in 1 .. Len(u) : t[Len(s) + i] = u[i]
  BY <1>1, Joining
<1> HIDE DEF t
<1>3. ASSUME NEW i \in 1 .. Len(t) - 1 PROVE Follows(t[i], t[i + 1])
  <2>1. CASE i < Len(s)
    <3>1. i \in 1 .. Len(s) - 1 /\ i \in 1 .. Len(s) /\ i + 1 \in 1 .. Len(s)
      BY <1>1, <2>1
    <3>2. Follows(s[i], s[i + 1])
      BY <3>1 DEF Whole, Chained
    <3> QED BY <1>2, <3>1, <3>2
  <2>2. CASE i = Len(s)
    <3>1. t[i] = s[Len(s)] /\ t[i + 1] = u[1] /\ s # <<>>
      <4>1. i \in 1 .. Len(s) /\ 1 \in 1 .. Len(u) /\ i + 1 = Len(s) + 1 /\ Len(s) # 0
        BY <1>1, <2>2
      <4> QED BY <1>2, <2>2, <4>1
    <3> QED BY <1>1, <3>1 DEF Whole, Follows
  <2>3. CASE i > Len(s)
    <3>1. PICK j \in 1 .. Len(u) - 1 : i = Len(s) + j
      <4>1. i - Len(s) \in 1 .. Len(u) - 1 /\ i = Len(s) + (i - Len(s))
        BY <1>1, <1>2, <2>3
      <4> QED BY <4>1
    <3>2. j \in 1 .. Len(u) /\ j + 1 \in 1 .. Len(u) /\ i + 1 = Len(s) + (j + 1)
      BY <1>1, <3>1
    <3>3. Follows(u[j], u[j + 1])
      BY <1>1, <3>1 DEF Chained
    <3>4. t[i] = u[j] /\ t[i + 1] = u[j + 1]
      BY <1>2, <3>1, <3>2
    <3> QED BY <3>3, <3>4
  <2> QED BY <1>1, <1>2, <2>1, <2>2, <2>3
<1>4. Ends(t[Len(t)])
  <2>1. Len(u) \in 1 .. Len(u)
    BY <1>1
  <2> QED BY <1>1, <1>2, <2>1
<1> QED BY <1>3, <1>4 DEF Whole, Chained, t, u

(* A stuck rest m is completed by the stream w that follows it: only the      *)
(* first packet may be false, and what is left then belongs to w.             *)
LEMMA MixedCut ==
  ASSUME NEW m \in Stream, NEW w \in Stream, Stuck(m), Chained(w)
  PROVE  LET r == Cut[m \o w]
         IN  /\ \A i \in 2 .. Len(r.found) : r.found[i] # Mixture
             /\ r.found # <<>> => \E k \in 0 .. Len(w) : r.rest = Rest(w, k)
<1> DEFINE buf == m \o w
           r == Cut[buf]
<1>1. /\ buf \in Stream /\ Len(buf) = Len(m) + Len(w) /\ Len(m) \in Nat /\ Len(w) \in Nat
      /\ \A i \in 1 .. Len(m) : buf[i] = m[i]
      /\ \A i \in 1 .. Len(w) : buf[Len(m) + i] = w[i]
  BY Joining, StreamSeq
<1>2. ASSUME NEW s \in Stream, Chained(s)
      PROVE  /\ NoMixture(Cut[s].found) /\ Cut[s].found \in Seq(Results)
             /\ \E k \in 0 .. Len(s) : Cut[s].rest = Rest(s, k)
  BY <1>2, CutWhole, CutShows DEF Shows, ShownAt
<1>3. CASE m = <<>>
  <2>1. buf = w
    <3>1. w \in Seq(Unit)
      BY DEF Stream, Unit
    <3> QED BY <1>3, <3>1, ConcatEmptySeq
  <2> QED BY <1>2, <2>1 DEF NoMixture
<1>4. CASE m # <<>>
  <2>1. m[1].part = "magic" /\ Len(m) >= 1 /\ buf[1] = m[1]
    <3>1. Len(m) # 0
      BY <1>4 DEF Stream
    <3>2. 1 \in 1 .. Len(m)
      BY <1>1, <3>1
    <3> QED BY <1>1, <1>4, <3>2 DEF Stuck
  <2> HIDE DEF buf
  <2>2. PICK k \in 0 .. Len(buf) : Skips(buf, k) /\ CutsAt(buf, k)
    BY <1>1, CutCases
  <2>4. CASE Cut[buf] = [rest |-> Rest(buf, k), found |-> <<>>]
    <3>1. r.found = <<>> /\ Len(r.found) = 0
      BY <2>4
    <3> QED BY <3>1 DEF buf
  <2>5. ASSUME NEW c \in 4 .. 5, TakesAt(buf, k, c)
        PROVE  /\ \A i \in 2 .. Len(r.found) : r.found[i] # Mixture
               /\ \E j \in 0 .. Len(w) : r.rest = Rest(w, j)
    <3> DEFINE n == k + c
               x == Taken(SubSeq(Rest(buf, k), 1, c))
               t == Rest(buf, n)
               found == Cut[t].found
    <3>1. /\ n \in 0 .. Len(buf) /\ c <= Len(buf) - k /\ c = Length(Rest(buf, k)) /\ k \in Nat
      BY <1>1, <2>5 DEF TakesAt
    <3>2. n >= Len(m)
      <4>1. CASE Len(m) < 3
        BY <1>1, <3>1, <4>1
      <4>2. CASE ~(Len(m) < 3)
        <5>1. ~Abnormal(m) /\ Len(m) < Length(m)
          BY <1>4, <4>2 DEF Stuck
        <5>2. 1 \in 1 .. Len(m) /\ 2 \in 1 .. Len(m) /\ 3 \in 1 .. Len(m)
          BY <1>1, <4>2
        <5>3. buf[1] = m[1] /\ buf[2] = m[2] /\ buf[3] = m[3]
          BY <1>1, <5>2
        <5>4. k = 0
          <6>1. CASE k # 0
            <7>1. 1 \in 1 .. k
              BY <3>1, <6>1
            <7>2. buf[1 + 1].part = "id" /\ buf[1 + 2].part # "sizes"
              BY <2>1, <2>2, <7>1 DEF Skips
            <7> QED BY <5>1, <5>3, <7>2 DEF Abnormal
          <6> QED BY <6>1
        <5>5. Rest(buf, 0) = buf
          <6>1. /\ Rest(buf, 0) \in Stream /\ Len(Rest(buf, 0)) = Len(buf) - 0
                /\ \A i \in 1 .. Len(buf) - 0 : Rest(buf, 0)[i] = buf[0 + i]
            BY <1>1, RestOf
          <6>2. Len(Rest(buf, 0)) = Len(buf) /\ \A i \in 1 .. Len(buf) : Rest(buf, 0)[i] = buf[i]
            BY <1>1, <6>1
          <6> QED BY <1>1, <6>1, <6>2, SameStream
        <5>6. Length(m) = c
          BY <3>1, <5>3, <5>4, <5>5 DEF Length
        <5> QED BY <1>1, <5>1, <5>4, <5>6
      <4> QED BY <4>1, <4>2
    <3> HIDE DEF n
    <3>3. PICK j \in 0 .. Len(w) : n = Len(m) + j
      <4>1. n - Len(m) \in 0 .. Len(w) /\ n = Len(m) + (n - Len(m))
        BY <1>1, <3>1, <3>2
      <4> QED BY <4>1
    <3>4. t = Rest(w, j) /\ t \in Stream
      <4>1. /\ Rest(buf, n) \in Stream /\ Len(Rest(buf, n)) = Len(buf) - n
            /\ \A i \in 1 .. Len(buf) - n : Rest(buf, n)[i] = buf[n + i]
        BY <1>1, <3>1, RestOf
      <4>2. /\ Rest(w, j) \in Stream /\ Len(Rest(w, j)) = Len(w) - j
            /\ \A i \in 1 .. Len(w) - j : Rest(w, j)[i] = w[j + i]
        BY RestOf
      <4>3. Len(buf) - n = Len(w) - j
        BY <1>1, <3>3
      <4>4. ASSUME NEW i \in 1 .. Len(w) - j PROVE Rest(buf, n)[i] = Rest(w, j)[i]
        <5>1. j + i \in 1 .. Len(w) /\ n + i = Len(m) + (j + i)
          BY <1>1, <3>3
        <5> QED BY <1>1, <4>1, <4>2, <4>3, <5>1
      <4> QED BY <4>1, <4>2, <4>3, <4>4, SameStream
    <3>5. /\ NoMixture(found) /\ found \in Seq(Results)
          /\ \E i \in 0 .. Len(t) : Cut[t].rest = Rest(t, i)
      <4>1. Chained(t)
        BY <3>4, ChainedRest
      <4> HIDE DEF t
      <4> QED BY <1>2, <3>4, <4>1
    <3>6. x \in Results
      BY <1>1, <3>1, TakenResult
    <3>7. r.found = <<x>> \o found /\ r.rest = Cut[t].rest
      BY <2>5 DEF TakesAt, n
    <3>8. ASSUME NEW i \in 2 .. Len(r.found) PROVE r.found[i] # Mixture
      <4> HIDE DEF x, found, r
      <4>1. i \in 2 .. 1 + Len(found)
        BY <3>5, <3>6, <3>7, OneMore
      <4>2. i - 1 \in 1 .. Len(found) /\ (<<x>> \o found)[i] = found[i - 1]
        BY <3>5, <3>6, <4>1, OneMore
      <4> QED BY <3>5, <3>7, <4>2 DEF NoMixture
    <3>9. \E i \in 0 .. Len(w) : r.rest = Rest(w, i)
      <4>1. PICK i \in 0 .. Len(t) : Cut[t].rest = Rest(t, i)
        BY <3>5
      <4>2. Len(t) = Len(w) - j
        BY <3>4, RestOf
      <4>3. i \in 0 .. Len(w) - j /\ j + i \in 0 .. Len(w)
        BY <1>1, <4>2
      <4>4. Rest(t, i) = Rest(w, j + i)
        <5> HIDE DEF t
        <5> QED BY <3>4, <4>3, RestOfRest
      <4> QED BY <3>7, <4>1, <4>3, <4>4
    <3> QED BY <3>8, <3>9
  <2> QED BY <2>2, <2>4, <2>5 DEF buf, CutsAt
<1> QED BY <1>3, <1>4

(* One call of readData on the pieces first arrived of the stream v.          *)
LEMMA ReadAligned ==
  ASSUME NEW m \in Stream, NEW v \in Stream, NEW n \in 1 .. Len(v), Stuck(m), Whole(v)
  PROVE  LET r == Cut[m \o First(v, n)]
         IN  /\ r.rest \in Stream /\ r.found \in Seq(Results) /\ Rest(v, n) \in Stream
             /\ Stuck(r.rest) /\ Whole(Rest(v, n))
             /\ Whole(m \o v) => NoMixture(r.found) /\ Whole(r.rest \o Rest(v, n))
             /\ \A i \in 2 .. Len(r.found) : r.found[i] # Mixture
             /\ r.found # <<>> => Whole(r.rest \o Rest(v, n))
<1> DEFINE w == First(v, n)
           buf == m \o w
           r == Cut[buf]
<1>1. Len(v) \in Nat /\ n \in 0 .. Len(v)
  BY StreamSeq
<1>2. w \in Stream /\ Len(w) = n /\ Rest(v, n) \in Stream /\ w \o Rest(v, n) = v
      /\ (m \o w) \o Rest(v, n) = m \o v
  BY <1>1, FirstOf, RestOf, JoinAgain
<1> HIDE DEF w
<1>3. buf \in Stream
  BY <1>2, Joining
<1>4. Chained(w)
  BY <1>2, ChainedFirst DEF Whole
<1>5. /\ \A i \in 2 .. Len(r.found) : r.found[i] # Mixture
      /\ r.found # <<>> => \E k \in 0 .. Len(w) : r.rest = Rest(w, k)
  BY <1>2, <1>4, MixedCut
<1> HIDE DEF buf
<1>6. r.found \in Seq(Results) /\ \E k \in 0 .. Len(buf) : r.rest = Rest(buf, k)
  BY <1>3, CutShows DEF Shows, ShownAt
<1>7. r.rest \in Stream /\ Stuck(r.rest)
  BY <1>3, <1>6, RestOf, CutStuck
<1>8. Whole(Rest(v, n))
  BY <1>1, WholeRest
<1>9. ASSUME Whole(m \o v) PROVE NoMixture(r.found) /\ Whole(r.rest \o Rest(v, n))
  <2>1. buf \o Rest(v, n) = m \o v
    BY <1>2 DEF buf
  <2>2. Chained(buf)
    BY <1>2, <1>3, <1>9, <2>1, ChainedFirst DEF Whole
  <2>3. PICK k \in 0 .. Len(buf) : r.rest = Rest(buf, k)
    BY <1>6
  <2>4. r.rest \o Rest(v, n) = Rest(m \o v, k)
    <3>1. Rest(buf, k) \o Rest(v, n) = Rest(buf \o Rest(v, n), k)
      BY <1>2, <1>3, RestJoined
    <3> QED BY <2>1, <2>3, <3>1
  <2>5. m \o v \in Stream /\ k \in 0 .. Len(m \o v)
    <3>1. m \o v \in Stream /\ Len(m \o v) = Len(buf) + Len(Rest(v, n))
      BY <1>2, <1>3, <2>1, Joining
    <3> QED BY <1>2, <1>3, <3>1, StreamSeq
  <2>6. Whole(Rest(m \o v, k))
    BY <1>9, <2>5, WholeRest
  <2> QED BY <1>3, <2>2, <2>4, <2>6, CutWhole
<1>10. ASSUME r.found # <<>> PROVE Whole(r.rest \o Rest(v, n))
  <2>1. PICK k \in 0 .. Len(w) : r.rest = Rest(w, k)
    BY <1>5, <1>10
  <2>2. r.rest \o Rest(v, n) = Rest(v, k)
    <3>1. Rest(w, k) \o Rest(v, n) = Rest(w \o Rest(v, n), k)
      BY <1>2, RestJoined
    <3> QED BY <1>2, <2>1, <3>1
  <2>3. k \in 0 .. Len(v)
    BY <1>1, <1>2
  <2> QED BY <2>2, <2>3, WholeRest
<1> QED BY <1>2, <1>5, <1>6, <1>7, <1>8, <1>9, <1>10 DEF buf, w

-----------------------------------------------------------------------------
(* All that will still be read: what m_buffer kept and what the socket holds. *)
Coming == m_buffer \o wire

(* The types of the client's end of the connection.                           *)
EndType ==
  /\ m_buffer \in Stream /\ wire \in Stream /\ delivered \in Seq(Results)
  /\ connects \in Nat /\ online \in BOOLEAN

(* The writer has exactly one packet in its hand while it writes.             *)
HandInv == IF wpc = "write" THEN Len(hand) = 1 ELSE hand = <<>>

(* The invariant for mixtures: whole packets are coming, unless m_buffer kept *)
(* the front of a packet of an earlier connection; then a mixture is still to *)
(* come for one connection that has not shown its own.                        *)
MixInv ==
  /\ Stuck(m_buffer) /\ Whole(wire) /\ (peerOpen => online)
  /\ connects = 0 => m_buffer = <<>> /\ delivered = <<>> /\ ~online
  /\ OneMixturePerReconnect
  /\ online /\ ~Whole(Coming) => Cardinality(Mixtures) + 1 < connects

(* Every step keeps the packet in the writer's hand.                          *)
LEMMA HandStep == IInv /\ HandInv /\ [Next]_vars => HandInv'
<1> SUFFICES ASSUME IInv, HandInv, [Next]_vars PROVE HandInv'
  OBVIOUS
<1>1. UNCHANGED <<wpc, hand>> => HandInv'
  BY DEF HandInv
<1>2. CASE Accept
  BY <1>1, <1>2 DEF Accept, HandInv
<1>3. CASE WriterCheck \/ WriterPop \/ WriterSends \/ WriteFails \/ Free
  BY <1>3 DEF WriterCheck, WriterPop, WriterSends, WriteFails, Free, HandInv
<1>4. CASE ReadFails \/ ReadCommand \/ (\E w \in Workers : Picture(w)) \/ MainLoop \/ Join \/ Stop
  BY <1>1, <1>4 DEF ReadFails, ReadCommand, Picture, MainLoop, Join, Stop
<1>5. CASE ConnectToServer \/ Disconnected \/ \E n \in 1 .. Len(wire) : ReadData(n)
  BY <1>1, <1>5 DEF ConnectToServer, Disconnected, ReadData
<1>6. CASE UNCHANGED vars
  BY <1>1, <1>6 DEF vars, sessionVars
<1> QED BY <1>2, <1>3, <1>4, <1>5, <1>6 DEF Next, SessionNext

(* What the steps do to the stream.                                           *)
LEMMA StreamSteps ==
  ASSUME [Next]_vars
  PROVE  \/ /\ UNCHANGED <<m_buffer, wire, delivered, connects, online>>
            /\ peerOpen' => peerOpen
         \/ /\ WriterSends /\ wpc = "write" /\ wire' = wire \o Units(hand[1])
            /\ UNCHANGED <<m_buffer, delivered, connects, online, peerOpen>>
         \/ ConnectToServer
         \/ Disconnected
         \/ \E n \in 1 .. Len(wire) : ReadData(n)
<1>1. SessionNext /\ UNCHANGED clientVars
        => UNCHANGED <<m_buffer, delivered, connects, online>>
  BY DEF clientVars
<1>2. SessionNext
        => \/ UNCHANGED wire /\ (peerOpen' => peerOpen)
           \/ /\ WriterSends /\ wpc = "write" /\ wire' = wire \o Units(hand[1])
              /\ UNCHANGED peerOpen
  BY DEF SessionNext, Accept, ReadFails, ReadCommand, WriterCheck, WriterPop, WriterSends,
         WriteFails, Picture, MainLoop, Join, Free, Stop
<1>3. UNCHANGED vars => /\ UNCHANGED <<m_buffer, wire, delivered, connects, online>>
                        /\ peerOpen' => peerOpen
  BY DEF vars, sessionVars, clientVars
<1> QED BY <1>1, <1>2, <1>3 DEF Next

(* The empty stream has every property of interest.                           *)
LEMMA EmptyStream == <<>> \in Stream /\ Whole(<<>>) /\ Stuck(<<>>) /\ Len(<<>>) = 0
<1>1. <<>> \in Stream /\ Len(<<>>) = 0
  BY DEF Stream
<1> QED BY <1>1 DEF Whole, Chained, Stuck

(* What the writer writes is a packet.                                        *)
LEMMA SentPacket ==
  ASSUME IInv, HandInv, wpc = "write"
  PROVE  hand[1] \in Packets /\ DOMAIN hand = {1}
<1>1. hand \in Seq(Packets) /\ Len(hand) = 1
  BY DEF IInv, SessionType, HandInv
<1>2. DOMAIN hand = 1 .. 1 /\ 1 \in 1 .. 1
  BY <1>1, LenProperties
<1> QED BY <1>1, <1>2, ElementOfSeq

(* One call of readData, on the state.                                        *)
LEMMA ReadCall ==
  ASSUME EndType, NEW n \in 1 .. Len(wire), ReadData(n)
  PROVE  /\ online /\ wire' = Rest(wire, n)
         /\ m_buffer' = Cut[m_buffer \o First(wire, n)].rest
         /\ delivered' = delivered \o Cut[m_buffer \o First(wire, n)].found
         /\ UNCHANGED <<online, connects, peerOpen>>
BY DEF ReadData, Rest, First

(* Every step keeps the types of the client's end.                            *)
LEMMA EndStep ==
  ASSUME IInv, HandInv, EndType, [Next]_vars
  PROVE  EndType'
<1>1. CASE UNCHANGED <<m_buffer, wire, delivered, connects, online>>
  BY <1>1 DEF EndType
<1>2. CASE /\ wpc = "write" /\ wire' = wire \o Units(hand[1])
           /\ UNCHANGED <<m_buffer, delivered, connects, online>>
  BY <1>2, SentPacket, UnitsOf, Joining DEF EndType
<1>3. CASE ConnectToServer \/ Disconnected
  <2>1. wire' = <<>> /\ UNCHANGED <<m_buffer, delivered>> /\ online' \in BOOLEAN
        /\ connects' \in {connects, connects + 1}
    BY <1>3 DEF ConnectToServer, Disconnected
  <2>2. wire' \in Stream
    BY <2>1, EmptyStream
  <2> QED BY <2>1, <2>2 DEF EndType
<1>4. ASSUME NEW n \in 1 .. Len(wire), ReadData(n) PROVE EndType'
  <2> DEFINE r == Cut[m_buffer \o First(wire, n)]
  <2>1. n \in 0 .. Len(wire)
    BY StreamSeq DEF EndType
  <2>2. First(wire, n) \in Stream /\ Rest(wire, n) \in Stream
    BY <2>1, FirstOf, RestOf DEF EndType
  <2>3. m_buffer \o First(wire, n) \in Stream
    BY <2>2, Joining DEF EndType
  <2>4. r.found \in Seq(Results) /\ r.rest \in Stream
    BY <2>3, CutShows, RestOf DEF Shows, ShownAt
  <2>5. delivered \o r.found \in Seq(Results)
    <3> HIDE DEF r
    <3> QED BY <2>4, ConcatProperties DEF EndType
  <2> QED BY <1>4, <2>2, <2>4, <2>5, ReadCall DEF EndType
<1> QED BY <1>1, <1>2, <1>3, <1>4, StreamSteps

(* How one call may raise the number of mixtures.                             *)
MixturesOf(d) == {i \in DOMAIN d : d[i] = Mixture}

LEMMA MixturesGrow ==
  ASSUME NEW d \in Seq(Results), NEW found \in Seq(Results)
  PROVE  /\ Cardinality(MixturesOf(d)) \in Nat
         /\ NoMixture(found) => MixturesOf(d \o found) = MixturesOf(d)
         /\ (\A i \in 2 .. Len(found) : found[i] # Mixture)
              => Cardinality(MixturesOf(d \o found)) <= Cardinality(MixturesOf(d)) + 1
<1>1. Len(d) \in Nat /\ Len(found) \in Nat /\ DOMAIN d = 1 .. Len(d)
  BY LenProperties
<1>2. /\ d \o found \in Seq(Results) /\ Len(d \o found) = Len(d) + Len(found)
      /\ \A i \in 1 .. Len(d) + Len(found) :
           (d \o found)[i] = IF i <= Len(d) THEN d[i] ELSE found[i - Len(d)]
  BY ConcatProperties
<1>3. DOMAIN (d \o found) = 1 .. Len(d) + Len(found)
  BY <1>2, LenProperties
<1>4. IsFiniteSet(MixturesOf(d)) /\ Cardinality(MixturesOf(d)) \in Nat
  <2>1. IsFiniteSet(1 .. Len(d))
    BY <1>1, FS_Interval
  <2>2. IsFiniteSet(MixturesOf(d))
    BY <1>1, <2>1, FS_Subset DEF MixturesOf
  <2> QED BY <2>2, FS_CardinalityType
<1>5. ASSUME NEW i \in MixturesOf(d \o found)
      PROVE  \/ i \in MixturesOf(d)
             \/ i - Len(d) \in 1 .. Len(found) /\ found[i - Len(d)] = Mixture /\ i \in Nat
  <2>1. i \in 1 .. Len(d) + Len(found) /\ (d \o found)[i] = Mixture
    BY <1>3 DEF MixturesOf
  <2>2. CASE i <= Len(d)
    BY <1>1, <1>2, <2>1, <2>2 DEF MixturesOf
  <2>3. CASE ~(i <= Len(d))
    BY <1>1, <1>2, <2>1, <2>3
  <2> QED BY <2>2, <2>3
<1>6. MixturesOf(d) \subseteq MixturesOf(d \o found)
  BY <1>1, <1>2, <1>3 DEF MixturesOf
<1>7. NoMixture(found) => MixturesOf(d \o found) = MixturesOf(d)
  BY <1>5, <1>6 DEF NoMixture
<1>8. ASSUME \A i \in 2 .. Len(found) : found[i] # Mixture
      PROVE  Cardinality(MixturesOf(d \o found)) <= Cardinality(MixturesOf(d)) + 1
  <2> DEFINE more == MixturesOf(d) \cup {Len(d) + 1}
  <2>1. MixturesOf(d \o found) \subseteq more
    <3> SUFFICES ASSUME NEW i \in MixturesOf(d \o found), i \notin MixturesOf(d)
                 PROVE  i = Len(d) + 1
      OBVIOUS
    <3>1. i - Len(d) \in 1 .. Len(found) /\ found[i - Len(d)] = Mixture /\ i \in Nat
      BY <1>5
    <3>2. i - Len(d) \notin 2 .. Len(found)
      BY <1>8, <3>1
    <3>3. i - Len(d) = 1
      BY <1>1, <3>1, <3>2
    <3> QED BY <1>1, <3>1, <3>3
  <2>2. IsFiniteSet(more) /\ Cardinality(more) \in Nat
        /\ Cardinality(more) <= Cardinality(MixturesOf(d)) + 1
    <3>1. /\ IsFiniteSet(more)
          /\ Cardinality(more) = IF Len(d) + 1 \in MixturesOf(d) THEN Cardinality(MixturesOf(d))
                                 ELSE Cardinality(MixturesOf(d)) + 1
      BY <1>4, FS_AddElement
    <3> QED BY <1>4, <3>1
  <2> HIDE DEF more
  <2>3. /\ Cardinality(MixturesOf(d \o found)) <= Cardinality(more)
        /\ IsFiniteSet(MixturesOf(d \o found))
    BY <2>1, <2>2, FS_Subset
  <2>4. Cardinality(MixturesOf(d \o found)) \in Nat
    BY <2>3, FS_CardinalityType
  <2> QED BY <1>4, <2>2, <2>3, <2>4
<1> QED BY <1>4, <1>7, <1>8

(* Every step keeps the invariant for mixtures.                               *)
LEMMA MixStep ==
  ASSUME IInv, HandInv, EndType, MixInv, [Next]_vars
  PROVE  MixInv'
<1>1. Cardinality(Mixtures) \in Nat /\ (Mixtures = {} => Cardinality(Mixtures) = 0)
  <2>1. <<>> \in Seq(Results) /\ Mixtures = MixturesOf(delivered)
    BY DEF Mixtures, MixturesOf
  <2> QED BY <2>1, MixturesGrow, FS_EmptySet DEF EndType
<1>2. CASE /\ UNCHANGED <<m_buffer, wire, delivered, connects, online>>
           /\ peerOpen' => peerOpen
  BY <1>2 DEF MixInv, Coming, Mixtures, OneMixturePerReconnect
<1>3. CASE /\ wpc = "write" /\ wire' = wire \o Units(hand[1])
           /\ UNCHANGED <<m_buffer, delivered, connects, online, peerOpen>>
  <2>1. hand[1] \in Packets /\ m_buffer \in Stream /\ wire \in Stream /\ Whole(wire)
    BY <1>3, SentPacket DEF EndType, MixInv
  <2>2. Whole(wire')
    BY <1>3, <2>1, WholeSent
  <2>3. Coming' = Coming \o Units(hand[1]) /\ Coming \in Stream
    <3>1. Units(hand[1]) \in Stream
      BY <2>1, UnitsOf
    <3>2. m_buffer \in Seq(Unit) /\ wire \in Seq(Unit) /\ Units(hand[1]) \in Seq(Unit)
      BY <2>1, <3>1 DEF Stream, Unit
    <3>3. (m_buffer \o wire) \o Units(hand[1]) = m_buffer \o (wire \o Units(hand[1]))
      BY <3>2, ConcatAssociative
    <3> QED BY <1>3, <2>1, <3>3, Joining DEF Coming
  <2>4. Whole(Coming) => Whole(Coming')
    BY <2>1, <2>3, WholeSent
  <2> QED BY <1>3, <2>2, <2>4 DEF MixInv, Mixtures, OneMixturePerReconnect
<1>4. CASE ConnectToServer
  <2>1. /\ wire' = <<>> /\ connects' = connects + 1 /\ online'
        /\ UNCHANGED <<m_buffer, delivered>>
    BY <1>4 DEF ConnectToServer
  <2>2. Coming' = m_buffer
    <3>1. m_buffer \in Seq(Unit)
      BY DEF EndType, Stream, Unit
    <3> QED BY <2>1, <3>1, ConcatEmptySeq DEF Coming
  <2>3. connects \in Nat /\ connects' # 0
    BY <2>1 DEF EndType
  <2>4. OneMixturePerReconnect'
    BY <1>1, <2>1, <2>3 DEF MixInv, OneMixturePerReconnect, Mixtures
  <2>5. ~Whole(Coming') => Cardinality(Mixtures) + 1 < connects'
    <3>1. CASE connects = 0
      BY <2>2, <3>1, EmptyStream DEF MixInv
    <3>2. CASE connects # 0
      BY <1>1, <2>1, <2>3, <3>2 DEF MixInv, OneMixturePerReconnect
    <3> QED BY <3>1, <3>2
  <2>6. Cardinality(Mixtures') = Cardinality(Mixtures)
    BY <2>1 DEF Mixtures
  <2> QED BY <2>1, <2>3, <2>4, <2>5, <2>6, EmptyStream DEF MixInv
<1>5. CASE Disconnected
  <2>1. /\ wire' = <<>> /\ UNCHANGED <<m_buffer, delivered, connects>>
        /\ ~online' /\ ~peerOpen'
    BY <1>5 DEF Disconnected
  <2> QED BY <2>1, EmptyStream DEF MixInv, Mixtures, OneMixturePerReconnect
<1>6. ASSUME NEW n \in 1 .. Len(wire), ReadData(n) PROVE MixInv'
  <2> DEFINE r == Cut[m_buffer \o First(wire, n)]
  <2>1. /\ online /\ wire' = Rest(wire, n) /\ m_buffer' = r.rest
        /\ delivered' = delivered \o r.found /\ UNCHANGED <<online, connects, peerOpen>>
    BY <1>6, ReadCall
  <2>2. /\ r.found \in Seq(Results) /\ Stuck(r.rest) /\ Whole(Rest(wire, n))
        /\ Whole(Coming) => NoMixture(r.found) /\ Whole(r.rest \o Rest(wire, n))
        /\ \A i \in 2 .. Len(r.found) : r.found[i] # Mixture
        /\ r.found # <<>> => Whole(r.rest \o Rest(wire, n))
    <3>1. m_buffer \in Stream /\ wire \in Stream /\ Stuck(m_buffer) /\ Whole(wire)
      BY DEF EndType, MixInv
    <3> QED BY <3>1, ReadAligned DEF Coming
  <2> HIDE DEF r
  <2>3. Coming' = r.rest \o Rest(wire, n)
    BY <2>1 DEF Coming
  <2>4. /\ Mixtures = MixturesOf(delivered) /\ Mixtures' = MixturesOf(delivered \o r.found)
    BY <2>1 DEF Mixtures, MixturesOf
  <2>5. delivered \in Seq(Results) /\ connects \in Nat /\ connects # 0
    BY <2>1 DEF EndType, MixInv
  <2>6. Stuck(m_buffer') /\ Whole(wire') /\ (peerOpen' => online')
    BY <2>1, <2>2 DEF MixInv
  <2>7. CASE Whole(Coming)
    <3>1. Mixtures' = Mixtures /\ Whole(Coming')
      BY <2>2, <2>3, <2>4, <2>5, <2>7, MixturesGrow
    <3> QED BY <2>1, <2>5, <2>6, <3>1 DEF MixInv, OneMixturePerReconnect
  <2>8. CASE ~Whole(Coming)
    <3>1. Cardinality(Mixtures) + 1 < connects
      BY <2>1, <2>8 DEF MixInv
    <3>2. CASE r.found = <<>>
      <4>1. delivered' = delivered
        BY <2>1, <2>5, <3>2, ConcatEmptySeq
      <4>2. Mixtures' = Mixtures
        BY <4>1 DEF Mixtures
      <4> QED BY <2>1, <2>5, <2>6, <3>1, <4>2 DEF MixInv, OneMixturePerReconnect
    <3>3. CASE r.found # <<>>
      <4>1. Whole(Coming')
        BY <2>2, <2>3, <3>3
      <4>2. Cardinality(Mixtures') <= Cardinality(Mixtures) + 1 /\ Cardinality(Mixtures') \in Nat
        <5>1. delivered \o r.found \in Seq(Results)
          BY <2>2, <2>5, ConcatProperties
        <5> QED BY <2>2, <2>4, <2>5, <5>1, MixturesGrow
      <4>3. Cardinality(Mixtures') < connects
        BY <1>1, <2>5, <3>1, <4>2
      <4> QED BY <2>1, <2>5, <2>6, <4>1, <4>3 DEF MixInv, OneMixturePerReconnect
    <3> QED BY <3>2, <3>3
  <2> QED BY <2>7, <2>8
<1> QED BY <1>2, <1>3, <1>4, <1>5, <1>6, StreamSteps

(* The invariants hold before the first connection.                           *)
LEMMA InitEnds == Init => HandInv /\ EndType /\ MixInv
<1> SUFFICES ASSUME Init PROVE HandInv /\ EndType /\ MixInv
  OBVIOUS
<1>1. /\ wpc = "off" /\ hand = <<>> /\ wire = <<>> /\ m_buffer = <<>> /\ delivered = <<>>
      /\ online = FALSE /\ connects = 0 /\ peerOpen = FALSE
  BY DEF Init, SessionInit
<1>2. Mixtures = {}
  BY <1>1 DEF Mixtures
<1>3. delivered \in Seq(Results)
  BY <1>1
<1> QED BY <1>1, <1>2, <1>3, EmptyStream DEF HandInv, EndType, MixInv, OneMixturePerReconnect

(* The invariants hold in every state.                                        *)
LEMMA EndsHold == Spec => [](IInv /\ HandInv /\ EndType /\ MixInv)
BY InitHolds, StepHolds, InitEnds, HandStep, EndStep, MixStep, PTL DEF Spec

(* OneMixturePerReconnect, for all limits: m_buffer outlives the connection,  *)
(* so readData may join the front of a packet of the last connection with the *)
(* start of the next; it does so at most once for each connection after the   *)
(* first, and the loop is then in step with the stream again.                 *)
THEOREM MixturesBounded == Spec => []OneMixturePerReconnect
<1>1. MixInv => OneMixturePerReconnect
  BY DEF MixInv
<1> QED BY <1>1, EndsHold, PTL

-----------------------------------------------------------------------------
(* The packets that wait in a sequence, that begin on a stream, that were     *)
(* shown.                                                                     *)
Elems(q) == {q[i] : i \in DOMAIN q}
Starts(s) == {s[i].of : i \in {j \in DOMAIN s : s[j].part = "magic"}}
Shown(d) == {d[i][1] : i \in {j \in DOMAIN d : d[j] # Mixture}}

\* Each producer's packets in A were made before those in B.
Lower(A, B) == \A a \in A, b \in B : a.from = b.from => a.n < b.n

(* On a stream, in the queue, on the screen, the packets of each producer are *)
(* in the order they were made.                                               *)
Rising(s) ==
  \A i, j \in DOMAIN s :
    i < j /\ s[i].part = "magic" /\ s[j].part = "magic" /\ s[i].of.from = s[j].of.from
      => s[i].of.n < s[j].of.n

RisingQueue(q) == \A i, j \in DOMAIN q : i < j /\ q[i].from = q[j].from => q[i].n < q[j].n

RisingShown(d) ==
  \A i, j \in DOMAIN d :
    i < j /\ d[i] # Mixture /\ d[j] # Mixture /\ d[i][1].from = d[j][1].from
      => d[i][1].n < d[j][1].n

(* The packets that are not sent, and all packets of the session.             *)
Waiting == Elems(hand) \cup Elems(queue)
Everywhere == Shown(delivered) \cup Starts(Coming) \cup Waiting

(* The invariant for the order: each producer's packets rise along the whole  *)
(* way from the queue over the writer's hand and the stream to the screen.    *)
OrderInv ==
  /\ RisingShown(delivered) /\ Rising(Coming) /\ RisingQueue(queue)
  /\ Lower(Shown(delivered), Starts(Coming))
  /\ Lower(Shown(delivered) \cup Starts(Coming), Waiting)
  /\ Lower(Elems(hand), Elems(queue))
  /\ \A p \in Everywhere : p.n <= made[p.from]

(* A packet has a number and a producer.                                      *)
LEMMA PacketType ==
  ASSUME NEW p \in Packets
  PROVE  p.n \in Nat /\ p.from \in Producers
BY DEF Packets

(* All places hold packets.                                                   *)
LEMMA SetsTyped ==
  ASSUME IInv, EndType
  PROVE  /\ Elems(hand) \subseteq Packets /\ Elems(queue) \subseteq Packets
         /\ Starts(Coming) \subseteq Packets /\ Shown(delivered) \subseteq Packets
         /\ Coming \in Stream
<1>1. hand \in Seq(Packets) /\ queue \in Seq(Packets)
  BY DEF IInv, SessionType
<1>2. Elems(hand) \subseteq Packets /\ Elems(queue) \subseteq Packets
  BY <1>1, LenProperties, ElementOfSeq DEF Elems
<1>3. Coming \in Stream
  BY Joining DEF EndType, Coming
<1>4. Starts(Coming) \subseteq Packets
  BY <1>3, StreamSeq DEF Starts, Unit
<1>5. Shown(delivered) \subseteq Packets
  <2> SUFFICES ASSUME NEW i \in DOMAIN delivered, delivered[i] # Mixture
               PROVE  delivered[i][1] \in Packets
    BY DEF Shown
  <2>1. delivered[i] \in Results
    BY LenProperties, ElementOfSeq DEF EndType
  <2> QED BY <2>1 DEF Results, Mixture
<1> QED BY <1>2, <1>3, <1>4, <1>5

(* Nothing moves, or something is forgotten.                                  *)
LEMMA OrderKept ==
  ASSUME OrderInv, UNCHANGED <<delivered, made>>,
         Coming' = Coming \/ (Rising(Coming') /\ Starts(Coming') \subseteq Starts(Coming)),
         queue' = queue \/ queue' = <<>>, hand' = hand \/ hand' = <<>>
  PROVE  OrderInv'
<1>1. Elems(queue') \subseteq Elems(queue) /\ Elems(hand') \subseteq Elems(hand)
      /\ Starts(Coming') \subseteq Starts(Coming)
  BY DEF Elems
<1>2. RisingQueue(queue') /\ Rising(Coming')
  BY DEF OrderInv, RisingQueue
<1>3. Everywhere' \subseteq Everywhere /\ Waiting' \subseteq Waiting
  BY <1>1 DEF Everywhere, Waiting
<1> QED BY <1>1, <1>2, <1>3 DEF OrderInv, Lower

(* A packet is made: its number is the highest of its producer's.             *)
LEMMA OrderMade ==
  ASSUME IInv, EndType, OrderInv, UNCHANGED <<delivered, m_buffer, wire>>,
         NEW producer \in Producers, NEW packet \in Packets,
         packet.from = producer, packet.n = made[producer] + 1,
         made' = [made EXCEPT ![producer] = @ + 1],
         \/ hand' = hand /\ queue' \in {queue, Append(queue, packet)}
         \/ hand' = <<>> /\ queue' = <<packet>>
  PROVE  OrderInv'
<1>1. made \in [Producers -> Nat] /\ queue \in Seq(Packets) /\ hand \in Seq(Packets)
  BY DEF IInv, SessionType
<1>2. \A p \in Everywhere : p.n \in Nat /\ p.from \in Producers /\ p.n <= made[p.from]
  BY SetsTyped, PacketType DEF Everywhere, Waiting, OrderInv
<1>3. \A p \in Producers : made[p] \in Nat /\ made'[p] \in Nat /\ made[p] <= made'[p]
  BY <1>1
<1>4. made'[producer] = made[producer] + 1
  BY <1>1
<1>5. Lower(Everywhere, {packet})
  BY <1>2, <1>3 DEF Lower
<1>6. /\ Coming' = Coming
      /\ Elems(hand') \subseteq Elems(hand) /\ Elems(queue') \subseteq Elems(queue) \cup {packet}
  <2>1. Coming' = Coming
    BY DEF Coming
  <2>2. CASE hand' = hand /\ queue' \in {queue, Append(queue, packet)}
    BY <1>1, <2>1, <2>2 DEF Elems
  <2>3. CASE hand' = <<>> /\ queue' = <<packet>>
    BY <2>1, <2>3 DEF Elems
  <2> QED BY <2>2, <2>3
<1>7. RisingQueue(queue')
  <2>1. CASE queue' = queue
    BY <2>1 DEF OrderInv
  <2>2. CASE queue' = Append(queue, packet)
    <3>1. /\ Len(queue) \in Nat /\ DOMAIN queue = 1 .. Len(queue)
          /\ DOMAIN queue' = 1 .. Len(queue) + 1 /\ queue'[Len(queue) + 1] = packet
          /\ \A i \in 1 .. Len(queue) : queue'[i] = queue[i] /\ queue[i] \in Everywhere
      BY <1>1, <2>2 DEF Everywhere, Waiting, Elems
    <3>2. ASSUME NEW i \in DOMAIN queue', NEW j \in DOMAIN queue', i < j,
                 queue'[i].from = queue'[j].from
          PROVE  queue'[i].n < queue'[j].n
      <4>1. i \in 1 .. Len(queue)
        BY <3>1, <3>2
      <4>2. CASE j = Len(queue) + 1
        BY <1>5, <3>1, <3>2, <4>1, <4>2 DEF Lower
      <4>3. CASE j # Len(queue) + 1
        <5>1. j \in 1 .. Len(queue)
          BY <3>1, <4>3
        <5> QED BY <3>1, <3>2, <4>1, <5>1 DEF OrderInv, RisingQueue
      <4> QED BY <4>2, <4>3
    <3> QED BY <3>2 DEF RisingQueue
  <2>3. CASE queue' = <<packet>>
    BY <2>3 DEF RisingQueue
  <2> QED BY <2>1, <2>2, <2>3
<1>8. /\ Shown(delivered') = Shown(delivered) /\ RisingShown(delivered')
      /\ Starts(Coming') = Starts(Coming) /\ Rising(Coming')
  BY <1>6 DEF OrderInv
<1>9. Waiting' \subseteq Waiting \cup {packet} /\ Everywhere' \subseteq Everywhere \cup {packet}
  BY <1>6, <1>8 DEF Waiting, Everywhere
<1>10. ASSUME NEW p \in Everywhere' PROVE p.n <= made'[p.from]
  <2>1. CASE p \in Everywhere
    BY <1>2, <1>3, <2>1
  <2>2. CASE p = packet
    BY <1>3, <1>4, <2>2
  <2> QED BY <1>9, <2>1, <2>2
<1>11. Lower(Shown(delivered') \cup Starts(Coming'), Waiting')
  BY <1>5, <1>8, <1>9 DEF OrderInv, Lower, Everywhere
<1>12. Lower(Elems(hand'), Elems(queue'))
  BY <1>5, <1>6 DEF OrderInv, Lower, Everywhere, Waiting
<1>13. Lower(Shown(delivered'), Starts(Coming'))
  BY <1>8 DEF OrderInv
<1> QED BY <1>7, <1>8, <1>10, <1>11, <1>12, <1>13 DEF OrderInv

(* The writer takes the packet at the front.                                  *)
LEMMA OrderPopped ==
  ASSUME IInv, OrderInv, hand = <<>>, queue # <<>>,
         hand' = <<Head(queue)>>, queue' = Tail(queue),
         UNCHANGED <<delivered, m_buffer, wire, made>>
  PROVE  OrderInv'
<1>1. /\ queue \in Seq(Packets) /\ Len(queue) \in Nat \ {0} /\ DOMAIN queue = 1 .. Len(queue)
      /\ Head(queue) = queue[1]
      /\ DOMAIN queue' = 1 .. Len(queue) - 1
      /\ \A i \in 1 .. Len(queue) - 1 : queue'[i] = queue[i + 1]
      /\ DOMAIN hand' = {1} /\ hand'[1] = Head(queue)
  BY DEF IInv, SessionType
<1>2. ASSUME NEW i \in 1 .. Len(queue) - 1
      PROVE  i + 1 \in DOMAIN queue /\ 1 \in DOMAIN queue /\ 1 < i + 1
             /\ queue'[i] \in Elems(queue)
  BY <1>1 DEF Elems
<1>3. /\ Elems(queue') \subseteq Elems(queue) /\ Elems(hand') = {queue[1]}
      /\ queue[1] \in Elems(queue)
  BY <1>1, <1>2 DEF Elems
<1>4. Lower(Elems(hand'), Elems(queue'))
  <2> SUFFICES ASSUME NEW i \in 1 .. Len(queue) - 1, queue[1].from = queue'[i].from
               PROVE  queue[1].n < queue'[i].n
    BY <1>1, <1>3 DEF Lower, Elems
  <2> QED BY <1>1, <1>2 DEF OrderInv, RisingQueue
<1>5. RisingQueue(queue')
  <2> SUFFICES ASSUME NEW i \in 1 .. Len(queue) - 1, NEW j \in 1 .. Len(queue) - 1, i < j,
                      queue'[i].from = queue'[j].from
               PROVE  queue'[i].n < queue'[j].n
    BY <1>1 DEF RisingQueue
  <2>1. i + 1 \in DOMAIN queue /\ j + 1 \in DOMAIN queue /\ i + 1 < j + 1
    BY <1>1
  <2> QED BY <1>1, <2>1 DEF OrderInv, RisingQueue
<1>6. Coming' = Coming /\ Waiting' \subseteq Waiting
  BY <1>3 DEF Coming, Waiting
<1>7. Everywhere' \subseteq Everywhere
  BY <1>6 DEF Everywhere
<1> QED BY <1>4, <1>5, <1>6, <1>7 DEF OrderInv, Lower

(* The writer sends the packet it holds: it comes after all on the stream.    *)
LEMMA OrderSent ==
  ASSUME IInv, HandInv, EndType, OrderInv, wpc = "write", wire' = wire \o Units(hand[1]),
         hand' = <<>>, UNCHANGED <<delivered, m_buffer, queue, made>>
  PROVE  OrderInv'
<1> DEFINE p == hand[1]
           u == Units(p)
<1>1. /\ p \in Packets /\ Elems(hand) = {p}
      /\ u \in Stream /\ Len(u) \in 4 .. 5 /\ u[1] = [part |-> "magic", of |-> p]
      /\ \A i \in 2 .. Len(u) : u[i].part # "magic"
  <2>1. p \in Packets /\ DOMAIN hand = {1}
    BY SentPacket
  <2> QED BY <2>1, UnitsOf DEF Elems
<1>2. Coming' = Coming \o u /\ Coming \in Stream
  <2>1. m_buffer \in Seq(Unit) /\ wire \in Seq(Unit) /\ u \in Seq(Unit)
    BY <1>1 DEF EndType, Stream, Unit
  <2> HIDE DEF u
  <2>2. (m_buffer \o wire) \o u = m_buffer \o (wire \o u)
    BY <2>1, ConcatAssociative
  <2> QED BY <2>2, SetsTyped DEF Coming, u
<1> HIDE DEF u
<1> DEFINE n == Len(Coming)
           s == Coming
           t == Coming'
<1>3. /\ n \in Nat /\ DOMAIN s = 1 .. n /\ DOMAIN t = 1 .. n + Len(u)
      /\ \A i \in 1 .. n : t[i] = s[i]
      /\ \A i \in 1 .. Len(u) : t[n + i] = u[i]
  <2>1. /\ Coming \o u \in Stream /\ Len(Coming \o u) = Len(Coming) + Len(u)
        /\ \A i \in 1 .. Len(Coming) : (Coming \o u)[i] = Coming[i]
        /\ \A i \in 1 .. Len(u) : (Coming \o u)[Len(Coming) + i] = u[i]
    BY <1>1, <1>2, Joining
  <2> QED BY <1>2, <2>1, StreamSeq
<1> HIDE DEF n, s, t, p
<1>4. ASSUME NEW i \in DOMAIN t, t[i].part = "magic"
      PROVE  \/ i \in 1 .. n /\ i \in DOMAIN s /\ t[i] = s[i]
             \/ i = n + 1 /\ t[i].of = p
  <2>1. CASE i <= n
    BY <1>3, <2>1
  <2>2. CASE ~(i <= n)
    <3>1. PICK j \in 1 .. Len(u) : i = n + j
      <4>1. i - n \in 1 .. Len(u) /\ i = n + (i - n)
        BY <1>1, <1>3, <2>2
      <4> QED BY <4>1
    <3>2. t[i] = u[j]
      BY <1>3, <3>1
    <3>3. j = 1
      BY <1>1, <1>4, <3>2
    <3> QED BY <1>1, <3>1, <3>2, <3>3
  <2> QED BY <2>1, <2>2
<1>5. Starts(t) \subseteq Starts(s) \cup {p}
  BY <1>4 DEF Starts
<1>6. Lower(Starts(s), {p}) /\ Lower(Shown(delivered), {p})
  BY <1>1 DEF OrderInv, Lower, Waiting, s
<1>7. Rising(t)
  <2> SUFFICES ASSUME NEW i \in DOMAIN t, NEW j \in DOMAIN t, i < j,
                      t[i].part = "magic", t[j].part = "magic", t[i].of.from = t[j].of.from
               PROVE  t[i].of.n < t[j].of.n
    BY DEF Rising
  <2>1. i \in 1 .. n /\ i \in DOMAIN s /\ t[i] = s[i]
    BY <1>3, <1>4
  <2>2. CASE j \in DOMAIN s /\ t[j] = s[j]
    BY <2>1, <2>2 DEF OrderInv, Rising, s
  <2>3. CASE t[j].of = p
    <3>1. s[i].of \in Starts(s)
      BY <2>1 DEF Starts
    <3> QED BY <1>6, <2>1, <2>3, <3>1 DEF Lower
  <2> QED BY <1>4, <2>2, <2>3
<1>8. Elems(hand') = {}
  BY DEF Elems
<1>9. Waiting' \subseteq Waiting /\ Everywhere' \subseteq Everywhere
  BY <1>1, <1>5, <1>8 DEF Waiting, Everywhere, s, t
<1>10. Lower(Shown(delivered'), Starts(Coming'))
  BY <1>5, <1>6 DEF OrderInv, Lower, s, t
<1>11. Lower(Shown(delivered') \cup Starts(Coming'), Waiting')
  <2>1. Waiting' = Elems(queue)
    BY <1>8 DEF Waiting
  <2>2. Lower(Starts(s) \cup {p} \cup Shown(delivered), Elems(queue))
    BY <1>1 DEF OrderInv, Lower, Waiting, s
  <2> QED BY <1>5, <2>1, <2>2 DEF Lower, t
<1> QED BY <1>7, <1>8, <1>9, <1>10, <1>11 DEF OrderInv, Lower, t

(* What is left on the stream when its front is dropped.                      *)
LEMMA RestRising ==
  ASSUME NEW s \in Stream, NEW k \in 0 .. Len(s), Rising(s)
  PROVE  /\ Rising(Rest(s, k)) /\ Starts(Rest(s, k)) \subseteq Starts(s)
         /\ \A i \in DOMAIN Rest(s, k) : /\ k + i \in DOMAIN s /\ i \in Nat \ {0}
                                        /\ Rest(s, k)[i] = s[k + i]
<1>1. /\ Len(s) \in Nat /\ k \in Nat /\ DOMAIN s = 1 .. Len(s)
      /\ DOMAIN Rest(s, k) = 1 .. Len(s) - k
      /\ \A i \in 1 .. Len(s) - k : Rest(s, k)[i] = s[k + i]
  BY RestOf, StreamSeq
<1>2. ASSUME NEW i \in DOMAIN Rest(s, k)
      PROVE  k + i \in DOMAIN s /\ i \in Nat \ {0} /\ Rest(s, k)[i] = s[k + i]
  BY <1>1
<1>3. \A i, j \in DOMAIN Rest(s, k) : i < j => k + i < k + j
  BY <1>1, <1>2
<1> QED BY <1>2, <1>3 DEF Rising, Starts

(* The front of a stream is in the order of the stream.                       *)
LEMMA FirstRising ==
  ASSUME NEW a \in Stream, NEW b \in Stream, Rising(a \o b)
  PROVE  Rising(a) /\ Starts(a) \subseteq Starts(a \o b)
<1>1. /\ Len(a) \in Nat /\ Len(b) \in Nat /\ DOMAIN a = 1 .. Len(a)
      /\ DOMAIN (a \o b) = 1 .. Len(a) + Len(b)
      /\ \A i \in 1 .. Len(a) : (a \o b)[i] = a[i]
  <2>1. a \o b \in Stream /\ Len(a \o b) = Len(a) + Len(b)
        /\ \A i \in 1 .. Len(a) : (a \o b)[i] = a[i]
    BY Joining
  <2> QED BY <2>1, StreamSeq
<1>2. \A i \in DOMAIN a : i \in DOMAIN (a \o b) /\ (a \o b)[i] = a[i]
  BY <1>1
<1> QED BY <1>2 DEF Rising, Starts

(* readData: what is cut out of the stream comes before all that is left on   *)
(* it.                                                                        *)
LEMMA OrderRead ==
  ASSUME IInv, EndType, OrderInv, NEW n \in 1 .. Len(wire), ReadData(n)
  PROVE  OrderInv'
<1> DEFINE w == First(wire, n)
           buf == m_buffer \o w
           r == Cut[buf]
           found == r.found
<1>1. /\ wire' = Rest(wire, n) /\ m_buffer' = r.rest /\ delivered' = delivered \o found
      /\ UNCHANGED <<hand, queue, made>>
  BY ReadCall DEF ReadData
<1>2. /\ w \in Stream /\ Rest(wire, n) \in Stream /\ buf \in Stream
      /\ buf \o Rest(wire, n) = Coming /\ Coming \in Stream
  <2>1. wire \in Stream /\ m_buffer \in Stream /\ n \in 0 .. Len(wire)
    BY StreamSeq DEF EndType
  <2>2. w \in Stream /\ Rest(wire, n) \in Stream /\ (m_buffer \o w) \o Rest(wire, n) = m_buffer \o wire
    BY <2>1, FirstOf, RestOf, JoinAgain
  <2> HIDE DEF w
  <2>3. buf \in Stream
    BY <2>1, <2>2, Joining
  <2> QED BY <2>2, <2>3, SetsTyped DEF Coming
<1> HIDE DEF buf
<1>3. found \in Seq(Results) /\ Len(buf) \in Nat
  BY <1>2, CutShows, StreamSeq DEF Shows
<1>4. PICK k \in 0 .. Len(buf) : \E at \in [1 .. Len(found) -> 1 .. k] : ShownAt(buf, r, k, at)
  BY <1>2, CutShows DEF Shows
<1>5. PICK at \in [1 .. Len(found) -> 1 .. k] : ShownAt(buf, r, k, at)
  BY <1>4
<1>6. Coming' = Rest(Coming, k) /\ k \in 0 .. Len(Coming) /\ k \in Nat
  <2>1. Rest(buf, k) \o Rest(wire, n) = Rest(buf \o Rest(wire, n), k)
    BY <1>2, RestJoined
  <2>2. Coming' = Rest(buf, k) \o Rest(wire, n)
    BY <1>1, <1>5 DEF ShownAt, Coming
  <2>3. Len(Coming) = Len(buf) + Len(Rest(wire, n)) /\ Len(Rest(wire, n)) \in Nat
    BY <1>2, Joining, StreamSeq
  <2> QED BY <1>2, <1>3, <2>1, <2>2, <2>3
<1>7. ASSUME NEW i \in 1 .. Len(found), found[i] # Mixture
      PROVE  /\ at[i] \in 1 .. k /\ at[i] \in DOMAIN Coming /\ Coming[at[i]].part = "magic"
             /\ found[i][1] = Coming[at[i]].of /\ found[i][1] \in Starts(Coming)
  <2>1. buf[at[i]].part = "magic" /\ found[i] = <<buf[at[i]].of>>
    BY <1>5, <1>7 DEF ShownAt
  <2>2. at[i] \in 1 .. Len(buf) /\ at[i] \in 1 .. k
    BY <1>3, <1>6
  <2>3. /\ Len(Coming) = Len(buf) + Len(Rest(wire, n)) /\ Len(Rest(wire, n)) \in Nat
        /\ \A j \in 1 .. Len(buf) : Coming[j] = buf[j]
        /\ DOMAIN Coming = 1 .. Len(Coming)
    <3>1. /\ Len(buf \o Rest(wire, n)) = Len(buf) + Len(Rest(wire, n))
          /\ \A j \in 1 .. Len(buf) : (buf \o Rest(wire, n))[j] = buf[j]
      BY <1>2, Joining
    <3> QED BY <1>2, <3>1, StreamSeq
  <2>4. at[i] \in DOMAIN Coming /\ Coming[at[i]] = buf[at[i]]
    BY <1>3, <2>2, <2>3
  <2> QED BY <2>1, <2>2, <2>4 DEF Starts
<1>8. /\ Rising(Coming') /\ Starts(Coming') \subseteq Starts(Coming)
      /\ \A i \in DOMAIN Coming' : /\ k + i \in DOMAIN Coming /\ i \in Nat \ {0}
                                  /\ Coming'[i] = Coming[k + i]
  BY <1>2, <1>6, RestRising DEF OrderInv
<1> DEFINE new == {found[i][1] : i \in {j \in 1 .. Len(found) : found[j] # Mixture}}
<1>9. new \subseteq Starts(Coming)
  BY <1>7
<1>10. Lower(new, Starts(Coming'))
  <2> SUFFICES ASSUME NEW i \in 1 .. Len(found), found[i] # Mixture,
                      NEW j \in DOMAIN Coming', Coming'[j].part = "magic",
                      found[i][1].from = Coming'[j].of.from
               PROVE  found[i][1].n < Coming'[j].of.n
    BY DEF Lower, Starts
  <2>1. at[i] < k + j
    BY <1>6, <1>7, <1>8
  <2> QED BY <1>7, <1>8, <2>1 DEF OrderInv, Rising
<1>11. /\ delivered \in Seq(Results) /\ Len(delivered) \in Nat /\ Len(found) \in Nat
       /\ DOMAIN delivered = 1 .. Len(delivered)
       /\ DOMAIN delivered' = 1 .. Len(delivered) + Len(found)
       /\ \A i \in 1 .. Len(delivered) + Len(found) :
            delivered'[i] = IF i <= Len(delivered) THEN delivered[i] ELSE found[i - Len(delivered)]
  <2> HIDE DEF found
  <2>1. delivered \in Seq(Results)
    BY DEF EndType
  <2>2. /\ delivered \o found \in Seq(Results)
        /\ Len(delivered \o found) = Len(delivered) + Len(found)
        /\ \A i \in 1 .. Len(delivered) + Len(found) : (delivered \o found)[i]
             = IF i <= Len(delivered) THEN delivered[i] ELSE found[i - Len(delivered)]
    BY <1>3, <2>1, ConcatProperties
  <2> QED BY <1>1, <1>3, <2>1, <2>2, LenProperties
<1> HIDE DEF found, r
<1>12. ASSUME NEW i \in DOMAIN delivered', delivered'[i] # Mixture
       PROVE  \/ /\ i \in DOMAIN delivered /\ delivered'[i] = delivered[i]
                 /\ delivered'[i][1] \in Shown(delivered)
              \/ /\ i > Len(delivered) /\ i - Len(delivered) \in 1 .. Len(found)
                 /\ delivered'[i] = found[i - Len(delivered)]
                 /\ delivered'[i][1] \in new
  <2>1. CASE i <= Len(delivered)
    BY <1>11, <1>12, <2>1 DEF Shown
  <2>2. CASE ~(i <= Len(delivered))
    BY <1>11, <1>12, <2>2
  <2> QED BY <2>1, <2>2
<1>13. Shown(delivered') \subseteq Shown(delivered) \cup new
  BY <1>12 DEF Shown
<1>14. RisingShown(delivered')
  <2> SUFFICES ASSUME NEW i \in DOMAIN delivered', NEW j \in DOMAIN delivered', i < j,
                      delivered'[i] # Mixture, delivered'[j] # Mixture,
                      delivered'[i][1].from = delivered'[j][1].from
               PROVE  delivered'[i][1].n < delivered'[j][1].n
    BY DEF RisingShown
  <2>1. CASE j \in DOMAIN delivered /\ delivered'[j] = delivered[j]
    <3>1. i \in DOMAIN delivered /\ delivered'[i] = delivered[i]
      BY <1>11, <2>1
    <3> QED BY <2>1, <3>1 DEF OrderInv, RisingShown
  <2>2. CASE /\ j > Len(delivered) /\ j - Len(delivered) \in 1 .. Len(found)
             /\ delivered'[j] = found[j - Len(delivered)] /\ delivered'[j][1] \in new
    <3>1. CASE delivered'[i][1] \in Shown(delivered)
      BY <1>9, <2>2, <3>1 DEF OrderInv, Lower
    <3>2. CASE /\ i > Len(delivered) /\ i - Len(delivered) \in 1 .. Len(found)
               /\ delivered'[i] = found[i - Len(delivered)]
      <4> DEFINE a == i - Len(delivered)
                 b == j - Len(delivered)
      <4>1. a \in 1 .. Len(found) /\ b \in 1 .. Len(found) /\ a < b
        BY <1>11, <2>2, <3>2
      <4>2. found[a] = delivered'[i] /\ found[b] = delivered'[j]
        BY <2>2, <3>2
      <4> HIDE DEF a, b
      <4>3. at[a] < at[b]
        BY <1>5, <4>1 DEF ShownAt, found
      <4> QED BY <1>7, <4>1, <4>2, <4>3 DEF OrderInv, Rising
    <3> QED BY <1>12, <3>1, <3>2
  <2> QED BY <1>12, <2>1, <2>2
<1>15. Waiting' = Waiting /\ Everywhere' \subseteq Everywhere
  BY <1>1, <1>8, <1>9, <1>13 DEF Waiting, Everywhere
<1>16. Lower(Shown(delivered'), Starts(Coming'))
  BY <1>8, <1>10, <1>13 DEF OrderInv, Lower
<1>17. Lower(Shown(delivered') \cup Starts(Coming'), Waiting')
  BY <1>8, <1>9, <1>13, <1>15 DEF OrderInv, Lower
<1> QED BY <1>1, <1>8, <1>14, <1>15, <1>16, <1>17 DEF OrderInv

(* enqueuePacket puts a newer packet at the end of the queue or drops it.     *)
LEMMA OrderEnqueued ==
  ASSUME IInv, EndType, OrderInv, NEW producer \in Producers, Enqueue(producer),
         UNCHANGED <<hand, delivered, m_buffer, wire>>
  PROVE  OrderInv'
<1>1. CASE UNCHANGED <<made, queue>>
  <2>1. Coming' = Coming
    BY DEF Coming
  <2> QED BY <1>1, <2>1, OrderKept
<1>2. CASE made[producer] < MaxPackets[producer]
  <2> DEFINE packet == [from |-> producer, n |-> made[producer] + 1]
  <2>1. made \in [Producers -> Nat] /\ MaxPackets[producer] \in Nat
    BY SessionAssumption DEF IInv, SessionType
  <2>2. /\ made' = [made EXCEPT ![producer] = @ + 1]
        /\ queue' = IF Len(queue) < Limit(producer)
                    THEN Append(queue, [from |-> producer, n |-> made'[producer]]) ELSE queue
    BY <1>2 DEF Enqueue
  <2>3. made'[producer] = made[producer] + 1 /\ made[producer] + 1 \in 1 .. MaxPackets[producer]
    BY <1>2, <2>1, <2>2
  <2>4. packet \in Packets /\ packet.from = producer /\ packet.n = made[producer] + 1
    BY <2>3, PacketIn
  <2>5. queue' \in {queue, Append(queue, packet)}
    BY <2>2, <2>3
  <2> HIDE DEF packet
  <2> QED BY <2>2, <2>4, <2>5, OrderMade
<1> QED BY <1>1, <1>2 DEF Enqueue

(* A session starts with an empty queue or with the first list of settings.   *)
LEMMA OrderAccepted ==
  ASSUME IInv, EndType, OrderInv, Accept, UNCHANGED clientVars
  PROVE  OrderInv'
<1>1. UNCHANGED <<delivered, m_buffer, wire>>
  BY DEF Accept, clientVars
<1>2. CASE UNCHANGED made /\ queue' \in {queue, <<>>} /\ hand' \in {hand, <<>>}
  <2>1. Coming' = Coming
    BY <1>1 DEF Coming
  <2> QED BY <1>1, <1>2, <2>1, OrderKept
<1>3. CASE /\ made' = [made EXCEPT !["main"] = @ + 1] /\ made["main"] < MaxPackets["main"]
           /\ queue' = <<[from |-> "main", n |-> made'["main"]]>> /\ hand' = <<>>
  <2> DEFINE packet == [from |-> "main", n |-> made["main"] + 1]
  <2>1. /\ made \in [Producers -> Nat] /\ "main" \in Producers /\ MaxPackets["main"] \in Nat
    BY SessionAssumption DEF IInv, SessionType, Producers
  <2>2. made'["main"] = made["main"] + 1 /\ made["main"] + 1 \in 1 .. MaxPackets["main"]
    BY <1>3, <2>1
  <2>3. packet \in Packets /\ packet.from = "main" /\ packet.n = made["main"] + 1
    BY <2>1, <2>2, PacketIn
  <2>4. queue' = <<packet>>
    BY <1>3, <2>2
  <2> HIDE DEF packet
  <2> QED BY <1>1, <1>3, <2>1, <2>3, <2>4, OrderMade
<1> QED BY <1>2, <1>3 DEF Accept

(* Every step keeps the order.                                                *)
LEMMA OrderStep ==
  ASSUME IInv, HandInv, EndType, OrderInv, [Next]_vars
  PROVE  OrderInv'
<1>0. ASSUME UNCHANGED <<delivered, m_buffer, wire, made>>,
             queue' = queue \/ queue' = <<>>, hand' = hand \/ hand' = <<>>
      PROVE  OrderInv'
  <2>1. Coming' = Coming
    BY <1>0 DEF Coming
  <2> QED BY <1>0, <2>1, OrderKept
<1>1. ASSUME SessionNext, UNCHANGED clientVars PROVE OrderInv'
  <2>1. UNCHANGED <<delivered, m_buffer>>
    BY <1>1 DEF clientVars
  <2>2. CASE Accept
    BY <1>1, <2>2, OrderAccepted
  <2>3. CASE ReadFails \/ ReadCommand \/ WriterCheck \/ WriteFails \/ Join \/ Free \/ Stop
    BY <1>0, <2>1, <2>3 DEF ReadFails, ReadCommand, WriterCheck, WriteFails, Join, Free, Stop
  <2>4. CASE WriterPop
    <3>1. CASE queue = <<>>
      BY <1>0, <2>1, <2>4, <3>1 DEF WriterPop
    <3>2. CASE queue # <<>>
      <4>1. /\ hand' = <<Head(queue)>> /\ queue' = Tail(queue) /\ hand = <<>>
            /\ UNCHANGED <<made, wire>>
        BY <2>4, <3>2 DEF WriterPop, QueueAfterPop, HandInv
      <4> QED BY <2>1, <3>2, <4>1, OrderPopped
    <3> QED BY <3>1, <3>2
  <2>5. CASE WriterSends
    <3>1. CASE connected
      BY <2>1, <2>5, <3>1, OrderSent DEF WriterSends
    <3>2. CASE ~connected
      BY <1>0, <2>1, <2>5, <3>2 DEF WriterSends
    <3> QED BY <3>1, <3>2
  <2>6. ASSUME NEW p \in Workers, Picture(p) PROVE OrderInv'
    <3>1. CASE Enqueue(p)
      BY <2>1, <2>6, <3>1, OrderEnqueued DEF Picture, Producers
    <3>2. CASE UNCHANGED <<made, queue>>
      BY <1>0, <2>1, <2>6, <3>2 DEF Picture
    <3> QED BY <2>6, <3>1, <3>2 DEF Picture
  <2>7. CASE MainLoop
    <3>1. CASE Enqueue("main")
      BY <2>1, <2>7, <3>1, OrderEnqueued DEF MainLoop, Producers
    <3>2. CASE UNCHANGED <<made, queue>>
      BY <1>0, <2>1, <2>7, <3>2 DEF MainLoop
    <3> QED BY <2>7, <3>1, <3>2 DEF MainLoop
  <2> QED BY <1>1, <2>2, <2>3, <2>4, <2>5, <2>6, <2>7 DEF SessionNext
<1>2. CASE ConnectToServer \/ Disconnected
  <2>1. wire' = <<>> /\ UNCHANGED <<m_buffer, delivered, made, queue, hand>>
    BY <1>2 DEF ConnectToServer, Disconnected
  <2>2. Coming' = m_buffer
    <3>1. m_buffer \in Seq(Unit)
      BY DEF EndType, Stream, Unit
    <3> QED BY <2>1, <3>1, ConcatEmptySeq DEF Coming
  <2>3. Rising(Coming') /\ Starts(Coming') \subseteq Starts(Coming)
    BY <2>2, FirstRising DEF EndType, OrderInv, Coming
  <2> QED BY <2>1, <2>3, OrderKept
<1>3. ASSUME NEW n \in 1 .. Len(wire), ReadData(n) PROVE OrderInv'
  BY <1>3, OrderRead
<1>4. CASE UNCHANGED vars
  BY <1>0, <1>4 DEF vars, sessionVars, clientVars
<1> QED BY <1>1, <1>2, <1>3, <1>4 DEF Next

(* The order holds before the first connection.                               *)
LEMMA InitOrder == Init => OrderInv
<1> SUFFICES ASSUME Init PROVE OrderInv
  OBVIOUS
<1>1. /\ queue = <<>> /\ hand = <<>> /\ delivered = <<>>
      /\ m_buffer = <<>> /\ wire = <<>>
  BY DEF Init, SessionInit
<1>2. Coming = <<>>
  BY <1>1 DEF Coming
<1>3. Elems(queue) = {} /\ Elems(hand) = {} /\ Starts(Coming) = {} /\ Shown(delivered) = {}
  BY <1>1, <1>2 DEF Elems, Starts, Shown
<1>4. RisingShown(delivered) /\ Rising(Coming) /\ RisingQueue(queue)
  BY <1>1, <1>2 DEF RisingShown, Rising, RisingQueue
<1> QED BY <1>3, <1>4 DEF OrderInv, Lower, Waiting, Everywhere

(* PacketsInOrder, for all limits: whatever is dropped for a full queue, a    *)
(* broken connection or a rest in m_buffer, the packets of one producer that  *)
(* readData hands to the client are in the order in which the server made     *)
(* them.                                                                      *)
THEOREM PacketsKeepOrder == Spec => []PacketsInOrder
<1>1. OrderInv => PacketsInOrder
  BY DEF OrderInv, RisingShown, PacketsInOrder
<1> QED
  BY <1>1, InitHolds, StepHolds, InitEnds, HandStep, EndStep, InitOrder, OrderStep, PTL DEF Spec

-----------------------------------------------------------------------------
(* Typing of both ends of a connection, for all limits: whatever pieces       *)
(* readData finds in m_buffer, its rest is a piece of a stream and what it    *)
(* processes are packets of the session or a mixture of two.                  *)
THEOREM BothEndsTyped == Spec => []TypeOK
<1> DEFINE Few == connects \in 0 .. MaxConnects
<1>1. Init => Few
  BY ConnectsAssumption DEF Init
<1>2. Few /\ [Next]_vars => Few'
  <2> SUFFICES ASSUME Few, [Next]_vars PROVE Few'
    OBVIOUS
  <2>1. connects' = connects \/ (connects < MaxConnects /\ connects' = connects + 1)
    BY DEF Next, vars, clientVars, ConnectToServer, Disconnected, ReadData
  <2> QED BY <2>1, ConnectsAssumption
<1>3. EndType => \A i \in DOMAIN delivered : delivered[i] = Mixture \/ delivered[i][1] \in Packets
  <2> SUFFICES ASSUME EndType, NEW i \in DOMAIN delivered
               PROVE  delivered[i] = Mixture \/ delivered[i][1] \in Packets
    OBVIOUS
  <2>1. delivered[i] \in Results
    BY DEF EndType
  <2> QED BY <2>1 DEF Results, Mixture
<1>4. IInv /\ EndType /\ Few => TypeOK
  BY <1>3 DEF IInv, EndType, TypeOK
<1> HIDE DEF Few
<1> QED BY <1>1, <1>2, <1>4, EndsHold, PTL DEF Spec
=============================================================================
