----------------------------- MODULE ClientSession -----------------------------
(***************************************************************************)
(* One Qt client at the server (server/src/client_handler.cpp): the five   *)
(* threads of a session and the queue between them.                        *)
(*                                                                         *)
(* The main loop and the two picture threads put packets into send_queue,  *)
(* the writer sends them, the reader waits for commands.  All of them use  *)
(* variables on the stack of handle_client, and two of them the SSL        *)
(* object, so that handle_client must outlast them.  Reader and writer use *)
(* the SSL object at the same time without a lock: besides the network,    *)
(* that is a reason why either may fail at any moment in this model.       *)
(***************************************************************************)
EXTENDS Integers, Sequences, FiniteSets

CONSTANTS
  CamLimit, JsonLimit,  \* lengths of the queue that stop pictures and data
  MaxPackets            \* bound: packets made by each of the three producers

Workers == {"hw", "pi"}               \* hanwha_worker, pi_worker
Producers == Workers \cup {"main"}

ASSUME SessionAssumption ==
  /\ CamLimit \in Nat /\ JsonLimit \in Nat \ {0} /\ CamLimit <= JsonLimit
  /\ MaxPackets \in [Producers -> Nat]

\* The n-th packet of a producer.
Packets == {packet \in [from : Producers, n : Nat] : packet.n \in 1 .. MaxPackets[packet.from]}

VARIABLES
  mpc,        \* handle_client: "off" without a session, "loop", a join, "free"
  rpc, wpc,   \* reader and writer thread
  work,       \* the picture threads
  queue,      \* send_queue
  hand,       \* the packet the writer has taken
  made,       \* packets made so far
  connected,  \* client_connected
  stop_flag,
  peerOpen,   \* the socket is connected
  wire        \* the units of packets on their way to the client

sessionVars == <<mpc, rpc, wpc, work, queue, hand, made, connected, stop_flag, peerOpen, wire>>

SessionInit ==
  /\ mpc = "off" /\ rpc = "off" /\ wpc = "off" /\ work = [w \in Workers |-> "off"]
  /\ queue = <<>> /\ hand = <<>> /\ made = [p \in Producers |-> 0]
  /\ connected = FALSE /\ stop_flag = FALSE /\ peerOpen = FALSE /\ wire = <<>>

-----------------------------------------------------------------------------
\* A packet on the stream: the header of magic number, camera and sizes, the
\* JSON text and, from a camera, the picture.
Units(packet) ==
  LET unit(part) == [part |-> part, of |-> packet]
  IN  <<unit("magic"), unit("id"), unit("sizes"), unit("json")>>
      \o (IF packet.from = "main" THEN <<>> ELSE <<unit("image")>>)

\* enqueue_json_packet and enqueue_camera_packet: a packet that finds the
\* queue too long is dropped.
Limit_Same(producer) == JsonLimit
Limit(producer) == IF producer = "main" THEN JsonLimit ELSE CamLimit

Enqueue(producer) ==
  IF made[producer] < MaxPackets[producer]
    THEN /\ made' = [made EXCEPT ![producer] = @ + 1]
         /\ queue' = IF Len(queue) < Limit(producer)
                     THEN Append(queue, [from |-> producer, n |-> made'[producer]])
                     ELSE queue
    ELSE UNCHANGED <<made, queue>>

\* handle_client up to the creation of the threads; the ROI list comes first, if
\* the configuration has zones.  Without a handshake or a database the socket is
\* closed again.
Accept ==
  /\ mpc = "off" /\ peerOpen /\ ~stop_flag
  /\ \/ /\ mpc' = "loop" /\ rpc' = "read" /\ wpc' = "check"
        /\ work' = [w \in Workers |-> "run"] /\ connected' = TRUE
        /\ \/ /\ made' = [made EXCEPT !["main"] = @ + 1] /\ made["main"] < MaxPackets["main"]
              /\ queue' = <<[from |-> "main", n |-> made'["main"]]>>
           \/ UNCHANGED made /\ queue' = <<>>
        /\ hand' = <<>> /\ UNCHANGED <<stop_flag, peerOpen, wire>>
     \/ /\ peerOpen' = FALSE
        /\ UNCHANGED <<mpc, rpc, wpc, work, queue, hand, made, connected, stop_flag, wire>>

-----------------------------------------------------------------------------
(* The reader, in a blocking SSL_read. *)
ReadFails ==
  /\ rpc = "read"
  /\ connected' = FALSE /\ rpc' = "ended"
  /\ UNCHANGED <<mpc, wpc, work, queue, hand, made, stop_flag, peerOpen, wire>>

\* A command: handle_qt_command, and another look at connected.
ReadCommand ==
  /\ rpc = "read" /\ peerOpen /\ ~connected
  /\ rpc' = "ended"
  /\ UNCHANGED <<mpc, wpc, work, queue, hand, made, connected, stop_flag, peerOpen, wire>>

(* The writer. *)
\* while (*connected), and the wait for up to 50 ms.
WriterCheck ==
  /\ wpc = "check"
  /\ wpc' = IF connected THEN "drain" ELSE "ended"
  /\ UNCHANGED <<mpc, rpc, work, queue, hand, made, connected, stop_flag, peerOpen, wire>>

QueueAfterPop_Kept == queue
QueueAfterPop == Tail(queue)

\* while (!q.empty()): the front is moved out and popped.
WriterPop ==
  /\ wpc = "drain"
  /\ IF queue = <<>>
       THEN wpc' = "check" /\ UNCHANGED <<queue, hand>>
       ELSE wpc' = "write" /\ hand' = <<Head(queue)>> /\ queue' = QueueAfterPop
  /\ UNCHANGED <<mpc, rpc, work, made, connected, stop_flag, peerOpen, wire>>

\* SSL_write sends all of it; nothing is written once connected is false.
WriterSends ==
  /\ wpc = "write" /\ (peerOpen \/ ~connected)
  /\ wpc' = "drain" /\ hand' = <<>>
  /\ wire' = IF connected THEN wire \o Units(hand[1]) ELSE wire
  /\ UNCHANGED <<mpc, rpc, work, queue, made, connected, stop_flag, peerOpen>>

WriteFails ==
  /\ wpc = "write" /\ connected
  /\ connected' = FALSE /\ wpc' = "ended" /\ hand' = <<>>
  /\ UNCHANGED <<mpc, rpc, work, queue, made, stop_flag, peerOpen, wire>>

-----------------------------------------------------------------------------
(* hanwha_worker and pi_worker. *)
WorkerGoesOn_Stop == ~stop_flag
WorkerGoesOn == connected /\ ~stop_flag

Picture(w) ==
  /\ work[w] = "run"
  /\ IF WorkerGoesOn
       THEN Enqueue(w) /\ UNCHANGED work
       ELSE work' = [work EXCEPT ![w] = "ended"] /\ UNCHANGED <<made, queue>>
  /\ UNCHANGED <<mpc, rpc, wpc, hand, connected, stop_flag, peerOpen, wire>>

(* handle_client's loop: the congestion, the statistics, the monitor data. *)
MainLoop ==
  /\ mpc = "loop"
  /\ IF connected /\ ~stop_flag
       THEN Enqueue("main") /\ UNCHANGED <<mpc, connected>>
       ELSE mpc' = "join_reader" /\ connected' = FALSE /\ UNCHANGED <<made, queue>>
  /\ UNCHANGED <<rpc, wpc, work, hand, stop_flag, peerOpen, wire>>

\* The joins, in their order, and the thread each waits for.
AfterJoin_NoWriter == [join_reader |-> "join_hw", join_writer |-> "join_hw",
                       join_hw |-> "join_pi", join_pi |-> "free"]
AfterJoin == [join_reader |-> "join_writer", join_writer |-> "join_hw",
              join_hw |-> "join_pi", join_pi |-> "free"]
Joined == [join_reader |-> rpc, join_writer |-> wpc, join_hw |-> work["hw"],
           join_pi |-> work["pi"]]

Join ==
  /\ mpc \in DOMAIN AfterJoin /\ Joined[mpc] = "ended"
  /\ mpc' = AfterJoin[mpc]
  /\ UNCHANGED <<rpc, wpc, work, queue, hand, made, connected, stop_flag, peerOpen, wire>>

\* SSL_free, close; the queue goes with handle_client's stack.
Free ==
  /\ mpc = "free"
  /\ mpc' = "off" /\ rpc' = "off" /\ wpc' = "off" /\ work' = [w \in Workers |-> "off"]
  /\ queue' = <<>> /\ hand' = <<>> /\ peerOpen' = FALSE
  /\ UNCHANGED <<made, connected, stop_flag, wire>>

(* SIGINT: the detached session sees stop_flag. *)
Stop ==
  /\ ~stop_flag /\ stop_flag' = TRUE
  /\ UNCHANGED <<mpc, rpc, wpc, work, queue, hand, made, connected, peerOpen, wire>>

SessionNext ==
  \/ Accept \/ ReadFails \/ ReadCommand
  \/ WriterCheck \/ WriterPop \/ WriterSends \/ WriteFails
  \/ \E w \in Workers : Picture(w)
  \/ MainLoop \/ Join \/ Free \/ Stop

\* What goes on by itself; the failures only once the client is gone.
Steps ==
  {"accept", "read", "check", "pop", "send", "fail", "hw", "pi", "main", "join", "free"}
Step(s) ==
  CASE s = "accept" -> Accept
    [] s = "read"   -> ReadFails /\ ~peerOpen
    [] s = "check"  -> WriterCheck
    [] s = "pop"    -> WriterPop
    [] s = "send"   -> WriterSends /\ ~connected
    [] s = "fail"   -> WriteFails /\ ~peerOpen
    [] s \in Workers -> Picture(s)
    [] s = "main"   -> MainLoop
    [] s = "join"   -> Join
    [] s = "free"   -> Free

-----------------------------------------------------------------------------
Threads == [reader |-> rpc, writer |-> wpc, hw |-> work["hw"], pi |-> work["pi"]]

SessionType ==
  /\ mpc \in {"off", "loop", "free"} \cup DOMAIN AfterJoin
  /\ rpc \in {"off", "read", "ended"} /\ wpc \in {"off", "check", "drain", "write", "ended"}
  /\ work \in [Workers -> {"off", "run", "ended"}]
  /\ queue \in Seq(Packets) /\ Len(queue) <= JsonLimit /\ hand \in Seq(Packets)
  /\ made \in [Producers -> Nat]
  /\ {connected, stop_flag, peerOpen} \subseteq BOOLEAN

(* When SSL_free, close_db and the end of handle_client take the connection    *)
(* and the queue away, none of the session's threads can still use them,       *)
(* whichever of the five noticed the end first.                                *)
NothingFreedInUse ==
  mpc \in {"free", "off"} => \A t \in DOMAIN Threads : Threads[t] \in {"off", "ended"}

\* The places of a queue that hold data packets.
Data(q) == {i \in DOMAIN q : q[i].from = "main"}

(* Pictures cannot crowd out data: a data packet is dropped only behind at     *)
(* least JsonLimit - CamLimit data packets, however fast the cameras are.      *)
RoomForData ==
  [][made'["main"] # made["main"] /\ mpc = "loop" /\ queue' = queue
     => Cardinality(Data(queue)) >= JsonLimit - CamLimit]_sessionVars

(* A session whose client has gone ends, wherever its threads are waiting.     *)
SessionEnds == (mpc = "loop" /\ ~peerOpen) ~> mpc = "off"
=============================================================================
