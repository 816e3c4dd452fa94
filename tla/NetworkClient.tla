----------------------------- MODULE NetworkClient -----------------------------
(***************************************************************************)
(* The Qt client's end of a session (client/src/backend/networkclient.cpp) *)
(* together with the server's: packets are cut out of a stream that        *)
(* arrives in pieces of any size, and m_buffer outlives the connection, so *)
(* that the rest of a packet is followed by the start of another stream.   *)
(***************************************************************************)
EXTENDS ClientSession

CONSTANT MaxConnects   \* bound: connections

ASSUME ConnectsAssumption == MaxConnects \in Nat

VARIABLES
  online,     \* the socket is connected, at the client
  m_buffer,
  delivered,  \* history: the packets processed, <<>> for a mixture
  connects    \* connections so far

clientVars == <<online, m_buffer, delivered, connects>>
vars == <<sessionVars, clientVars>>

Mixture == <<>>

Init ==
  /\ SessionInit
  /\ online = FALSE /\ m_buffer = <<>> /\ delivered = <<>> /\ connects = 0

-----------------------------------------------------------------------------
(* connectToServer; one session at a time. *)
ConnectToServer ==
  /\ ~online /\ ~peerOpen /\ mpc = "off" /\ connects < MaxConnects
  /\ online' = TRUE /\ peerOpen' = TRUE /\ connects' = connects + 1
  /\ wire' = <<>>
  /\ UNCHANGED <<m_buffer, delivered, mpc, rpc, wpc, work, queue, hand, made, connected,
                 stop_flag>>

\* onDisconnected; what was still under way is lost.
Disconnected ==
  /\ online
  /\ online' = FALSE /\ peerOpen' = FALSE /\ wire' = <<>>
  /\ UNCHANGED <<m_buffer, delivered, connects, mpc, rpc, wpc, work, queue, hand, made,
                 connected, stop_flag>>

\* From the first magic number on.
Synced_Not(buf) == buf
Synced(buf) ==
  LET starts == {i \in DOMAIN buf : buf[i].part = "magic"}
  IN  IF starts = {} THEN <<>>
      ELSE SubSeq(buf, CHOOSE i \in starts : \A j \in starts : i <= j, Len(buf))

\* What readData takes for the header of the packet that begins the buffer.  A
\* header cut off by the end of a connection is completed with the start of the
\* next stream: a magic number that stands for a size is abnormal, one that stands
\* for the camera moves the fields by one, the JSON size into the picture's.
Abnormal(buf) == buf[2].part = "id" /\ buf[3].part # "sizes"

Length(buf) ==
  IF buf[2].part = "id" THEN Len(Units(buf[2].of)) ELSE 5

IsWhole(packet) == packet = Units(packet[1].of)

\* The loop of readData: what is left of a buffer, and what it contained.
Stream == Seq([part : {"magic", "id", "sizes", "json", "image"}, of : Packets])

Cut[buf \in Stream] ==
  LET b == Synced(buf)
  IN  IF Len(b) < 3 THEN [rest |-> b, found |-> <<>>]
      ELSE IF Abnormal(b) THEN Cut[SubSeq(b, 2, Len(b))]
      ELSE IF Len(b) < Length(b) THEN [rest |-> b, found |-> <<>>]
      ELSE LET packet == SubSeq(b, 1, Length(b))
               after  == Cut[SubSeq(b, Length(b) + 1, Len(b))]
           IN  [rest  |-> after.rest,
                found |-> <<IF IsWhole(packet) THEN <<packet[1].of>> ELSE Mixture>> \o after.found]

ReadData(n) ==
  LET result == Cut[m_buffer \o SubSeq(wire, 1, n)]
  IN  /\ online /\ n \in 1 .. Len(wire)
      /\ m_buffer' = result.rest /\ delivered' = delivered \o result.found
      /\ wire' = SubSeq(wire, n + 1, Len(wire))
      /\ UNCHANGED <<online, connects, mpc, rpc, wpc, work, queue, hand, made, connected,
                     stop_flag, peerOpen>>

Next ==
  \/ SessionNext /\ UNCHANGED clientVars
  \/ ConnectToServer \/ Disconnected
  \/ \E n \in 1 .. Len(wire) : ReadData(n)

(* Every thread of the server goes on; nothing is assumed of the client. *)
Spec ==
  /\ Init /\ [][Next]_vars
  /\ \A s \in Steps : WF_vars(Step(s) /\ UNCHANGED clientVars)

-----------------------------------------------------------------------------
(* Type invariant of both ends. *)
TypeOK ==
  /\ SessionType
  /\ online \in BOOLEAN /\ connects \in 0 .. MaxConnects
  /\ m_buffer \in Stream
  /\ \A i \in DOMAIN delivered : delivered[i] = Mixture \/ delivered[i][1] \in Packets

(* The packets of each producer are processed by the client in the order they  *)
(* were made and none of them twice, through the queue, the writer, the pieces *)
(* of the stream and reconnections.                                            *)
PacketsInOrder ==
  \A i, j \in DOMAIN delivered :
    i < j /\ delivered[i] # Mixture /\ delivered[j] # Mixture
      => (delivered[i][1].from = delivered[j][1].from
          => delivered[i][1].n < delivered[j][1].n)

(* A packet cut off by the end of a connection is completed with bytes of the  *)
(* next one.  It is the only false packet of that connection: the search for   *)
(* the magic number finds the stream again.                                    *)
Mixtures == {i \in DOMAIN delivered : delivered[i] = Mixture}
OneMixturePerReconnect == Mixtures # {} => Cardinality(Mixtures) < connects
=============================================================================
