------------------------------ MODULE Congestion ------------------------------
(***************************************************************************)
(* Congestion at the server: the objects two kinds of cameras report       *)
(* (hanwha_node.cpp, pi_node.cpp, shared_data.cpp), the levels the         *)
(* analyzer derives from them once a second (congestion_analyzer.cpp), the *)
(* thread that publishes the levels, also once a second                    *)
(* (congestion_publisher.cpp), and the topic the Raspberry Pi's display    *)
(* client subscribed to.                                                   *)
(*                                                                         *)
(* No connection is made twice: a camera's thread ends, or its client      *)
(* stays away; the publisher ends; and the display client comes back       *)
(* without its subscription.                                               *)
(*                                                                         *)
(* One zone per camera; which zone an object is in is left out, as the     *)
(* counts are all the analyzer keeps.                                      *)
(***************************************************************************)
EXTENDS Integers, Sequences, FiniteSets

CONSTANTS
  Counts,      \* for each camera, the numbers of people it can see
  MaxChanges,  \* bound: changes of what the cameras see
  MaxLosses    \* bound: connections that break

Cameras == {"hanwha", "pi"}

ASSUME CongestionAssumption ==
  /\ Counts \in [Cameras -> (SUBSET Nat) \ {{}}]
  /\ {MaxChanges, MaxLosses} \subseteq Nat

VARIABLES
  people,      \* what each camera sees
  objects,     \* g_hw_objects and the objects in g_pi_node_map: their number
  watching,    \* the cameras whose reports still come
  levels,      \* m_current_levels
  publishing,  \* the publisher thread runs
  subscribed,  \* the Pi's display client has its subscription
  topic,       \* levels on their way through the broker
  changes

congestionVars == <<people, objects, watching, levels, publishing, subscribed, topic, changes>>

\* calculateLevel, with CONGESTION_EASY_MAX and CONGESTION_NORMAL_MAX.
Level(count) == IF count < 1 THEN 0 ELSE IF count < 2 THEN 1 ELSE 2

LevelsOf(counts) == [c \in Cameras |-> Level(counts[c])]

\* Connections that have broken, none of which is made again.
Losses ==
  Cardinality(Cameras \ watching) + (IF publishing THEN 0 ELSE 1) + (IF subscribed THEN 0 ELSE 1)

CongestionInit ==
  /\ people \in [Cameras -> UNION {Counts[c] : c \in Cameras}]
  /\ \A c \in Cameras : people[c] \in Counts[c]
  /\ objects = [c \in Cameras |-> 0]
  /\ watching = Cameras /\ levels = [c \in Cameras |-> 0]
  /\ publishing = TRUE /\ subscribed = TRUE /\ topic = <<>> /\ changes = 0

-----------------------------------------------------------------------------
PeopleMove ==
  /\ changes < MaxChanges /\ changes' = changes + 1
  /\ \E c \in Cameras : \E n \in Counts[c] \ {people[c]} : people' = [people EXCEPT ![c] = n]
  /\ UNCHANGED <<objects, watching, levels, publishing, subscribed, topic>>

\* The metadata of the Hanwha camera replaces the objects unless it is empty;
\* a message of a Pi camera replaces them in any case.
AfterReport_Once(c) == IF objects[c] > 0 THEN objects[c] ELSE people[c]
AfterReport(c) == IF c = "hanwha" /\ people[c] = 0 THEN objects[c] ELSE people[c]

Report(c) ==
  /\ c \in watching
  /\ objects' = [objects EXCEPT ![c] = AfterReport(c)]
  /\ UNCHANGED <<people, watching, levels, publishing, subscribed, topic, changes>>

\* The stream of the Hanwha camera ends, which ends its thread, or the client of
\* a Pi camera loses its broker (or never reached it) and does not reconnect.
\* The last objects stay.
CameraLost(c) ==
  /\ c \in watching /\ Losses < MaxLosses /\ watching' = watching \ {c}
  /\ UNCHANGED <<people, objects, levels, publishing, subscribed, topic, changes>>

\* CongestionAnalyzer::run.  The objects of the cameras are counted under one
\* lock after the other; a report that comes in between is as good as later.
Analyze ==
  /\ levels' = LevelsOf(objects)
  /\ UNCHANGED <<people, objects, watching, publishing, subscribed, topic, changes>>

\* CongestionPublisher::run.  Without automatic reconnection a lost broker is
\* an exception, which ends the thread.  The broker keeps nothing for a client
\* without a subscription.
Publish ==
  /\ publishing /\ topic = <<>>
  /\ topic' = (IF subscribed THEN <<levels>> ELSE <<>>)
  /\ UNCHANGED <<people, objects, watching, levels, publishing, subscribed, changes>>

PublisherEnds ==
  /\ publishing /\ Losses < MaxLosses /\ publishing' = FALSE
  /\ UNCHANGED <<people, objects, watching, levels, subscribed, topic, changes>>

\* The display client's connection breaks.  It is made again by itself, with a
\* clean session and no subscribe: connection_lost only prints.
Disconnect ==
  /\ subscribed /\ Losses < MaxLosses /\ subscribed' = FALSE /\ topic' = <<>>
  /\ UNCHANGED <<people, objects, watching, levels, publishing, changes>>

CongestionNext ==
  \/ PeopleMove \/ Analyze \/ Publish \/ PublisherEnds \/ Disconnect
  \/ \E c \in Cameras : Report(c) \/ CameraLost(c)
=============================================================================
