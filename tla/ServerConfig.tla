----------------------------- MODULE ServerConfig -----------------------------
(***************************************************************************)
(* config.json, which the server keeps its zones of interest (ROI) in next *)
(* to all its other settings, and the three copies made of the zones: the  *)
(* congestion analyzer's, and the lists sent to the Qt clients.            *)
(*                                                                         *)
(* Each client session has a reader thread, which carries out the client's *)
(* ROI updates (handle_qt_command), and a main loop, which sends the list  *)
(* again when g_roi_updated says so (handle_client).  Nothing locks the    *)
(* file: ConfigManager::save truncates and rewrites it, and load takes a   *)
(* file it cannot parse for an empty object.  The server may stop at any   *)
(* moment: sessions are detached threads and main does not wait for them.  *)
(***************************************************************************)
EXTENDS Integers

CONSTANTS
  Clients,     \* sessions
  Zones,       \* pairs of a zone_id and a camera_id
  Rois,        \* rectangles
  NoRoi,       \* the zone has no entry
  Default,     \* the rectangle init_default_rois gives a zone
  MaxUpdates,  \* bound: ROI updates
  MaxStops,    \* bound: stops of the server
  MaxDrops     \* bound: ROI lists dropped at a full queue

ASSUME ConfigAssumption ==
  /\ Zones # {} /\ Default \in Rois /\ NoRoi \notin Rois
  /\ MaxUpdates \in Nat /\ MaxStops \in Nat /\ MaxDrops \in Nat

ZoneLists == [Zones -> Rois \cup {NoRoi}]
\* base: the entries "db", "hanwha", "mqtt", "pi_nodes".
Configs == [base : BOOLEAN, zones : ZoneLists]

NoZones == [z \in Zones |-> NoRoi]
EmptyObject == [base |-> FALSE, zones |-> NoZones]

VARIABLES
  config,   \* what config.json held when it was last closed
  whole,    \* FALSE while it is open for writing, and after a stop in a save
  server,   \* "down", "init", "up"
  pc,       \* the reader threads in handle_qt_command
  asked,    \* the zone and rectangle of the update being carried out
  local,    \* the reader threads' local config
  m_zones,  \* the analyzer's zones
  roiFlag,  \* g_roi_updated
  session,  \* the sessions' main threads
  listed,   \* history: the ROI list put into a send queue last
  want,     \* history: what the completed updates asked for
  clash,    \* history: two updates overlapped, or a stop cut a save short
  updates, stops, drops

counters == <<updates, stops, drops>>
vars == <<config, whole, server, pc, asked, local, m_zones, roiFlag, session, listed, want,
          clash, counters>>

(* setup has written config.json; the server has not run yet. *)
Init ==
  /\ config = [base |-> TRUE, zones |-> NoZones] /\ whole = TRUE
  /\ server = "down"
  /\ pc = [c \in Clients |-> "idle"] /\ session = [c \in Clients |-> "off"]
  /\ asked = [c \in Clients |-> <<CHOOSE z \in Zones : TRUE, Default>>]
  /\ local = [c \in Clients |-> EmptyObject]
  /\ m_zones = NoZones /\ roiFlag = FALSE
  /\ listed = NoZones /\ want = NoZones /\ clash = FALSE
  /\ updates = 0 /\ stops = 0 /\ drops = 0

-----------------------------------------------------------------------------
\* ConfigManager::load, with zones an empty array where there are none.
Load_NoArray == IF whole THEN config ELSE [EmptyObject EXCEPT !.zones = <<>>]
Load == IF whole THEN config ELSE EmptyObject

Busy == {c \in Clients : pc[c] # "idle"}
Saving == server = "init" \/ \E c \in Clients : pc[c] = "write"

(* main up to init_default_rois, which saves only if there are no zones.  A *)
(* file without contents or without the camera's settings ends main.        *)
Start ==
  /\ server = "down" /\ Load.base
  /\ roiFlag' = FALSE
  /\ IF config.zones = NoZones
       THEN server' = "init" /\ whole' = FALSE /\ UNCHANGED m_zones
       ELSE server' = "up" /\ m_zones' = config.zones /\ UNCHANGED whole
  /\ UNCHANGED <<config, pc, asked, local, session, listed, want, clash, counters>>

\* The default zones are written; g_analyzer.start loads them.
InitDefaultRois ==
  LET defaults == [z \in Zones |-> Default]
  IN  /\ server = "init"
      /\ server' = "up"
      /\ config' = [config EXCEPT !.zones = defaults] /\ whole' = TRUE
      /\ m_zones' = defaults /\ want' = defaults
      /\ UNCHANGED <<pc, asked, local, roiFlag, session, listed, clash, counters>>

\* The process ends, with all its threads.
Ends ==
  /\ server' = "down"
  /\ pc' = [c \in Clients |-> "idle"] /\ session' = [c \in Clients |-> "off"]
  /\ clash' = (clash \/ Saving)
  /\ UNCHANGED <<config, whole, asked, local, m_zones, roiFlag, listed, want, updates, drops>>

\* SIGINT, a crash, a loss of power.
Stop ==
  /\ server # "down" /\ stops < MaxStops
  /\ stops' = stops + 1
  /\ Ends

-----------------------------------------------------------------------------
(* handle_qt_command, MSG_ROI_UPDATE. *)
LoadConfig(c, z, roi) ==
  /\ server = "up" /\ session[c] \in {"list", "loop"} /\ pc[c] = "idle" /\ updates < MaxUpdates
  /\ updates' = updates + 1
  /\ asked' = [asked EXCEPT ![c] = <<z, roi>>]
  /\ local' = [local EXCEPT ![c] = Load]
  /\ pc' = [pc EXCEPT ![c] = "loaded"]
  /\ clash' = (clash \/ Busy # {})
  /\ UNCHANGED <<config, whole, server, m_zones, roiFlag, session, listed, want, stops, drops>>

\* The entry of the zone is replaced, or appended; the rest is kept.
Changed_ZonesOnly(cfg, change) ==
  [EmptyObject EXCEPT !.zones = [cfg.zones EXCEPT ![change[1]] = change[2]]]
Changed(cfg, change) == [cfg EXCEPT !.zones[change[1]] = change[2]]

\* The step of an update that sets g_roi_updated: the last.
FlagRaised_First(step) == step = "loaded"
FlagRaised(step) == step = "flag"

\* ConfigManager::save: the ofstream's constructor truncates the file ...
OpenForSave(c) ==
  /\ pc[c] = "loaded"
  /\ local' = [local EXCEPT ![c] = Changed(@, asked[c])]
  /\ whole' = FALSE
  /\ roiFlag' = (roiFlag \/ FlagRaised(pc[c]))
  /\ pc' = [pc EXCEPT ![c] = "write"]
  /\ UNCHANGED <<config, server, asked, m_zones, session, listed, want, clash, counters>>

\* ... and its destructor writes it out.
WriteAndClose(c) ==
  /\ pc[c] = "write"
  /\ config' = local[c] /\ whole' = TRUE
  /\ want' = [want EXCEPT ![asked[c][1]] = asked[c][2]]
  /\ pc' = [pc EXCEPT ![c] = "saved"]
  /\ UNCHANGED <<server, asked, local, m_zones, roiFlag, session, listed, clash, counters>>

\* What g_analyzer.loadConfig works from: it loads before it takes the lock.
AnalyzerLoads_Own(c) == [local[c] EXCEPT !.zones = [NoZones EXCEPT ![asked[c][1]] = asked[c][2]]]
AnalyzerLoads(c) == Load

ReloadAnalyzer(c) ==
  /\ pc[c] = "saved"
  /\ local' = [local EXCEPT ![c] = AnalyzerLoads(c)]
  /\ pc' = [pc EXCEPT ![c] = "apply"]
  /\ UNCHANGED <<config, whole, server, asked, m_zones, roiFlag, session, listed, want, clash,
                 counters>>

\* Under m_level_mutex; then g_roi_updated.
ApplyZones(c) ==
  /\ pc[c] = "apply"
  /\ m_zones' = local[c].zones
  /\ pc' = [pc EXCEPT ![c] = "flag"]
  /\ UNCHANGED <<config, whole, server, asked, local, roiFlag, session, listed, want, clash,
                 counters>>

SetFlag(c) ==
  /\ pc[c] = "flag"
  /\ roiFlag' = (roiFlag \/ FlagRaised(pc[c]))
  /\ pc' = [pc EXCEPT ![c] = "idle"]
  /\ UNCHANGED <<config, whole, server, asked, local, m_zones, session, listed, want, clash,
                 counters>>

Update(c) == OpenForSave(c) \/ WriteAndClose(c) \/ ReloadAnalyzer(c) \/ ApplyZones(c) \/ SetFlag(c)

-----------------------------------------------------------------------------
(* handle_client. *)

\* connect_db: without "db" an exception leaves the detached thread.
Connect(c) ==
  /\ server = "up" /\ session[c] = "off"
  /\ \/ /\ Load.base
        /\ session' = [session EXCEPT ![c] = "greet"]
        /\ UNCHANGED <<config, whole, server, pc, asked, local, m_zones, roiFlag, listed, want,
                       clash, counters>>
     \/ ~Load.base /\ Ends /\ UNCHANGED stops

\* The list is sent on connection, before the reader starts, and whenever the loop has found the flag set.
SendList(c) ==
  /\ session[c] \in {"greet", "list"}
  /\ session' = [session EXCEPT ![c] = "loop"]
  /\ \/ Load.zones # NoZones /\ listed' = Load.zones /\ UNCHANGED drops
     \/ Load.zones = NoZones /\ UNCHANGED <<listed, drops>>
     \/ Load.zones # NoZones /\ drops < MaxDrops /\ drops' = drops + 1 /\ UNCHANGED listed
  /\ UNCHANGED <<config, whole, server, pc, asked, local, m_zones, roiFlag, want, clash,
                 updates, stops>>

\* g_roi_updated.exchange(false); the list is loaded afterwards.
TakeFlag(c) ==
  /\ session[c] = "loop" /\ roiFlag
  /\ roiFlag' = FALSE
  /\ session' = [session EXCEPT ![c] = "list"]
  /\ UNCHANGED <<config, whole, server, pc, asked, local, m_zones, listed, want, clash, counters>>

\* The client is gone; its reader thread has ended.
Disconnect(c) ==
  /\ session[c] = "loop" /\ pc[c] = "idle"
  /\ session' = [session EXCEPT ![c] = "off"]
  /\ UNCHANGED <<config, whole, server, pc, asked, local, m_zones, roiFlag, listed, want, clash,
                 counters>>

Next ==
  \/ Start \/ InitDefaultRois \/ Stop
  \/ \E c \in Clients, z \in Zones, roi \in Rois : LoadConfig(c, z, roi)
  \/ \E c \in Clients : Update(c)
  \/ \E c \in Clients : Connect(c) \/ SendList(c) \/ TakeFlag(c) \/ Disconnect(c)

(* Threads go on; clients and operators do what they like. *)
Fairness ==
  /\ WF_vars(InitDefaultRois)
  /\ \A c \in Clients : WF_vars(Update(c)) /\ WF_vars(SendList(c)) /\ WF_vars(TakeFlag(c))

Spec == Init /\ [][Next]_vars /\ Fairness

-----------------------------------------------------------------------------
(* Type invariant. *)
TypeOK ==
  /\ config \in Configs /\ whole \in BOOLEAN /\ server \in {"down", "init", "up"}
  /\ pc \in [Clients -> {"idle", "loaded", "write", "saved", "apply", "flag"}]
  /\ asked \in [Clients -> Zones \X Rois] /\ local \in [Clients -> Configs]
  /\ m_zones \in ZoneLists /\ listed \in ZoneLists /\ want \in ZoneLists
  /\ roiFlag \in BOOLEAN /\ clash \in BOOLEAN
  /\ session \in [Clients -> {"off", "greet", "list", "loop"}]
  /\ updates \in Nat /\ stops \in Nat /\ drops \in Nat

(* As long as no two updates overlap and no stop falls between the opening and *)
(* the closing of the file, config.json is readable outside of a save, every   *)
(* completed update is in it, through restarts too, and no update has cost the *)
(* settings of the database and the cameras.                                   *)
UpdatesKept ==
  ~clash => config.base /\ config.zones = want /\ (whole \/ Saving)

(* Under the same condition the analyzer counts in the zones of the file       *)
(* whenever no update is under way; loadConfig reads the file before it takes  *)
(* the lock, so that overlapping updates may leave it with an older list.      *)
AnalyzerAgrees ==
  ~clash /\ server = "up" /\ Busy = {} => m_zones = config.zones

(* Once the updates have ended, the list sent last is that of the file: the    *)
(* flag is set after the file is written and cleared before it is read, so no  *)
(* update falls between.  Not if a list met a full queue, or nobody is         *)
(* connected to be sent it.                                                    *)
NewestListSent ==
  <>[](\/ server # "up" \/ drops > 0 \/ \A c \in Clients : session[c] = "off"
       \/ listed = config.zones)

(* "When the ROI has been updated, send it again" (client_handler.cpp:279):    *)
(* every session that is connected when an update ends sends the list again.   *)
EveryClientTold ==
  \A c, d \in Clients : (pc[c] = "flag" /\ session[d] = "loop") ~> session[d] # "loop"
=============================================================================
