-------------------------- MODULE ServerConfigProofs --------------------------
(***************************************************************************)
(* For any number of clients, zones, updates and stops: the type           *)
(* invariant, and that without overlap and without a stop in a save the    *)
(* file keeps every update and the analyzer ends with the zones of the     *)
(* file.  The inductive invariant says who may be where in an update, and  *)
(* what the copy in its hands is worth at each step.                       *)
(***************************************************************************)
EXTENDS ServerConfig, TLAPS

(* At most one update is under way, and only in a running server. *)
OneUpdate ==
  /\ \A c, d \in Clients : pc[c] # "idle" /\ pc[d] # "idle" => c = d
  /\ \A c \in Clients : pc[c] # "idle" => server = "up"

(* What each step of an update has in hand. *)
InHand(c) ==
  /\ pc[c] = "loaded" => local[c] = config
  /\ pc[c] = "write" => local[c] = Changed(config, asked[c])
  /\ pc[c] = "apply" => local[c].zones = config.zones
  /\ pc[c] = "flag" => m_zones = config.zones

FileKept ==
  /\ config.base /\ config.zones = want
  /\ whole \/ Saving

Quiet == server = "up" /\ (\A c \in Clients : pc[c] = "idle") => m_zones = config.zones

Kept == OneUpdate /\ (\A c \in Clients : InHand(c)) /\ FileKept /\ Quiet

IInv == TypeOK /\ (~clash => Kept)

-----------------------------------------------------------------------------
LEMMA NoZonesType == NoZones \in ZoneLists
BY DEF NoZones, ZoneLists

LEMMA LoadType ==
  ASSUME config \in Configs, whole \in BOOLEAN
  PROVE  Load \in Configs
BY NoZonesType DEF Load, EmptyObject, Configs

LEMMA ChangedType ==
  ASSUME NEW cfg \in Configs, NEW change \in Zones \X Rois
  PROVE  /\ Changed(cfg, change) \in Configs
         /\ Changed(cfg, change).base = cfg.base
         /\ Changed(cfg, change).zones = [cfg.zones EXCEPT ![change[1]] = change[2]]
BY DEF Changed, Configs, ZoneLists

LEMMA InitType == Init => TypeOK
<1> SUFFICES ASSUME Init PROVE TypeOK
    OBVIOUS
<1>1. (CHOOSE z \in Zones : TRUE) \in Zones
  BY ConfigAssumption
<1>2. asked \in [Clients -> Zones \X Rois]
  BY <1>1, ConfigAssumption DEF Init
<1> QED BY <1>2, NoZonesType DEF Init, TypeOK, Configs, EmptyObject

LEMMA StepType == TypeOK /\ [Next]_vars => TypeOK'
<1> SUFFICES ASSUME TypeOK, [Next]_vars PROVE TypeOK'
    OBVIOUS
<1> USE DEF TypeOK, counters
<1>0. Load \in Configs
  BY LoadType
<1>1. CASE Start
  BY <1>1 DEF Start, Configs
<1>2. CASE InitDefaultRois
  <2>1. [z \in Zones |-> Default] \in ZoneLists
    BY ConfigAssumption DEF ZoneLists
  <2> QED BY <1>2, <2>1 DEF InitDefaultRois, Configs
<1>3. ASSUME Ends, UNCHANGED stops \/ stops' = stops + 1 PROVE TypeOK'
  BY <1>3 DEF Ends
<1>4. CASE Stop
  BY <1>3, <1>4 DEF Stop
<1>5. ASSUME NEW c \in Clients, NEW z \in Zones, NEW roi \in Rois, LoadConfig(c, z, roi)
      PROVE  TypeOK'
  BY <1>0, <1>5 DEF LoadConfig
<1>6. ASSUME NEW c \in Clients, Update(c) PROVE TypeOK'
  <2>1. Changed(local[c], asked[c]) \in Configs
    BY ChangedType
  <2>2. CASE OpenForSave(c)
    BY <2>1, <2>2 DEF OpenForSave
  <2>3. CASE WriteAndClose(c)
    <3>1. asked[c][1] \in Zones /\ asked[c][2] \in Rois
      OBVIOUS
    <3>2. want' \in ZoneLists
      BY <2>3, <3>1 DEF WriteAndClose, ZoneLists
    <3> QED BY <2>3, <3>2 DEF WriteAndClose
  <2>4. CASE ReloadAnalyzer(c)
    BY <1>0, <2>4 DEF ReloadAnalyzer, AnalyzerLoads
  <2>5. CASE ApplyZones(c)
    BY <2>5 DEF ApplyZones, Configs
  <2>6. CASE SetFlag(c)
    BY <2>6 DEF SetFlag
  <2> QED BY <1>6, <2>2, <2>3, <2>4, <2>5, <2>6 DEF Update
<1>7. ASSUME NEW c \in Clients, Connect(c) PROVE TypeOK'
  <2>1. CASE Ends /\ UNCHANGED stops
    BY <1>3, <2>1
  <2>2. CASE ~(Ends /\ UNCHANGED stops)
    BY <1>7, <2>2 DEF Connect
  <2> QED BY <2>1, <2>2
<1>8. ASSUME NEW c \in Clients, SendList(c) PROVE TypeOK'
  BY <1>0, <1>8 DEF SendList, Configs
<1>9. ASSUME NEW c \in Clients, TakeFlag(c) PROVE TypeOK'
  BY <1>9 DEF TakeFlag
<1>10. ASSUME NEW c \in Clients, Disconnect(c) PROVE TypeOK'
  BY <1>10 DEF Disconnect
<1>11. CASE UNCHANGED vars
  BY <1>11 DEF vars
<1> QED BY <1>1, <1>2, <1>4, <1>5, <1>6, <1>7, <1>8, <1>9, <1>10, <1>11 DEF Next

-----------------------------------------------------------------------------
LEMMA InitKept == Init => Kept
BY DEF Init, Kept, OneUpdate, InHand, FileKept, Quiet

(* A readable file is what load returns; outside of a save it is readable. *)
LEMMA LoadWhole ==
  ASSUME FileKept, ~Saving
  PROVE  whole /\ Load = config
BY DEF FileKept, Load

LEMMA StepKept == IInv /\ [Next]_vars /\ ~clash' => Kept'
<1> SUFFICES ASSUME TypeOK, ~clash => Kept, [Next]_vars, ~clash' PROVE Kept'
    BY DEF IInv
<1>0. ~clash
  BY DEF Next, Start, InitDefaultRois, Stop, Ends, LoadConfig, Update, OpenForSave, WriteAndClose,
         ReloadAnalyzer, ApplyZones, SetFlag, Connect, SendList, TakeFlag, Disconnect, vars
<1> USE <1>0 DEF Kept, OneUpdate
<1>1. CASE Start
  <2>1. whole /\ config.base /\ \A c \in Clients : pc[c] = "idle"
    BY <1>1 DEF Start, Load, EmptyObject
  <2>2. FileKept' /\ Quiet'
    BY <1>1, <2>1 DEF Start, FileKept, Quiet, Saving
  <2> QED BY <1>1, <2>1, <2>2 DEF Start, InHand
<1>2. CASE InitDefaultRois
  <2>1. \A c \in Clients : pc[c] = "idle"
    BY <1>2 DEF InitDefaultRois
  <2>2. config'.base /\ config'.zones = want'
    BY <1>2 DEF InitDefaultRois, FileKept, TypeOK, Configs
  <2> QED BY <1>2, <2>1, <2>2 DEF InitDefaultRois, InHand, FileKept, Quiet
<1>3. ASSUME Ends PROVE Kept'
  <2>1. ~Saving /\ server' = "down" /\ \A c \in Clients : pc'[c] = "idle"
    BY <1>3 DEF Ends
  <2> QED BY <1>3, <2>1 DEF Ends, InHand, FileKept, Quiet
<1>4. CASE Stop
  BY <1>3, <1>4 DEF Stop
<1>5. ASSUME NEW c \in Clients, NEW z \in Zones, NEW roi \in Rois, LoadConfig(c, z, roi)
      PROVE  Kept'
  <2>1. \A d \in Clients : pc[d] = "idle"
    BY <1>5 DEF LoadConfig, Busy
  <2>2. Load = config /\ whole
    BY <1>5, <2>1, LoadWhole DEF LoadConfig, Saving
  <2>3. \A d \in Clients : pc'[d] = IF d = c THEN "loaded" ELSE "idle"
    BY <1>5, <2>1 DEF LoadConfig, TypeOK
  <2>4. local'[c] = config
    BY <1>5, <2>2 DEF LoadConfig, TypeOK
  <2> QED BY <1>5, <2>2, <2>3, <2>4 DEF LoadConfig, InHand, FileKept, Quiet
<1>6. ASSUME NEW c \in Clients, Update(c) PROVE Kept'
  <2>1. pc[c] # "idle" /\ server = "up" /\ \A d \in Clients \ {c} : pc[d] = "idle"
    BY <1>6 DEF Update, OpenForSave, WriteAndClose, ReloadAnalyzer, ApplyZones, SetFlag
  <2>2. server' = "up" /\ \A d \in Clients \ {c} : pc'[d] = "idle"
    BY <1>6, <2>1 DEF Update, OpenForSave, WriteAndClose, ReloadAnalyzer, ApplyZones, SetFlag, TypeOK
  <2>3. OneUpdate'
    BY <2>2
  <2>4. \A d \in Clients \ {c} : InHand(d)'
    BY <2>2 DEF InHand
  <2>5. CASE OpenForSave(c)
    <3>1. local'[c] = Changed(config, asked[c])
      BY <2>5 DEF OpenForSave, InHand, TypeOK
    <3>2. pc'[c] = "write"
      BY <2>5 DEF OpenForSave, TypeOK
    <3> QED BY <2>3, <2>4, <2>5, <3>1, <3>2 DEF OpenForSave, InHand, FileKept, Quiet, Saving
  <2>6. CASE WriteAndClose(c)
    <3>1. config' = Changed(config, asked[c])
      BY <2>6 DEF WriteAndClose, InHand
    <3>2. config'.base /\ config'.zones = want'
      <4>1. config \in Configs /\ asked[c] \in Zones \X Rois
        BY DEF TypeOK
      <4>2. config'.base = config.base
            /\ config'.zones = [config.zones EXCEPT ![asked[c][1]] = asked[c][2]]
        BY <3>1, <4>1, ChangedType
      <4> QED BY <2>6, <4>2 DEF WriteAndClose, FileKept
    <3>3. pc'[c] = "saved"
      BY <2>6 DEF WriteAndClose, TypeOK
    <3> QED BY <2>3, <2>4, <2>6, <3>2, <3>3 DEF WriteAndClose, InHand, FileKept, Quiet
  <2>7. CASE ReloadAnalyzer(c)
    <3>1. ~Saving /\ Load = config /\ whole
      BY <2>1, <2>7, LoadWhole DEF ReloadAnalyzer, Saving
    <3>2. pc'[c] = "apply" /\ local'[c].zones = config'.zones
      BY <2>7, <3>1 DEF ReloadAnalyzer, AnalyzerLoads, TypeOK
    <3> QED BY <2>3, <2>4, <2>7, <3>1, <3>2 DEF ReloadAnalyzer, InHand, FileKept, Quiet
  <2>8. CASE ApplyZones(c)
    <3>1. pc'[c] = "flag" /\ m_zones' = config'.zones
      BY <2>8 DEF ApplyZones, InHand, TypeOK
    <3>2. whole
      BY <2>1, <2>8, LoadWhole DEF ApplyZones, Saving
    <3> QED BY <2>3, <2>4, <2>8, <3>1, <3>2 DEF ApplyZones, InHand, FileKept, Quiet
  <2>9. CASE SetFlag(c)
    <3>1. pc'[c] = "idle" /\ m_zones' = config'.zones
      BY <2>9 DEF SetFlag, InHand, TypeOK
    <3>2. whole
      BY <2>1, <2>9, LoadWhole DEF SetFlag, Saving
    <3> QED BY <2>3, <2>4, <2>9, <3>1, <3>2 DEF SetFlag, InHand, FileKept, Quiet
  <2> QED BY <1>6, <2>5, <2>6, <2>7, <2>8, <2>9 DEF Update
<1>7. ASSUME NEW c \in Clients, Connect(c) PROVE Kept'
  <2>1. CASE Ends
    BY <1>3, <2>1
  <2>2. CASE ~Ends
    BY <1>7, <2>2 DEF Connect, InHand, FileKept, Quiet, Saving
  <2> QED BY <2>1, <2>2
<1>8. ASSUME NEW c \in Clients, SendList(c) \/ TakeFlag(c) \/ Disconnect(c) PROVE Kept'
  BY <1>8 DEF SendList, TakeFlag, Disconnect, InHand, FileKept, Quiet, Saving
<1>9. CASE UNCHANGED vars
  BY <1>9 DEF vars, InHand, FileKept, Quiet, Saving
<1> QED BY <1>1, <1>2, <1>4, <1>5, <1>6, <1>7, <1>8, <1>9 DEF Next

-----------------------------------------------------------------------------
(* The inductive invariant holds in every state of every execution. *)
THEOREM Invariant == Spec => []IInv
<1>1. Init => IInv
  BY InitType, InitKept DEF IInv
<1>2. IInv /\ [Next]_vars => IInv'
  BY StepType, StepKept DEF IInv
<1> QED BY <1>1, <1>2, PTL DEF Spec

(* Every variable keeps its type. *)
THEOREM TypeCorrect == Spec => []TypeOK
<1>1. IInv => TypeOK
  BY DEF IInv
<1> QED BY <1>1, Invariant, PTL

(* Updates that do not overlap and are not cut short by a stop are all in    *)
(* config.json, beside the other settings, and it is readable outside saves. *)
THEOREM UpdatesAreKept == Spec => []UpdatesKept
<1>1. IInv => UpdatesKept
  BY DEF IInv, Kept, FileKept, UpdatesKept
<1> QED BY <1>1, Invariant, PTL

(* Between such updates the analyzer counts in the zones of the file. *)
THEOREM AnalyzerIsCurrent == Spec => []AnalyzerAgrees
<1>1. IInv => AnalyzerAgrees
  BY DEF IInv, Kept, Quiet, AnalyzerAgrees, Busy
<1> QED BY <1>1, Invariant, PTL
=============================================================================
