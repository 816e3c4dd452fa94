SPECIFICATION Spec
CONSTANTS
  Clients = {c1, c2}
  Zones = {z1, z2}
  Rois = {r0, r1}
  NoRoi = NoRoi
  Default = r0
  MaxUpdates = 2
  MaxStops = 1
  MaxDrops = 1
INVARIANTS TypeOK UpdatesKept AnalyzerAgrees
PROPERTIES NewestListSent
CHECK_DEADLOCK FALSE
