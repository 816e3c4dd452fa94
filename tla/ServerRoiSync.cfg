SPECIFICATION Spec
CONSTANTS
  Clients = {c1, c2}
  Zones = {z1, z2}
  Rois = {r0, r1}
  NoRoi = NoRoi
  Default = r0
  MaxUpdates = 1
  MaxStops = 0
  MaxDrops = 0
PROPERTIES EveryClientTold
CHECK_DEADLOCK FALSE
