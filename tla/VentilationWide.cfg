SPECIFICATION FairSpec
CONSTANTS
  Clients = {c1}
  Gas <- MCGasWide
  MaxCmds = 0
  MaxLost = 0
  MaxDevFails = 0
PROPERTIES DangerVentilated
