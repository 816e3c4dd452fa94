SPECIFICATION FairSpec
CONSTANTS
  Clients = {c1, c2}
  Gas <- MCGas
  MaxCmds = 2
  MaxLost = 1
  MaxDevFails = 1
INVARIANTS TypeOK OneStaleWrite ModesAgree
PROPERTIES AutoSettles
