SPECIFICATION Spec
CONSTANTS
  Clients = {c1}
  Gas <- MCGas
  MaxCmds = 1
  MaxLost = 0
  MaxDevFails = 0
INVARIANTS ManualObeyed
