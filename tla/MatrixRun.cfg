SPECIFICATION Spec
CONSTANTS
  DashShow = 4
  GasShow = 2
  TempShow = 2
  TrainShow = 4
  Toggle = 1
  Refresh = 2
  Anim = 1
  Sense = 4
  Levels <- MCLevels
  Readings <- MCReadings
  MaxCmds = 2
  MaxWraps = 1
PROPERTIES PanelIsCurrent FullShow CarouselTurns ImplementsLedPanel
