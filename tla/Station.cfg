SPECIFICATION Spec
CONSTANTS
  Counts <- MCCounts
  MaxChanges = 1
  MaxLosses = 1
  Poll = 3
  Hold = 1
  Codes = {0, 1}
  PerUnit = 1
  TrainShow = 2
PROPERTIES CongestionShown ScreenComesBack
