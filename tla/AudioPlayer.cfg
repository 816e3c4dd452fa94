SPECIFICATION Spec
VIEW RelativeView
CONSTANTS
  Zones = 2
  QueueMax = 5
  HalfLen = 2
  Prebuffer = 1
  RingLen = 3
  TimeoutHalves = 4
  Files <- MCFiles
  FileLen <- MCFileLen
  MaxGuides = 2
  MaxMissed = 1
  DmaMayFail = TRUE
INVARIANTS TypeOK OwnsOutput
PROPERTIES InOrder WavTailBound StreamPlayedOut WavEnds QueueDrains
