SPECIFICATION Spec
CONSTANTS
  Sessions = {s1, s2, s3}
  CalibFrames = 2
  MaxClicks = 3
  NoSession = NoSession
INVARIANTS NoEncoderLost
PROPERTIES SegmentEnds RecordsAgain
CHECK_DEADLOCK FALSE
