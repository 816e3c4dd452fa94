SPECIFICATION Spec
CONSTANTS
  Commands <- MCCommands
  ListLens = {13, 251}
  MaxFrames = 3
  MaxLost = 1
INVARIANTS TypeOK AnswerOfItsKind AnswerIsNew LevelsInRange
PROPERTIES NewestHandled
CHECK_DEADLOCK FALSE
