SPECIFICATION FairSpec
CONSTANTS
  RingSize = 6
  BlockSize = 4
  ReadLen = 4
  MaxSent = 13
  MaxErrors = 1
  MaxStopped = 1
INVARIANTS TypeOK RingInv WholeSamples
PROPERTIES UnreadBytesKept IsFifo ReadyBlockTaken
