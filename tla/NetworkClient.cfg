SPECIFICATION Spec
CONSTANTS
  CamLimit = 1
  JsonLimit = 2
  MaxPackets <- MCPackets
  MaxConnects = 2
INVARIANTS NothingFreedInUse PacketsInOrder OneMixturePerReconnect
PROPERTIES RoomForData SessionEnds
CHECK_DEADLOCK FALSE
