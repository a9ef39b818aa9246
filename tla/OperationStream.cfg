\* Two devices, pages of one, a socket that holds one message.
SPECIFICATION FairSpec
CONSTANTS
  Reader = {"tablet", "phone"}
  PageSize = 1
  HighWater = 0
  MaxOperations = 2
  MaxFaults = 1
INVARIANTS NoHole RoomIsOpenSockets
PROPERTIES DeadPeerLeaves
CHECK_DEADLOCK FALSE
