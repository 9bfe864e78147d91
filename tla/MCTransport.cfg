SPECIFICATION FairWireSpec
CONSTANTS
  ByteBase = 8
  MemberCap = 2
  ModelCap = 2
  Threads = {"schedule", "handler"}
  Messages <- AllMessages
  Conversations <- AllConversations
  MaxFrame = 600
  RecvBytes = 256
  PartSizes = {1, 3, 11}
  MaxParts = 3
INVARIANTS WireTypeOK FramesInOrder OnlyBadFramesRefused PayloadsSurvive TruncatedIsRefused
PROPERTIES EveryFrameArrives
CHECK_DEADLOCK FALSE
