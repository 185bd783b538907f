CONSTANTS
  Messages <- MCMessages
  MaxMessages = 3
  BufferSize = 64
  Width = 2
SPECIFICATION FairSpec
CHECK_DEADLOCK FALSE
INVARIANTS
  DecodedAsSent
  DecodeIsDefined
PROPERTY EveryMessageDecoded
