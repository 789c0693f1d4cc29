SPECIFICATION FairSpec
CONSTANTS
  PacketSize <- MCPacketSize
  RespSize <- MCRespSize
  WordBytes <- MCWordBytes
  RequestLens <- MCRequestLens
  Counts <- MCCounts
  ByteLens <- MCByteLens
  InfoLens <- MCInfoLens
  ClocksKhz <- MCClocksKhz
INVARIANTS
  TypeOK
  StoresInBounds
  NoWordDropped
  OwedInOrder
  ReplyFresh
  ClockAgrees
PROPERTY CommandsAnswered
