SPECIFICATION Spec
CONSTANTS
  PacketSize <- MCPacketSize
  RespSize <- MCRespSize
  WordBytes <- MCWordBytes
  RequestLens <- MCRequestLens
  Counts <- MCCounts
  ByteLens <- MCByteLens
  InfoLens <- MCInfoLens
  ClocksKhz <- MCClocksKhz
INVARIANT WordsFollowHeader
