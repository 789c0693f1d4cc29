SPECIFICATION ProbeSpec
CONSTANTS
  PacketSize <- MCPacketSize
  RespSize <- MCRespSize
  WordBytes <- MCWordBytes
  RequestLens <- MCRequestLens
  Counts <- MCCounts
  ByteLens <- MCByteLens
  InfoLens <- MCInfoLens
  ClocksKhz <- MCClocksKhz
  IrCapture <- MCIrCapture
  DrCapture <- MCDrCapture
  TmsStrings <- MCTmsStrings
  TdiStrings <- MCTdiStrings
  GotoTargets <- MCGotoTargets
  ByteBits <- MCByteBits
INVARIANTS
  NoFalseRead
  TransferLeavesIdle
