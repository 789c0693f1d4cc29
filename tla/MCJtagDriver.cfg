SPECIFICATION Spec
CONSTANTS
  IrCapture <- MCIrCapture
  DrCapture <- MCDrCapture
  GotoTargets <- MCGotoTargets
  TmsStrings <- MCTmsStrings
  TdiStrings <- MCTdiStrings
  ByteBits = 2
INVARIANTS
  QuietLines
PROPERTIES
  StableWhileHigh
  LandsWhereTracked
  ImplementsService
