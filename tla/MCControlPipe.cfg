SPECIFICATION FairSpec
CONSTANTS
  Mps = 2
  BtableSize = 2
  RamSize = 16
  Descriptors <- MCDescriptors
  Length <- MCLength
  ReqSize = 3
  Byte0 = 1
  Profiles <- MCProfiles
  Serial = TRUE
  MaxAborts = 1
  MaxOffset = 3
INVARIANTS
  InDataWhole
  TogglesAgree
  BuffersInside
PROPERTIES
  AddressAfterStatus
  TransferEnds
