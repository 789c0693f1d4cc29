SPECIFICATION Spec
CONSTANTS
  Mps = 2
  BtableSize = 2
  RamSize = 16
  Descriptors <- MCDescriptors
  Length <- MCLength
  ReqSize = 3
  Byte0 = 1
  Profiles <- BothProfiles
  Serial = FALSE
  MaxAborts = 1
  MaxOffset = 3
INVARIANT SentAsWritten
