SPECIFICATION FairSpec
CONSTANTS
  none = none
  NoTable = none
  Numerals <- TheNumerals
  Tables <- GrowingTables
  Apis = {"table"}
  MaxFaults = 1
INVARIANTS
  Contiguous
  ExactWhenGrowing
  JoinStored
PROPERTIES
  ImplementsStore
  UploadReturns
