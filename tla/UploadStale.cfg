SPECIFICATION Spec
CONSTANTS
  none = none
  NoTable = none
  Numerals <- TheNumerals
  Tables <- Versions
  Apis = {"file"}
  MaxFaults = 0
INVARIANTS
  ExactAfterUpload
