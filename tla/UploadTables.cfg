SPECIFICATION Spec
CONSTANTS
  none = none
  NoTable = none
  Numerals <- TheNumerals
  Tables <- JoinTables
  Apis = {"file", "table"}
  MaxFaults = 2
INVARIANTS
  TypeOK
  PostingsResolve
  Stored
PROPERTIES
  OnlyOwnEntries
