SPECIFICATION Spec
CONSTANTS
  Numerals <- TheNumerals
  Tables <- TheTables
  Partners <- ThePartners
INVARIANTS
  MapsBuilt
  PrefixesOnly
  EntriesBuilt
CHECK_DEADLOCK FALSE
