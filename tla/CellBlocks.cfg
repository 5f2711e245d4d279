SPECIFICATION CellSpec
CONSTANTS
  noAnswer = noAnswer
  NoAnswer = noAnswer
  NameLength = 7
  StringType <- TheType
  Texts <- TheTexts
INVARIANTS
  EveryCellReadsBack
CHECK_DEADLOCK FALSE
