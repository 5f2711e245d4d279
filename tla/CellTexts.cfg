SPECIFICATION CellSpec
CONSTANTS
  noAnswer = noAnswer
  NoAnswer = noAnswer
  NameLength = 7
  StringType <- TheType
  Texts <- TheTexts
INVARIANTS
  AllLinesRead
  RowsRectangular
  CellsReadBack
  TokensFit
PROPERTIES
  ReaderEnds
CHECK_DEADLOCK FALSE
