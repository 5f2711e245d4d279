SPECIFICATION Spec
CONSTANTS
  noColumn = noColumn
  undefined = undefined
  garbage = garbage
  notRun = notRun
  noTable = noTable
  NoColumn = noColumn
  Undefined = undefined
  Garbage = garbage
  NotRun = notRun
  NoTable = noTable
  Numerals <- TheNumerals
  ValueOf <- TheValues
  Alphabetical <- TheOrder
  Modulus = 35
  Courses <- TheCourses
  Students <- AllStudents
  Queries <- AllQueries
INVARIANTS
  AnswersEvery
CHECK_DEADLOCK FALSE
