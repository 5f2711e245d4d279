SPECIFICATION FairSpec
CONSTANTS
  c1 = c1
  c2 = c2
  selMath = selMath
  selBob = selBob
  joinStudent = joinStudent
  projName = projName
  sumAge = sumAge
  Ops <- TheOps
  Plans <- ThePlans
  MaxStages = 3
  Clients = {c1}
  MaxFaults = 3
  MaxRejected = 0
INVARIANTS
  TypeOK
  FreshResult
  OwnTables
  NoLeftover
PROPERTIES
  QueryReturns
