SPECIFICATION SessionFairSpec
CONSTANTS
  alice = alice
  bob = bob
  none = none
  NoTable = none
  Nobody = Nobody
  Clients = {alice, bob}
  BacklogSize = 2
  MaxRequests = 3
  MaxFaults = 2
  Tables <- TwoVersions
INVARIANTS
  TypeOK
  RepliesMatch
  DataFromOnlyClient
  SuccessIsWhole
  PromisesKept
PROPERTIES
  RequestsAnswered
CHECK_DEADLOCK FALSE
