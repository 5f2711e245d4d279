SPECIFICATION Spec
CONSTANTS
  alice = alice
  bob = bob
  Nobody = Nobody
  Clients = {alice, bob}
  BacklogSize = 2
  MaxRequests = 3
  MaxFaults = 2
INVARIANTS
  DataFromRequester
CHECK_DEADLOCK FALSE
