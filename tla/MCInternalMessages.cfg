SPECIFICATION Spec
CONSTANTS
  Chains <- MCChains
  Peers <- MCPeers
  Self = "self"
  Deadline = 1
  MaxTime = 3
  MaxRequests = 2
  MaxEvents = 0
INVARIANTS
  TypeOK
  OneOutcomePerRequest
PROPERTIES
  ImplementsRequestOutcome
CHECK_DEADLOCK FALSE
