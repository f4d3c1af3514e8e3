SPECIFICATION Spec
CONSTANTS
  Chains <- MCChains
  Peers <- MCPeers
  Self = "self"
  Deadline = 1
  MaxTime = 3
  MaxRequests = 1
  MaxEvents = 2
INVARIANTS
  ConnectionsAreTracked
CHECK_DEADLOCK FALSE
