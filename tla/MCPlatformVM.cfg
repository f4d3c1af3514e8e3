CONSTANTS
  n1 = n1
  n2 = n2
  primary = primary
  mine = mine
  other = other
  P = P
  X = X
  M1 = M1
  O1 = O1
  Nodes <- MCNodes
  Subnets <- MCSubnets
  PrimaryNetworkID = primary
  WhitelistedSubnets <- MCWhitelisted
  Chains <- MCChains
  SubnetOf <- MCSubnetOf
  StateValidators <- MCStateValidators
  MaxUint64 = 7
  MantissaBits = 2
  BlockIDs <- MCBlockIDs
  LastAcceptedID = "genesis"
SPECIFICATION Spec
INVARIANT TypeOK
INVARIANT UptimesTrackedAndCommitted
INVARIANT CleanShutdown
INVARIANT CreatedChainsAreValidated
INVARIANT PercentConnectedIsAShare
CHECK_DEADLOCK FALSE
