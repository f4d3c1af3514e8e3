CONSTANTS
  n1 = n1
  n2 = n2
  primary = primary
  tracked = tracked
  other = other
  Nodes <- MCNodes
  Subnets <- MCSubnets
  PrimaryNetworkID = primary
  WhitelistedSubnets <- MCWhitelisted
  MaxUint64 = 3
  MaxHeight = 2
  validatorSetsCacheSize = 2
SPECIFICATION MCSpec
INVARIANT TypeOK
INVARIANT CacheAgreesWithChain
INVARIANT AnswersThePastSet
