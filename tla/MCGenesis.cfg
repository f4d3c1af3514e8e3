SPECIFICATION Spec
CONSTANTS
  ShortIDs <- MCShortIDs
  NodeIDs <- MCNodeIDs
  Networks <- MCNetworks
  BeaconIPs <- MCBeaconIPs
  BeaconNodeIDs <- MCBeaconNodeIDs
  MaxEntries = 2
  MaxCount = 4
INVARIANTS
  TypeOK
  ParseAgreesWithTexts
  BeaconsArePaired
CHECK_DEADLOCK FALSE
