SPECIFICATION Spec
CONSTANTS
  IDs <- MCIDs
  Payloads <- MCPayloads
  NULL = NULL
  MaxInputs = 2
  MaxOuts = 2
INVARIANTS
  TypeOK
  UTXOsAreTheOutputsInOrder
PROPERTY FlagIsRaisedByVerification
