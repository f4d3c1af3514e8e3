CONSTANTS
  A = A
  B = B
  C = C
  D = D
  E = E
  V1 = V1
  V2 = V2
  V3 = V3
  V4 = V4
  Vtxs <- MCVtxs
  Parents <- MCParents
  VtxTxs <- MCVtxTxs
  Txs <- MCTxs
  InputIDs <- MCInputIDs
  Dependencies <- MCDependencies
  Blocks <- MCBlocks
  Parent <- MCParent
  Genesis = 0
  K = 3
  Alpha = 2
  ConcurrentRepolls = 2
  BetaVirtuous = 1
  BetaRogue = 2
  MayFail <- MCMayFail
SPECIFICATION EngineSpec
INVARIANT EngineTypeOK
INVARIANT ConflictSafety
INVARIANT AcceptCallsInOrder
INVARIANT NoLostWakeup
INVARIANT AbandonPropagates
INVARIANT VerticesAcceptedTopologically
INVARIANT NoVertexLeftBehind
INVARIANT AcceptedIsOneRootedPath
INVARIANT TreeHangsFromLastAccepted
INVARIANT NoDecisionLeftBehind
PROPERTY NoDecisionIsRevised
CHECK_DEADLOCK FALSE
