CONSTANTS
  p1 = p1
  p2 = p2
  t1 = t1
  t2 = t2
  t3 = t3
  u0 = u0
  u1 = u1
  u2 = u2
  u3 = u3
  Procs <- MCProcs
  Txs <- MCTxs
  InputIDs <- MCInputIDs
  Produced <- MCProduced
  GenesisUTXOs <- MCGenesisUTXOs
SPECIFICATION Spec
INVARIANT TypeOK
INVARIANT RecordedTxsAreApplied
INVARIANT QuiescentUTXOsMatchTxs
INVARIANT NoConcurrentMapAccess
PROPERTY EveryCallReturns
