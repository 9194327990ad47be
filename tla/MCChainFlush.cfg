SPECIFICATION Spec
CONSTANTS
  Genesis = Genesis
  NullHash = NullHash
  C = C
  A1 = A1
  B1 = B1
  B2 = B2
  p = p
  q = q
  r = r
  s = s
  Blocks <- MCBlocks
  OutPoints <- MCOutPoints
  Parent <- MCParent
  Vtx <- MCVtx
  MinKeep = 1
  PruneAfter = 1
  UIntRange = 1000
  MaxFile = 1
  MaxFaults = 2
INVARIANTS
  MarkedConsistent
  ViewMatchesTip
  Recoverable
  ReplayCompletesTransition
  DataSyncedBeforeIndexed
PROPERTIES
  PruneKeepsRecent
