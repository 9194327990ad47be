SPECIFICATION Spec
CONSTANTS
  Genesis = Genesis
  Null = Null
  A1 = A1
  A2 = A2
  A3 = A3
  A4 = A4
  B1 = B1
  B2 = B2
  Blocks <- MCBlocks
  Parent <- MCParent
  Addr <- MCAddr
  BadBlock = {}
  BadConnect = {}
  MinKeep = 2
  Rpc = {"invalidate"}
  MaxCalls = 1
  MaxRestarts = 0
INVARIANTS
  PruneLeavesCandidate
CHECK_DEADLOCK FALSE
