SPECIFICATION Spec
CONSTANTS
  Genesis = Genesis
  Null = Null
  A1 = A1
  A2 = A2
  A3 = A3
  A4 = A4
  B1 = B1
  B2 = B2
  Blocks <- MCBlocks
  Parent <- MCParent
  Addr <- MCAddr
  BadBlock = {B2}
  BadConnect = {A3}
  MinKeep = 2
  Rpc = {"invalidate", "reconsider"}
  MaxCalls = 2
  MaxRestarts = 0
INVARIANTS
  FailedBlocksAreFailed
CHECK_DEADLOCK FALSE
