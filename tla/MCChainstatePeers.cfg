SPECIFICATION Spec
CONSTANTS
  Genesis = Genesis
  Null = Null
  A1 = A1
  A2 = A2
  A3 = A3
  A4 = A4
  B1 = B1
  B2 = B2
  Blocks <- MCLongBlocks
  Parent <- MCParent
  Addr <- MCAddr
  BadBlock = {B2}
  BadConnect = {A2}
  MinKeep = 2
  Rpc = {"precious"}
  MaxCalls = 1
  MaxRestarts = 1
INVARIANTS
  DataLinkedOrWaiting
  CandidatesExact
  PruneLeavesCandidate
  FailedHasCause

  
CHECK_DEADLOCK FALSE
