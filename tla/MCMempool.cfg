SPECIFICATION Spec
CONSTANTS
  f = f
  p = p
  q = q
  r = r
  s = s
  u = u
  w = w
  i = i
  n = n
  z = z
  ca = ca
  A1 = A1
  A2 = A2
  B1 = B1
  B2 = B2
  C1 = C1
  C2 = C2
  C3 = C3
  Genesis = Genesis
  None = None
  Txs <- MCTxs
  Coinbases <- MCCoinbases
  OutPoints <- MCOutPoints
  Creator <- MCCreator
  Vin <- MCVin
  Size <- MCSize
  Fee <- MCFee
  LockTime <- MCLockTime
  RelLock <- MCRelLock
  Disabled = Disabled
  Replaceable = {q, s, p}
  NonStandard = {f, n}
  Blocks <- MCBlocks
  Parent <- MCParent
  BlockTxs <- MCBlockTxs
  BadConnect = {C3}
  Maturity = 2
  LimitAncestors = 3
  LimitAncestorSize = 10
  LimitDescendants = 4
  LimitDescendantSize = 10
  MaxReplaced = 3
  RelayRate = 1000
  MaxSize = 4
  MaxDisconnected = 3
  Deltas <- MCDeltas
  MaxCalls = 1
INVARIANTS
  TotalsMatchLinks
  ConsistentAtRest
  DisconnectedApart
  IndexesAgree
PROPERTIES
  ReplacementPays
