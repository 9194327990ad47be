SPECIFICATION Spec
CONSTANTS
  Genesis = Genesis
  None = None
  A1 = A1
  A2 = A2
  A3 = A3
  B1 = B1
  B2 = B2
  Good = Good
  Slow = Slow
  Peers = {Good, Slow}
  Outbound = {Good, Slow}
  Punctual = {Good}
  Offers <- MCOffers
  Blocks <- MCBlocks
  Parent <- MCParent
  BadConnect = {B1}
  RecentHeight = 2
  MinKeep = 2
  Window = 2
  MaxInTransit = 2
  MaxProtect = 1
INVARIANTS
  InFlightAgrees
  NoHoleBelowLastCommon
PROPERTIES
  NoRedundantRequest
  SyncsWithPunctual
CHECK_DEADLOCK FALSE
