SPECIFICATION Spec
CONSTANTS
  g = g
  a1 = a1
  a2 = a2
  b1 = b1
  b2 = b2
  Blocks = {g, a1, a2, b1, b2}
  Genesis = g
  Parent <- MCParent
  Height <- MCHeight
  Ancestors <- MCAncestors
  MaxMoves = 2
  MaxRestarts = 1
  MaxPending = 4
INVARIANTS
  IndexedSequentially
CHECK_DEADLOCK FALSE
