SPECIFICATION Spec
CONSTANTS
    OutPoints = {o1, o2}
    Coins = {c1, c2, u1}
    Unspendable = {u1}
    Spent = Spent
    NoEntry = NoEntry
    Blocks = {b1, b2}
    NullHash = NullHash
INVARIANTS
    NoLogicError
    FreshMeansAbsentBelow
    CleanMatchesParent
PROPERTIES
    ImplementsViews
