SPECIFICATION CacheSpec
CONSTANTS
    o1 = o1
    o2 = o2
    c1 = c1
    c2 = c2
    b1 = b1
    b2 = b2
    Spent = Spent
    NoEntry = NoEntry
    Null = Null
    Outpoints <- MCOutpoints
    Coins <- MCCoins
    Blocks <- MCBlocks
INVARIANTS ViewSound NeverThrows
PROPERTY Refines
