SPECIFICATION Spec
CHECK_DEADLOCK FALSE
CONSTANTS
    G = G
    m1 = m1
    a2 = a2
    b2 = b2
    b3 = b3
    p = p
    q = q
    r = r
    Genesis = G
    Null = Null
    NoEntry = NoEntry
    Spent = 0
    Blocks <- MCBlocks
    Prev <- MCPrev
    Proof <- MCProof
    Addr <- MCAddr
    Outpoints <- MCOutpoints
    Coins <- MCCoins
    Vtx <- MCVtx
    Keep = 2
    PruneHeights <- MCPruneHeights
    MaxWaiting = 1
    MaxFlushes = 2
    MaxCrashes = 2
INVARIANTS  CoinsExact  DisconnectsCleanly
