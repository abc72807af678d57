SPECIFICATION Spec
CONSTANTS
    Txs <- MCTxs
    Base = "base"
    vin <- MCvin
    nFee <- MCnFee
    nLockTime <- MCnLockTime
    SignalsRBF = {"a", "b", "e"}
    Policies = {{}, {"a"}}
    Coinbases <- MCCoinbases
    Deltas <- MCDeltas
    AncestorLimit = 3
    DescendantLimit = 3
    MaxPool = 4
    MaxDisconnected = 4
    MaxReplacements = 4
    Maturity = 2
    MaxHeight = 2
    MaxBlockTxs = 2
    MaxConnect = 2
    None = None
INVARIANT EntriesExact
INVARIANT PoolMineable
INVARIANT LimitsKept
