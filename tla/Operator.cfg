SPECIFICATION Spec
CONSTANTS
    G = G
    a1 = a1
    a2 = a2
    a3 = a3
    b2 = b2
    b3 = b3
    c1 = c1
    c2 = c2
    c3 = c3
    Genesis = G
    None = None
    Blocks <- Fork
    Prev <- MCPrev
    Proof <- ForkProof
    Addr <- MCAddr
    WellFormed <- Fork
    Connectable <- WithoutB3
    ConnectBatch = 2
    MaxAhead = 2
    MinWork = 0
    Calls <- AllCalls
    MaxCalls = 2
INVARIANTS ActiveChainValid CandidatesExact FailedMarksExact BestWhenSettled
PROPERTIES EventuallyBest
