SPECIFICATION Spec
CONSTANTS
    G = G
    a1 = a1
    a2 = a2
    a3 = a3
    b2 = b2
    b3 = b3
    c1 = c1
    c2 = c2
    c3 = c3
    Genesis = G
    None = None
    Blocks <- ThreeWay
    Prev <- MCPrev
    Proof <- ThreeWayProof
    Addr <- MCAddr
    WellFormed <- WithoutC3
    Connectable <- WithoutB2
    ConnectBatch = 2
    MaxAhead = 2
    MinWork = 0
    Calls <- PruneCalls
    MaxCalls = 2
INVARIANTS LinkedExact CandidatesComplete
PROPERTIES NoRegress
