SPECIFICATION Spec
CONSTANTS
    G = G
    m1 = m1
    a2 = a2
    b2 = b2
    b3 = b3
    Blocks <- MCBlocks
    Genesis = G
    Prev <- MCPrev
    Proof <- MCProof
    Addr <- MCAddr
    None = None
    Bad = Bad
    MaxMoves = 3
    MaxFlushes = 1
    MaxStarts = 1
INVARIANTS IndexExact CommittedUsable AnswerHolds NeverFatal
PROPERTY GetsInSync
CHECK_DEADLOCK FALSE
