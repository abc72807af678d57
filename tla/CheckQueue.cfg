SPECIFICATION Spec
CONSTANTS
    Workers = {w1, w2}
    Masters = {m1, m2}
    Checks = {c1, c2, c3, c4}
    Valid = {c1, c2, c3}
    nBatchSize = 2
    None = None
    MaxRounds = 2
INVARIANTS VerdictExact MasterNotForgotten
PROPERTIES ControlEnds DestructorEnds
