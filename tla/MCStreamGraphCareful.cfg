SPECIFICATION CarefulSpec
CONSTANTS
    Node = {n1, n2}
    Relation = {r1}
    Version <- Versions
    LongMax = 5
    MaxIssued = 3
    NoVersion = NoVersion
    NoEnds = NoEnds
    Unreadable = Unreadable
INVARIANT EndsVisible
PROPERTY ImplementsTemporalGraph
