SPECIFICATION StreamSpec
CONSTANTS
    Node = {n1, n2}
    Relation = {r1}
    Version <- Versions
    LongMax = 4
    MaxIssued = 3
    NoVersion = NoVersion
    NoEnds = NoEnds
    Unreadable = Unreadable
SYMMETRY Symmetric
INVARIANTS
    MissingWereLost
    NestedStreamNeverDurable
PROPERTY PastChangesOnlyTwice
