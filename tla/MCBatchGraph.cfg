SPECIFICATION BatchSpec
CONSTANTS
    Node = {n1, n2}
    Relation = {r1}
    Version <- Versions
    MaxIssued = 2
    Ref = {g1, g2, g3}
    Null = Null
    NoEnds = NoEnds
SYMMETRY Symmetric
INVARIANTS
    MissingWereRolledBack
    VersionsAreGraphs
PROPERTY BegunIsKept
