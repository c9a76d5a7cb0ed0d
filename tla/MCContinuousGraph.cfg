SPECIFICATION Spec
CONSTANTS
    Node = {n1, n2}
    Relation = {r1}
    Version = {0, 1, 2, 3}
    LongMax = 4
    MaxIssued = 2
    NoVersion = NoVersion
    Unreadable = Unreadable
SYMMETRY Symmetric
INVARIANTS
    OrderedLife
    SubGraphCoversRange
