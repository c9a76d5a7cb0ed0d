SPECIFICATION Spec
CONSTANTS
    Node = {n1, n2}
    Relation = {}
    Version <- Versions
    MaxIssued = 2
    Ref = {g1, g2, g3, g4}
    Null = Null
SYMMETRY Symmetric
PROPERTY ImplementsSnapshots
