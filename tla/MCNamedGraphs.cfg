SPECIFICATION Spec
CONSTANTS
    Session = {s1, s2}
    Node = {n1, n2}
    GraphName = {g1, g2}
    NoName = NoName
    MaxGraphs = 3
SYMMETRY Symmetric
INVARIANTS
    NamedAsAsked
    ReadIsWhole
