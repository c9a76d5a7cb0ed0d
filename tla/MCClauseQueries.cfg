SPECIFICATION PlanSpec
CONSTANTS
    MaxPredicates = 3
    Node = {n1, n2, n3}
    Relation = {r1, r2}
    n1 = n1
    n2 = n2
    n3 = n3
    r1 = r1
    r2 = r2
    g1 = g1
    Version = {1, 2}
    LongMax = 3
    MaxIssued = 2
    NoVersion = NoVersion
    Unreadable = Unreadable
    Session = {s1, s2}
    Graphs <- TwoGraphs
    Filters <- Ats
    NoQuery = NoQuery
    Nothing = Nothing
    GraphPool <- OneNamed
    Leaf = {"all", "store", "load"}
INVARIANTS
    FilterMeansPredicates
    RightIfUndisturbed
    VersionLeakOrigin
    NameLeakOrigin
