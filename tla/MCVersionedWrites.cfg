SPECIFICATION WriteSpec
CONSTANTS
    Node = {n1, n2}
    Relation = {}
    Version = {1, 2}
    LongMax = 3
    MaxIssued = 2
    NoVersion = NoVersion
    Unreadable = Unreadable
    Session = {s1, s2}
    Window <- Windows
SYMMETRY Symmetric
INVARIANTS
    TornOnlyByOverlap
    VersionsAsAsked
    GhostsWereGone
