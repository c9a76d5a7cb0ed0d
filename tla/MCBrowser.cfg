SPECIFICATION BrowserSpec
CONSTANTS
    c1 = c1
    c2 = c2
    c3 = c3
    NoLine = NoLine
    City <- Cities
    Road <- Roads
    Path <- Paths
    MaxQueries = 3
    i1 = i1
    Image = {i1}
    MaxCalls = 3
    MaxEvents = 1
    NaN = NaN
    Attr = {"x", "y"}
    Documents <- AnimatedDocuments
    FrameTime = 30
    None = None
INVARIANTS
    ShowsLastAnswer
    OneLoop
    EndsAsAsked
PROPERTIES
    EveryAnswerSettles
    LoopDoesItsWork
    AnimationsEnd
CHECK_DEADLOCK FALSE
