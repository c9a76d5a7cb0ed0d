SPECIFICATION SvgSpec
CONSTANTS
    None = None
    NoText = NoText
    NoOpacity = NoOpacity
    Texts <- PaintTexts
    Opacities = {50}
    Frames = 3
    Beyond = 1
    Point <- EndPoints
    Control <- ControlPoints
    MaxSegments = 4
    Element = {"root", "g", "shape"}
    Root = "root"
    StyleTag = "style"
    Unset = Unset
    Sheets <- AllSheets
    Cases <- BlurCases
INVARIANTS
    PaintedAsTweened
    SiblingKeepsItsPaint
    DrawnAsMeant
    MarkersFollowThePath
    FilledByCascade
    ShowsTheDocument
    EachPassAverages
    HiddenColoursDoNotShow
CHECK_DEADLOCK FALSE
