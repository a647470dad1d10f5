SPECIFICATION ApiSpec
CONSTANTS
    ta = ta
    tb = tb
    tc = tc
    c1 = c1
    none = none
    then = then
    prev = prev
    Texts <- MCTexts
    NoText = none
    Fold <- MCFold
    Chapters <- MCChapters
    ChapArgs <- MCSingle
    NoNode = NoNode
    Bandwidth = 2
    MaxId = 3
    MaxTokens = 2
    MaxRows = 0
    Arrows <- MCArrows
    EdgeArrows <- MCEdgeArrows
    InverseArrow <- MCInverse
    HubArgs = 2
    NoHub = NoHub
    MaxEdges = 4
    MaxCrashes = 2
INVARIANTS
    HalfEdgesOnlyFromCrashes
PROPERTIES
    DanglingStaysDangling
CHECK_DEADLOCK FALSE
