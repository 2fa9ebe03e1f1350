SPECIFICATION Spec
CONSTANTS
    v1 = v1
    v2 = v2
    Viewers = {v1, v2}
    Refreshing = {v1}
    Sizes <- MCSizes
    Rects <- MCRects
    QueueLimit = 1
    MaxData = 3
INVARIANTS
    BooksAreRight
    CanCatchUp
PROPERTIES
    AgentGoesOn
    ViewersCatchUp
CHECK_DEADLOCK FALSE
