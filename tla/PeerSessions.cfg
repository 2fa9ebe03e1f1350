SPECIFICATION Spec
CONSTANTS
    u1 = u1
    Servers = {1, 2}
    MaxConns = 2
    Overlap = FALSE
    Users = {u1}
    Sessions <- TwoAndOne
    NoSession = NoSession
    Bounds <- McBounds
INVARIANTS SessionsAreCounted SessionsAreRouted
PROPERTIES SessionsConverge
CHECK_DEADLOCK FALSE
