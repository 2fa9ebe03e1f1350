SPECIFICATION ConnSpec
CONSTANTS
    c1 = c1  c2 = c2  r1 = r1  r2 = r2  l1 = l1  d1 = d1
    n1 = n1  n2 = n2
    Sockets = {c1, c2, r1, r2, l1}
    MpsNodes = {n1}
    NodeOf <- McNodeOf
    TypeOf <- McTypeOf
    Cookie = {r1, r2, l1}
    Overlap = {0}
    PowerPolls = {c1, r1}
INVARIANTS UpIsShown OrderlyIsExact
CHECK_DEADLOCK FALSE
