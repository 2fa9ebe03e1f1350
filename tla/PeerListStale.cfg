SPECIFICATION Spec
CONSTANTS
    n1 = n1  n2 = n2
    Servers = {1, 2}
    MaxConns = 2
    Overlap = TRUE
    Nodes = {n1}
    Kinds = {1}
    Reports = {1}
    MaxChanges = 1
    MaxRestarts = 0
INVARIANTS SetupIsListed
CHECK_DEADLOCK FALSE
