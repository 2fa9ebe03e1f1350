SPECIFICATION Spec
CONSTANTS
    n1 = n1  n2 = n2
    Servers = {1, 2}
    MaxConns = 2
    Overlap = FALSE
    Nodes = {n1, n2}
    Kinds = {1, 2}
    Reports = {1, 7}
    MaxChanges = 2
    MaxRestarts = 1
INVARIANTS ListIsExact TablesAreRight CopyAgrees
PROPERTIES Converges
CHECK_DEADLOCK FALSE
