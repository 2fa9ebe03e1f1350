SPECIFICATION Spec
CONSTANTS
    n1 = n1  n2 = n2
    Servers = {1, 2}
    MaxConns = 1
    Overlap = FALSE
    Nodes = {n1}
    Kinds = {1, 2, 8}
    Reports = {0, 1, 7}
    MaxChanges = 3
    MaxRestarts = 0
INVARIANTS UsersAreTold
CHECK_DEADLOCK FALSE
