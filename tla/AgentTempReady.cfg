SPECIFICATION SessionSpec
CONSTANTS
    a1 = a1  a2 = a2  a3 = a3  a4 = a4  n1 = n1  n2 = n2  n3 = n3
    None = None
    Agents = {a1, a2}
    Nodes = {n1, n2, n3}
    NodeOf <- McNodeOf
    Temporary = {a1}
    TempGroup = {}
    Recovery = {}
    MaxAgentSessions = None
    MaxDevices = None
    Known = {}
INVARIANT ReadyIsOpen
CHECK_DEADLOCK FALSE
