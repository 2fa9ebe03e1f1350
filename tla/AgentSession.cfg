SPECIFICATION FairSessionSpec
CONSTANTS
    a1 = a1  a2 = a2  a3 = a3  a4 = a4  n1 = n1  n2 = n2  n3 = n3
    None = None
    Agents = {a1, a2, a3}
    Nodes = {n1, n2, n3}
    NodeOf <- McNodeOf
    Temporary = {}
    TempGroup = {a1}
    Recovery = {a3}
    MaxAgentSessions = 1
    MaxDevices = 1
    Known = {n2, n3}
INVARIANTS ListedIsReady ConnIsListed
PROPERTIES PresenceSpec SessionSettles
CHECK_DEADLOCK FALSE
