SPECIFICATION Spec
CONSTANTS
    a1 = a1
    a2 = a2
    None = None
    Agents = {a1, a2}
    Populations <- MCUptodate
    CoreAgents = {a1, a2}
    Blocks <- MCBlocks
    FirstCore <- MCFirst
    ServerCores = {"core", "rcore"}
    UserCores = {}
    CoreTries = 2
    MaxTasks = 1
    MCRequests = 2
INVARIANTS
    CloseFreesSlots
CHECK_DEADLOCK FALSE
