SPECIFICATION FairSpec
CONSTANTS
    a1 = a1
    a2 = a2
    None = None
    Agents = {a1, a2}
    Populations <- MCBoth
    CoreAgents = {a1, a2}
    Blocks <- MCBlocks
    FirstCore <- MCFirst
    ServerCores = {"core", "rcore"}
    UserCores = {"core"}
    CoreTries = 2
    MaxTasks = 1
    MCRequests = 1
INVARIANTS
    NothingAfterClose
    UpdateIsSound
PROPERTIES
    HeldTasksStart
    CoreSettles
    OutdatedIsTold
CHECK_DEADLOCK FALSE
