SPECIFICATION FairSpec
CONSTANTS
    n1 = n1
    h1 = h1
    Cira = Cira
    None = None
    Nodes = {n1, n2}
    Hosts = {h1, h2}
    Devs <- MCDevs
    Accounts <- MCAccounts
    TlsNodes = {n1}
    MaxTasks = 1
    Populations <- MCPopulations
    MCBoth = 1
    MCOne = 2
INVARIANTS
    ContactsAlone
PROPERTIES
    SlotsAreFreed
    PresenceFollows
CHECK_DEADLOCK FALSE
