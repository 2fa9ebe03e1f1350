SPECIFICATION FairSpec
CONSTANTS
    n1 = n1
    h1 = h1
    Cira = Cira
    None = None
    Nodes = {n1}
    Hosts = {h1, h2}
    Devs <- MCDevs
    Accounts <- MCAccounts
    TlsNodes = {}
    MaxTasks = 1
    Populations <- MCPopulations
    MCBoth = 0
    MCOne = 2
PROPERTY SilentIsCleared
CHECK_DEADLOCK FALSE
