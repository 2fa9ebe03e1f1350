SPECIFICATION Spec
CONSTANTS
    a1 = a1  n1 = n1  x1 = x1  g1 = g1
    i1 = i1  i2 = i2  c1 = c1
    own = own  foreign = foreign  nobody = nobody
    NoId = NoId  NoSock = NoSock
    Ends = {a1, n1, x1, g1}
    Tunnels = {t1}
    Servers = {1, 2}
    Ids = {i1, i2, c1}
    Chosen = {i1, c1}
    Messenger = {c1}
    ForUsers = {c1}
    Barred <- McBarred
    Accounts = {own, foreign, nobody}
    Account <- McAccount
    Vouched = {a1}
    Authenticated = {n1, x1, g1}
    NoUser = {g1}
    InSession = {n1}
    Routed = {g1}
    Named = {n1}
    Expiring = {n1, g1}
    Recorded = TRUE
    Parties <- McParties
    Reuse = FALSE
INVARIANTS EndedIsClosed MeetingUnderWay RecordingEndsOnce
PROPERTIES RendezvousSpec NobodyIsHeld
CHECK_DEADLOCK FALSE
