------------------------------ MODULE AmtManager ------------------------------
(***************************************************************************)
(* The devices that amtmanager.js manages.  A device may be managed over   *)
(* its CIRA connection, over the local network, or over both: there is one *)
(* entry of amtDevices for each.  Management is a low priority task of the *)
(* task limiter (TaskLimiter): it reads the device from the database, makes*)
(* a first contact - one at a time with a host of the local network -, sets*)
(* the device up, completes its task and then polls the power state.  The  *)
(* operators take and give the manager's state as one record, since the    *)
(* handlers that use them (AmtScanner) start and stop several devices.     *)
(***************************************************************************)
EXTENDS Integers, FiniteSets, SequencesExt

CONSTANTS Nodes,        \* the devices
          Hosts,        \* the addresses of the local network
          Devs,         \* the objects of managed devices there may be, numbers
          Accounts,     \* node -> how many credentials there are to try
          TlsNodes,     \* devices whose group has a policy, without TLS yet
          MaxTasks,     \* slots of the task limiter
          Cira,         \* the CIRA connection of a device
          None

Phases == {"held", "read", "hold", "contact", "wait", "tls", "commit", "sync", "done"}

\* The object of a managed device: how far it is, the credentials that are left to
\* try, and the queries that are left to set up TLS.
Object ==
    [node : Nodes, conn : Hosts \cup {Cira}, phase : Phases, acctry : Nat \ {0},
     calls : 0..3]

ASSUME ManagerAssumption ==
    /\ IsFiniteSet(Nodes) /\ Devs \subseteq Nat
    /\ TlsNodes \subseteq Nodes
    /\ Accounts \in [Nodes -> Nat \ {0}] /\ MaxTasks \in Nat \ {0}
    /\ Cira \notin Hosts /\ None \notin Hosts \cup {Cira} \cup Object

VARIABLES dev,          \* the objects, those that a callback still refers to too
          amtDevices,   \* node -> its managed devices, in order
          activeLocalConnections,   \* hosts a first contact is under way with
          current,      \* the devices that hold a slot of the task limiter
          pending       \* the devices that are held, in order

manager == <<dev, amtDevices, activeLocalConnections, current, pending>>

Manager == [dev |-> dev, list |-> amtDevices, active |-> activeLocalConnections,
            current |-> current, pending |-> pending]

ManagerIs(m) ==
    /\ dev' = m.dev
    /\ amtDevices' = m.list
    /\ activeLocalConnections' = m.active
    /\ current' = m.current
    /\ pending' = m.pending

ManagerInit ==
    /\ dev = [d \in Devs |-> None]
    /\ amtDevices = [n \in Nodes |-> <<>>]
    /\ activeLocalConnections = {}
    /\ current = {}
    /\ pending = <<>>

\* Is the device listed?
IsAmtDeviceValid(m, d) == m.dev[d] # None /\ d \in ToSet(m.list[m.dev[d].node])

Local(m, d) == m.dev[d].conn # Cira

\* What has no callback left is forgotten.
Gone(m, d) == [m EXCEPT !.dev[d] = None]

Phase(m, d, phase) == [m EXCEPT !.dev[d].phase = phase]

-----------------------------------------------------------------------------
(* Tasks *)

\* completed(taskid) of a device: the slot goes to the first held device that is
\* still listed; those before it complete at once.
Completed(m, d) ==
    LET valid == {i \in DOMAIN m.pending : IsAmtDeviceValid(m, m.pending[i])}
        n == IF valid = {} THEN Len(m.pending)
             ELSE CHOOSE i \in valid : \A j \in valid : i <= j
        passed == {m.pending[i] : i \in 1..n}
        started == IF valid = {} THEN {} ELSE {m.pending[n]}
    IN  IF d \notin m.current THEN m
        ELSE [m EXCEPT !.current = (@ \ {d}) \cup started,
                       !.pending = SubSeq(@, n + 1, Len(@)),
                       !.dev = [e \in Devs |->
                           IF e \in started THEN [@[e] EXCEPT !.phase = "read"]
                           ELSE IF e \in passed THEN None ELSE @[e]]]

-----------------------------------------------------------------------------
(* Starting and stopping *)

\* The entry that manages a node over a connection, if there is one.
Managing(m, n, conn) == {d \in ToSet(m.list[n]) : m.dev[d].conn = conn}

Free(m) == {d \in Devs : m.dev[d] = None /\ d \notin m.current}

\* startAmtManagement
Start(m, n, conn) ==
    LET d == CHOOSE e \in Free(m) : \A f \in Free(m) : e <= f
        runs == Cardinality(m.current) < MaxTasks
        new == [node |-> n, conn |-> conn, phase |-> IF runs THEN "read" ELSE "held",
                acctry |-> Accounts[n], calls |-> IF n \in TlsNodes THEN 3 ELSE 0]
    IN  IF Managing(m, n, conn) # {} THEN m
        ELSE [m EXCEPT !.dev[d] = new,
                       !.list[n] = Append(@, d),
                       !.current = IF runs THEN @ \cup {d} ELSE @,
                       !.pending = IF runs THEN @ ELSE Append(@, d)]

\* What is left of a device that is taken off the list: the queue of the limiter,
\* the database and the 5 second timer still refer to it.  Its queries are
\* cancelled, their answers are silent.
Unlisted(m, d) ==
    IF m.dev[d].phase \in {"held", "read", "hold"} THEN m.dev[d] ELSE None

\* The queries that wait behind the one that the device is to answer.
PendingCalls(m, d) == IF m.dev[d].phase = "tls" THEN m.dev[d].calls - 1 ELSE 0

\* Mutant of Removed: the slot is kept.
RemoveKeepsSlot(m, d) ==
    IF ~IsAmtDeviceValid(m, d) THEN m
    ELSE [m EXCEPT !.dev[d] = Unlisted(m, d),
                   !.list[m.dev[d].node] = SelectSeq(@, LAMBDA e : e # d)]

\* removeAmtDevice.  Cancelling the queries that wait calls amtSwitchToTls, which
\* removes the device first; then the place that it had is removed once more for
\* each of them, and with it whatever follows in the list.
Removed(m, d) ==
    LET n == m.dev[d].node
        s == m.list[n]
        i == CHOOSE j \in DOMAIN s : s[j] = d
        last == i + PendingCalls(m, d)
        beside == {s[j] : j \in {k \in DOMAIN s : k > i /\ k <= last}}
        l == Completed(m, d)
    IN  IF ~IsAmtDeviceValid(m, d) THEN m
        ELSE [l EXCEPT
                !.list[n] = SubSeq(s, 1, i - 1) \o SubSeq(s, last + 1, Len(s)),
                !.dev = [e \in Devs |->
                    IF e = d THEN Unlisted(l, d)
                    ELSE IF e \in beside /\ l.dev[e].phase # "contact"
                         THEN Unlisted(l, e)
                    ELSE @[e]]]

\* stopAmtManagement
Stop(m, n, conn) ==
    LET which == Managing(m, n, conn)
    IN  IF which = {} THEN m ELSE Removed(m, CHOOSE d \in which : TRUE)

\* removeDevice: all devices of a node, each of which completes its task while
\* the others are still listed.
RemoveAll(m, n) ==
    LET s == m.list[n]
        completed[i \in 0..Len(s)] ==
            IF i = 0 THEN m ELSE Completed(completed[i - 1], s[i])
        l == completed[Len(s)]
        listed == ToSet(s)
    IN  [l EXCEPT !.list[n] = <<>>,
                  !.dev = [d \in Devs |->
                              IF d \in listed THEN Unlisted(l, d) ELSE @[d]]]

-----------------------------------------------------------------------------
(* First contact *)

\* Mutant of Contact: a contact that is under way does not hold another one.
ContactAtOnce(m, d) ==
    IF Local(m, d)
    THEN [Phase(m, d, "contact") EXCEPT !.active = @ \cup {m.dev[d].conn}]
    ELSE Phase(m, d, "contact")

\* attemptInitialContact of a device with credentials to try: over CIRA at once,
\* with a host when no other contact is under way, else in 5 seconds.
Contact(m, d) ==
    IF Local(m, d)
    THEN IF m.dev[d].conn \in m.active THEN Phase(m, d, "hold")
         ELSE [Phase(m, d, "contact") EXCEPT !.active = @ \cup {m.dev[d].conn}]
    ELSE Phase(m, d, "contact")

\* The answer to a first contact, of whatever device, releases the host.
Answered(m, d) ==
    IF Local(m, d) THEN [m EXCEPT !.active = @ \ {m.dev[d].conn}] ELSE m

-----------------------------------------------------------------------------
(* The callbacks of a managed device *)

\* The database answers.  A device that is not known, not activated or without
\* credentials is removed; whether it is still managed is not looked at.
Read(d, found) ==
    /\ dev[d] # None /\ dev[d].phase = "read"
    /\ ManagerIs(IF found THEN Contact(Manager, d)
                 ELSE Gone(Removed(Manager, d), d))

\* 5 seconds have passed.  Any device of the node is enough to go on.
TryAgain(d) ==
    /\ dev[d] # None /\ dev[d].phase = "hold"
    /\ ManagerIs(IF amtDevices[dev[d].node] # <<>> THEN Contact(Manager, d)
                 ELSE Gone(Manager, d))

\* attemptLocalConnectResponse of a device that is no longer managed.
ResponseIgnored(d) ==
    /\ dev[d] # None /\ dev[d].phase = "contact"
    /\ ~IsAmtDeviceValid(Manager, d)
    /\ ManagerIs(Gone(Answered(Manager, d), d))

\* 200: the device is to be set up, with TLS first if its group wants that.
Contacted(d) ==
    /\ dev[d] # None /\ dev[d].phase = "contact"
    /\ IsAmtDeviceValid(Manager, d)
    /\ ManagerIs(Phase(Answered(Manager, d), d,
                       IF dev[d].calls > 0 THEN "tls" ELSE "sync"))

\* 401: the next credentials are tried in 20 seconds, if there are any.
BadCredentials(d) ==
    /\ dev[d] # None /\ dev[d].phase = "contact"
    /\ IsAmtDeviceValid(Manager, d)
    /\ LET m == Answered(Manager, d)
       IN  IF dev[d].acctry > 1
           THEN ManagerIs([Phase(m, d, "wait") EXCEPT !.dev[d].acctry = @ - 1])
           ELSE ManagerIs(Removed(m, d))

\* Another answer, or none over CIRA.  Without an answer from a host (408) the
\* contact is tried again at once, with TLS or without: nothing changes.
ContactFails(d) ==
    /\ dev[d] # None /\ dev[d].phase = "contact"
    /\ IsAmtDeviceValid(Manager, d)
    /\ ManagerIs(Removed(Answered(Manager, d), d))

\* 20 seconds have passed.
NextCredentials(d) ==
    /\ dev[d] # None /\ dev[d].phase = "wait"
    /\ ManagerIs(Contact(Manager, d))

\* One of the three queries that set up TLS is answered; after the last one the
\* changes are committed, and after 10 seconds the device is contacted again.
TlsAnswered(d) ==
    /\ dev[d] # None /\ dev[d].phase = "tls"
    /\ LET m == [Manager EXCEPT !.dev[d].calls = @ - 1]
       IN  ManagerIs(IF dev[d].calls = 1 THEN Phase(m, d, "commit") ELSE m)

Committed(d) ==
    /\ dev[d] # None /\ dev[d].phase = "commit"
    /\ ManagerIs(Contact(Manager, d))

\* The clock, certificates, settings and inventory are done, one query at a time.
Done(d) ==
    /\ dev[d] # None /\ dev[d].phase = "sync"
    /\ ManagerIs(Phase(Completed(Manager, d), d, "done"))

\* A query of the set-up fails.
SetupFails(d) ==
    /\ dev[d] # None /\ dev[d].phase \in {"sync", "tls", "commit"}
    /\ ManagerIs(Removed(Manager, d))

-----------------------------------------------------------------------------
ManagerTypeOK ==
    /\ dev \in [Devs -> Object \cup {None}]
    /\ \A n \in Nodes : ToSet(amtDevices[n]) \subseteq Devs
    /\ activeLocalConnections \subseteq Hosts
    /\ current \subseteq Devs
    /\ ToSet(pending) \subseteq Devs

\* However devices that share an address start, stop and are started again, a
\* host is never in two first contacts at a time, and one that is in a contact is
\* never taken to be free: the answer of a contact releases the host whoever holds
\* it, and a device that was taken off the list may still make a contact.
ContactsAlone ==
    \A d \in Devs : dev[d] # None /\ dev[d].phase = "contact" /\ Local(Manager, d) =>
        /\ dev[d].conn \in activeLocalConnections
        /\ \A e \in Devs \ {d} : dev[e] # None /\ dev[e].phase = "contact" =>
              dev[e].conn # dev[d].conn

\* A device that leaves the list gives its slot of the task limiter back, and no
\* other that is not managed gets it, although devices are removed while they are
\* held, and while the database, the device or a timer is to call back: unless it
\* leaves beside a device of the same node whose set-up of TLS is cut short.
Beside(d) ==
    \E e \in Devs \ {d} :
        /\ IsAmtDeviceValid(Manager, e) /\ ~IsAmtDeviceValid(Manager, e)'
        /\ dev[e].phase = "tls" /\ dev[e].node = dev[d].node
SlotsAreFreed ==
    [][\A d \in current' :
          \/ IsAmtDeviceValid(Manager, d)' /\ dev'[d].phase # "done"
          \/ ~IsAmtDeviceValid(Manager, d) /\ d \in current
          \/ IsAmtDeviceValid(Manager, d) /\ Beside(d)]_manager

\* "Since we don't allow two or more connections to the same host, check if a
\* pending connection is active." (amtmanager.js:662)
ActiveIsPending ==
    \A h \in activeLocalConnections :
        \E d \in Devs : dev[d] # None /\ dev[d].phase = "contact" /\ dev[d].conn = h

\* "Remove the device from the list" (amtmanager.js:180): what leaves the list
\* leaves no slot behind.
RemovedIsAlone == \A d \in current : IsAmtDeviceValid(Manager, d)
=============================================================================
