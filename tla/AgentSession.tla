---------------------------- MODULE AgentSession ----------------------------
(***************************************************************************)
(* The sessions of the mesh agents (meshagent.js): a connection sends three*)
(* commands in any order, its signature is verified, its device is looked  *)
(* up in the database and created if need be, and it becomes the one       *)
(* connection in service of its device (webserver.wsagents), in the place  *)
(* of any other.  Both database calls answer later: meanwhile connections  *)
(* close, others come into service and users remove devices.               *)
(***************************************************************************)
EXTENDS Integers, FiniteSets, AgentConnections

CONSTANTS Nodes,             \* the devices
          NodeOf,            \* connection -> the device its key identifies
          Temporary,         \* connections of temporary agents (0x20)
          TempGroup,         \* connections of agents in a group of which all
                             \* the devices are temporary (mesh.flags & 1)
          Recovery,          \* connections of recovery agents (0x40)
          MaxAgentSessions,  \* domain.limits.maxagentsessions or None
          MaxDevices,        \* domain.limits.maxdevices or None
          Known              \* the devices in the database at the start

ASSUME AgentAssumption ==
    /\ NodeOf \in [Agents -> Nodes]
    /\ Temporary \subseteq Agents /\ TempGroup \subseteq Agents
    /\ Recovery \subseteq Agents
    /\ Known \subseteq Nodes
    /\ None \notin Agents

ASSUME DomainLimitAssumption ==
    /\ MaxAgentSessions \in {None} \cup Nat
    /\ MaxDevices \in {None} \cup Nat

VARIABLES socket,      \* connection -> what became of its web socket
          received,    \* connection -> receivedCommands
          keyed,       \* connections with a dbNodeKey
          auth,        \* connection -> authenticated
          awaited,     \* connections with pendingCompleteAgentConnection
          lookup,      \* connection -> how far its database calls are
          wsagents,    \* device -> the connection in service
          conn,        \* device -> is the agent bit of its state set?
          devices      \* the devices in the database

sessionVars == <<socket, received, keyed, auth, awaited, lookup,
          wsagents, conn, devices>>

Commands == {1, 2, 3}     \* nonces, certificate, group and capabilities
\* "mute": a replaced connection, which nobody listens to any more.
Sockets == {"new", "open", "mute", "closed"}
\* "held": no answer will ever be sent, the agent is left waiting.
Lookups == {"none", "asked", "found", "absent", "counting", "under", "over",
            "held"}

SessionInit ==
    /\ socket = [a \in Agents |-> "new"]
    /\ received = [a \in Agents |-> {}]
    /\ keyed = {}
    /\ auth = [a \in Agents |-> 0]
    /\ awaited = {}
    /\ lookup = [a \in Agents |-> "none"]
    /\ wsagents = [n \in Nodes |-> None]
    /\ conn = [n \in Nodes |-> FALSE]
    /\ devices = Known

SocketOpened(a) ==
    /\ socket[a] = "new"
    /\ socket' = [socket EXCEPT ![a] = "open"]
    /\ UNCHANGED <<received, keyed, auth, awaited, lookup, wsagents, conn,
                   devices>>

-----------------------------------------------------------------------------
(* obj.close *)

\* Does closing connection a delete its device?  The capabilities are gone
\* after a first close; the group of the connection is not.
Removes(a) ==
    /\ a \in keyed /\ 3 \in received[a]
    /\ \/ a \in TempGroup
       \/ a \in Temporary \cup Recovery /\ auth[a] # -1

\* The connections closed along with a, where listed is in service of its
\* device: deleting a device closes the connection in service.
Victims(a, listed) ==
    {a} \cup (IF Removes(a) THEN {listed} \ {None} ELSE {})

\* The devices in the database once a is closed, out of those in known.
Kept(a, known) == IF Removes(a) THEN known \ {NodeOf[a]} ELSE known

\* Is the connection in service of device n among those that close?
\* Mutant: a closed connection is not taken off the list.
EndsNever(n, victims) == FALSE
EndsService(n, victims) == wsagents[n] \in victims

\* Connection a is closed; s is what becomes of its socket.
CloseAgent(a, s) ==
    LET n == NodeOf[a]
        victims == Victims(a, wsagents[n])
        ended == EndsService(n, victims)
    IN  /\ socket' = [c \in Agents |->
                        IF c = a THEN s
                        ELSE IF c \in victims THEN "closed" ELSE socket[c]]
        /\ auth' = [c \in Agents |-> IF c \in victims THEN -1 ELSE auth[c]]
        /\ wsagents' = [wsagents EXCEPT ![n] = IF ended THEN None ELSE @]
        /\ conn' = [conn EXCEPT ![n] = @ /\ ~ended]
        /\ UNCHANGED <<received, keyed, awaited, lookup>>

\* The socket closes or fails, the connection is idle for too long, or a user
\* disconnects the agent.
SocketClosed(a) ==
    /\ socket[a] = "open"
    /\ CloseAgent(a, "closed")
    /\ devices' = Kept(a, devices)

\* The agent closes a socket that nobody listens to.
MuteCloses(a) ==
    /\ socket[a] = "mute"
    /\ socket' = [socket EXCEPT ![a] = "closed"]
    /\ UNCHANGED <<received, keyed, auth, awaited, lookup, wsagents, conn,
                   devices>>

\* The idle timer of such a socket still calls obj.close.
MuteIsIdle(a) ==
    /\ socket[a] = "mute"
    /\ CloseAgent(a, "closed")
    /\ devices' = Kept(a, devices)

\* A user removes a device (meshuser.js): its connection in service is closed.
RemoveDevice(n) ==
    /\ n \in devices
    /\ devices' = devices \ {n}
    /\ IF conn[n]
       THEN CloseAgent(wsagents[n], "closed")
       ELSE UNCHANGED <<socket, received, keyed, auth, awaited, lookup,
                        wsagents, conn>>

-----------------------------------------------------------------------------
(* From the first command to the database *)

InService == {n \in Nodes : wsagents[n] # None}

TooManySessions ==
    /\ MaxAgentSessions # None
    /\ Cardinality(InService) >= MaxAgentSessions

\* Does command k complete a verified connection that has received `got'?
\* Mutant: command 3 does not try to.
CompletesBySignature(k, got) == k # 3 /\ 3 \in got
Completes(k, got) == 3 \in got

\* completeAgentConnection: a recovery agent is served without a device; any
\* other is held for ever when there are too many sessions.
Complete(a) ==
    IF a \in Recovery
    THEN /\ auth' = [auth EXCEPT ![a] = 2]
         /\ UNCHANGED <<awaited, lookup>>
    ELSE /\ auth' = [auth EXCEPT ![a] = 1]
         /\ awaited' = awaited \cup {a}
         /\ lookup' = [lookup EXCEPT ![a] =
                          IF TooManySessions THEN "held" ELSE "asked"]

\* processAgentSignature, called when both commands 1 and 2 were received.
Signed(k, got, valid) == valid /\ k # 3 /\ {1, 2} \subseteq got

\* The second of commands 1 and 2 brings the signature that is verified; every
\* command then tries to complete the connection.
Command(a, k) ==
    /\ socket[a] = "open" /\ k \notin received[a]
    /\ received' = [received EXCEPT ![a] = @ \cup {k}]
    /\ \E valid \in BOOLEAN :
          LET signed == Signed(k, received'[a], valid)
              verified == signed \/ auth[a] = 1
          IN  /\ keyed' = IF signed THEN keyed \cup {a} ELSE keyed
              /\ IF verified /\ Completes(k, received'[a]) /\ a \notin awaited
                 THEN Complete(a)
                 ELSE /\ auth' = [auth EXCEPT ![a] = IF signed THEN 1 ELSE @]
                      /\ UNCHANGED <<awaited, lookup>>
    /\ UNCHANGED <<socket, wsagents, conn, devices>>

\* The database reads the device.
DbRead(a) ==
    /\ lookup[a] = "asked"
    /\ lookup' = [lookup EXCEPT ![a] =
                     IF NodeOf[a] \in devices THEN "found" ELSE "absent"]
    /\ UNCHANGED <<socket, received, keyed, auth, awaited, wsagents, conn,
                   devices>>

\* The database counts the devices (isMaxType).
CountRead(a) ==
    /\ lookup[a] = "counting"
    /\ lookup' = [lookup EXCEPT ![a] =
                     IF Cardinality(devices) > MaxDevices
                     THEN "over" ELSE "under"]
    /\ UNCHANGED <<socket, received, keyed, auth, awaited, wsagents, conn,
                   devices>>

-----------------------------------------------------------------------------
(* From the database's answer to service *)

\* What a replaced connection's authenticated becomes.
AuthOfReplaced(a) == -1

\* Is the agent bit set once a is in service, where victims were closed?
\* Mutant: the old connection is closed before the new one is listed.
ShownIfFirst(n, a, victims) == wsagents[n] = None
ShownAfter(n, a, victims) == a \notin victims

\* completeAgentConnection3: a comes into service, with the devices in known.
\* The connection it replaces is closed but not disconnected, which closes a
\* as well when it deletes the device; a is marked ready all the same.
EnterService(a, known) ==
    LET n == NodeOf[a]
        old == wsagents[n]
        victims == IF old = None THEN {} ELSE Victims(old, a)
    IN  /\ wsagents' = [wsagents EXCEPT ![n] = IF a \in victims THEN None ELSE a]
        /\ conn' = [conn EXCEPT ![n] = ShownAfter(n, a, victims)]
        /\ socket' = [c \in Agents |->
                        CASE c = old -> "mute"
                          [] c = a /\ a \in victims -> "closed"
                          [] OTHER -> socket[c]]
        /\ auth' = [c \in Agents |->
                      CASE c = a -> 2
                        [] c = old -> AuthOfReplaced(c)
                        [] OTHER -> auth[c]]
        /\ devices' = IF old = None THEN known ELSE Kept(old, known)
        /\ awaited' = awaited \ {a}
        /\ lookup' = [lookup EXCEPT ![a] = "none"]
        /\ UNCHANGED <<received, keyed>>

\* Does the callback of db.Get find the agent gone?  Mutant: it does not look.
NeverGone(a) == FALSE
Gone(a) == socket[a] # "open"

\* The callback ends here: with no effect, or leaving the agent held.
Stops(a, l) ==
    /\ lookup' = [lookup EXCEPT ![a] = l]
    /\ UNCHANGED <<socket, received, keyed, auth, awaited, wsagents, conn,
                   devices>>

\* The device group is unknown, or is not a group of agents.
NoGroup(a) == Stops(a, "held")

\* completeAgentConnection2: a new device is stored, then served.
Create(a) == NoGroup(a) \/ EnterService(a, devices \cup {NodeOf[a]})

\* The devices are counted first.  Mutant: the call is forgotten.
CountsNot(a) == Stops(a, "none")
Counts(a) == Stops(a, "counting")

\* The callback of db.Get.  A known device is stored again if it has changed.
NodeAnswer(a) ==
    /\ lookup[a] \in {"found", "absent"}
    /\ IF Gone(a) THEN Stops(a, "none")
       ELSE \/ /\ lookup[a] = "found"
               /\ \/ NoGroup(a)
                  \/ \E changed \in BOOLEAN :
                        EnterService(a, IF changed
                                        THEN devices \cup {NodeOf[a]}
                                        ELSE devices)
            \/ /\ lookup[a] = "absent" /\ MaxDevices = None
               /\ Create(a)
            \/ /\ lookup[a] = "absent" /\ MaxDevices # None
               /\ Counts(a)

\* The callback of isMaxType.  It does not look whether the agent is still
\* there; if it is not, creating its device throws an exception.
CountAnswer(a) ==
    /\ lookup[a] \in {"under", "over"}
    /\ CASE lookup[a] = "over" -> Stops(a, "held")
         [] lookup[a] = "under" /\ socket[a] # "open" -> Stops(a, "none")
         [] OTHER -> Create(a)

-----------------------------------------------------------------------------
Answers(a) == DbRead(a) \/ NodeAnswer(a) \/ CountRead(a) \/ CountAnswer(a)

SessionNext ==
    \/ \E a \in Agents : \/ SocketOpened(a)
                         \/ \E k \in Commands : Command(a, k)
                         \/ DbRead(a)
                         \/ NodeAnswer(a)
                         \/ CountRead(a)
                         \/ CountAnswer(a)
                         \/ SocketClosed(a)
                         \/ MuteCloses(a)
                         \/ MuteIsIdle(a)
    \/ \E n \in Nodes : RemoveDevice(n)

SessionSpec == SessionInit /\ [][SessionNext]_sessionVars

\* The database answers, and the event loop runs the callbacks.
FairSessionSpec == SessionSpec /\ \A a \in Agents : WF_sessionVars(Answers(a))

-----------------------------------------------------------------------------
SessionTypeOK ==
    /\ socket \in [Agents -> Sockets]
    /\ received \in [Agents -> SUBSET Commands]
    /\ keyed \subseteq Agents
    /\ auth \in [Agents -> {-1, 0, 1, 2}]
    /\ awaited \subseteq Agents
    /\ lookup \in [Agents -> Lookups]
    /\ wsagents \in [Nodes -> Agents \cup {None}]
    /\ conn \in [Nodes -> BOOLEAN]
    /\ devices \subseteq Nodes

\* What the server sends commands to is never a connection that is gone or
\* that is not ready: the connection in service of a device is open, is
\* authenticated as that device and has finished completeAgentConnection.
ListedIsReady ==
    \A n \in Nodes : wsagents[n] # None =>
        /\ NodeOf[wsagents[n]] = n
        /\ socket[wsagents[n]] = "open"
        /\ auth[wsagents[n]] = 2

\* The device is shown with an agent exactly while it has a connection in
\* service, although a replacement neither clears nor sets the bit, and the
\* close of a temporary agent closes its own replacement.
ConnIsListed == \A n \in Nodes : conn[n] <=> wsagents[n] # None

\* A connection that was replaced or has been closed never believes that it is
\* ready: one that is ready, and whose socket is not closed, is the one in
\* service of its device.
ReadyIsListed ==
    \A a \in Agents \ Recovery :
        auth[a] = 2 /\ socket[a] # "closed" => wsagents[NodeOf[a]] = a

\* A connection that is marked "done, ready to communicate with this agent"
\* (meshagent.js 915-917) has an open socket.
ReadyIsOpen == \A a \in Agents : auth[a] = 2 => socket[a] = "open"

\* The agent server keeps the promise of AgentPresence, whatever is removed,
\* replaced or refused meanwhile.  A connection is over for good when its
\* authenticated is -1 or its socket is not open any more.
Open(a) == socket[a] = "open"
Presence == INSTANCE AgentPresence WITH
    serving <- {a \in Agents \ Recovery : auth[a] = 2 /\ Open(a)},
    online <- {n \in Nodes : conn[n]},
    past <- {a \in Agents : auth[a] = -1 \/ socket[a] \in {"mute", "closed"}}
PresenceSpec == Presence!Spec

\* An agent that has identified itself is served, held for a reason, or gone:
\* no interleaving of the database's answers loses it.
Identified(a) == socket[a] = "open" /\ auth[a] = 1 /\ 3 \in received[a]
SessionSettles ==
    \A a \in Agents : Identified(a) ~>
        (auth[a] = 2 \/ lookup[a] = "held" \/ socket[a] # "open")
=============================================================================
