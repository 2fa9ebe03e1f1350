--------------------------- MODULE MpsConnections ---------------------------
(***************************************************************************)
(* The connections of the Intel AMT server (mpsserver.js) and what they    *)
(* make the server show of a node.  A device may hold several connections  *)
(* of three types at once.  A connection is added to ciraConnections when  *)
(* its login succeeds, which for most logins is known only after a database*)
(* lookup; it is advertised 300 ms later, by a timer of its own; and it is *)
(* removed when the socket closes, when the server closes it or when the   *)
(* device says DISCONNECT.                                                 *)
(***************************************************************************)
EXTENDS Sequences, SequencesExt, NodeState

CONSTANTS Sockets,      \* the connections that are made
          MpsNodes,     \* the devices
          NodeOf,       \* socket -> the device it logs in as
          TypeOf,       \* socket -> connType: CiraType, RelayType or LmsType
          Cookie,       \* sockets that log in with a cookie: no lookup
          Overlap,      \* the types of which a device may connect again before
                        \* the server has removed its old connection
          PowerPolls    \* the sockets that amtmanager.js polls for the power

CiraType == 0  RelayType == 1  LmsType == 2

ASSUME SocketAssumption ==
    /\ NodeOf \in [Sockets -> MpsNodes]
    /\ TypeOf \in [Sockets -> {CiraType, RelayType, LmsType}]
    /\ Cookie \subseteq Sockets
    /\ Overlap \subseteq {CiraType, RelayType, LmsType}
    /\ PowerPolls \subseteq {s \in Sockets : TypeOf[s] # LmsType}

VARIABLES ciraConnections,   \* node -> the list of its connections
          phase,             \* socket -> how far its login is
          open,              \* the sockets that are open
          xxStartHold,       \* the sockets that are not advertised yet
          shown,             \* node -> connection bits the server shows of it
          dropped            \* history: sockets listed when closeAllForNode
                             \* was called for their node

connVars == <<ciraConnections, phase, open, xxStartHold, shown, dropped>>

Phases == {"new", "lookup", "added", "refused"}

ConnInit ==
    /\ ciraConnections = [n \in MpsNodes |-> <<>>]
    /\ phase = [s \in Sockets |-> "new"]
    /\ open = {}
    /\ xxStartHold = {}
    /\ shown = [n \in MpsNodes |-> {}]
    /\ dropped = {}

Listed(n) == ToSet(ciraConnections[n])

\* The connection bit that a type stands for; an LMS connection is not shown.
Bits(ct) == CASE ct = CiraType -> {CIRA}
              [] ct = RelayType -> {Relay}
              [] ct = LmsType -> {}

-----------------------------------------------------------------------------
\* addCiraConnection
Add(s) ==
    /\ ciraConnections' =
          [ciraConnections EXCEPT ![NodeOf[s]] = Append(@, s)]
    /\ xxStartHold' = xxStartHold \cup {s}
    /\ phase' = [phase EXCEPT ![s] = "added"]
    /\ UNCHANGED shown

\* Mutants of RemainingBits: no look at the connections that are left; a
\* connection that is past its hold is taken for one that was never shown.
RemainingBitsOfNone(s, list, bits) ==
    IF ~Contains(list, s) \/ s \in xxStartHold THEN bits
    ELSE bits \ Bits(TypeOf[s])
RemainingBitsKept(s, list, bits) == bits

\* removeCiraConnection of socket s, given the list of its node's connections:
\* the bits shown of the node after it.
RemainingBits(s, list, bits) ==
    IF \/ ~Contains(list, s)
       \/ s \in xxStartHold
       \/ \E i \in 1..Len(list) : list[i] # s /\ TypeOf[list[i]] = TypeOf[s]
    THEN bits
    ELSE bits \ Bits(TypeOf[s])

Without(list, s) ==
    IF Contains(list, s)
    THEN RemoveAt(list, CHOOSE i \in 1..Len(list) : list[i] = s)
    ELSE list

Unlist(s) ==
    LET n == NodeOf[s]
    IN  /\ ciraConnections' = [ciraConnections EXCEPT ![n] = Without(@, s)]
        /\ shown' = [shown EXCEPT ![n] =
                        RemainingBits(s, ciraConnections[n], @)]

\* A socket connects and sends its login.
Connect(s) ==
    /\ phase[s] = "new" /\ s \notin open
    /\ \/ TypeOf[s] \in Overlap
       \/ \A r \in open \cup Listed(NodeOf[s]) :
             NodeOf[r] = NodeOf[s] => TypeOf[r] # TypeOf[s]
    /\ open' = open \cup {s}
    /\ IF s \in Cookie
       THEN Add(s)
       ELSE /\ phase' = [phase EXCEPT ![s] = "lookup"]
            /\ UNCHANGED <<ciraConnections, xxStartHold, shown>>
    /\ UNCHANGED dropped

\* The lookup's answer adds the connection, whatever became of its socket.
LoginAccepted(s) ==
    /\ phase[s] = "lookup"
    /\ Add(s)
    /\ UNCHANGED <<open, dropped>>

\* The node is unknown, or there are too many: the server closes the socket.
LoginRefused(s) ==
    /\ phase[s] = "lookup"
    /\ phase' = [phase EXCEPT ![s] = "refused"]
    /\ open' = open \ {s}
    /\ UNCHANGED <<ciraConnections, xxStartHold, shown, dropped>>

\* The timer of addCiraConnection.
HoldEnds(s) ==
    /\ s \in xxStartHold
    /\ xxStartHold' = xxStartHold \ {s}
    /\ shown' = IF s \in Listed(NodeOf[s])
                THEN [shown EXCEPT ![NodeOf[s]] = @ \cup Bits(TypeOf[s])]
                ELSE shown
    /\ UNCHANGED <<ciraConnections, phase, open, dropped>>

\* The socket closes, or the server closes it after 90 idle seconds.
SocketClosed(s) ==
    /\ s \in open
    /\ open' = open \ {s}
    /\ Unlist(s)
    /\ UNCHANGED <<phase, xxStartHold, dropped>>

\* The device sends DISCONNECT and leaves its socket open.
Disconnect(s) ==
    /\ s \in open /\ s \in Listed(NodeOf[s])
    /\ Unlist(s)
    /\ UNCHANGED <<phase, open, xxStartHold, dropped>>

\* closeAllForNode goes through the indexes of the list while each obj.close
\* takes an element out of that list, so it meets every other connection.  The
\* i-th one clears its bit if none of its type is left: neither one that is
\* passed over nor one that comes later.
CloseAllForNode(n) ==
    LET list == ciraConnections[n]
        met == {i \in 1..Len(list) : i % 2 = 1}
        clears(i) == /\ list[i] \notin xxStartHold
                     /\ \A j \in 1..Len(list) :
                           TypeOf[list[j]] = TypeOf[list[i]] => j \in met /\ j <= i
    IN  /\ list # <<>>
        /\ open' = open \ {list[i] : i \in met}
        /\ ciraConnections' = [ciraConnections EXCEPT
              ![n] = [k \in 1..(Len(list) \div 2) |-> list[2 * k]]]
        /\ shown' = [shown EXCEPT
              ![n] = @ \ UNION {Bits(TypeOf[list[i]]) : i \in {j \in met : clears(j)}}]
        /\ dropped' = dropped \cup Listed(n)
        /\ UNCHANGED <<phase, xxStartHold>>

\* The answer to a power poll over connection s, while amtmanager.js manages
\* it, which it does from the end of the hold to the removal: the power state
\* is reported as that of a CIRA connection also when s is a relay.
PowerPoll(s) ==
    /\ s \in PowerPolls
    /\ s \in Listed(NodeOf[s]) \ xxStartHold
    /\ shown' = [shown EXCEPT ![NodeOf[s]] = @ \cup {CIRA}]
    /\ UNCHANGED <<ciraConnections, phase, open, xxStartHold, dropped>>

ConnNext ==
    \/ \E s \in Sockets : Connect(s)
    \/ \E s \in Sockets : LoginAccepted(s)
    \/ \E s \in Sockets : LoginRefused(s)
    \/ \E s \in Sockets : HoldEnds(s)
    \/ \E s \in Sockets : SocketClosed(s)
    \/ \E s \in Sockets : Disconnect(s)
    \/ \E n \in MpsNodes : CloseAllForNode(n)
    \/ \E s \in Sockets : PowerPoll(s)

ConnSpec == ConnInit /\ [][ConnNext]_connVars

-----------------------------------------------------------------------------
\* Each variable has its type.
ConnTypeOK ==
    /\ ciraConnections \in [MpsNodes -> Seq(Sockets)]
    /\ phase \in [Sockets -> Phases]
    /\ open \subseteq Sockets
    /\ xxStartHold \subseteq Sockets
    /\ shown \in [MpsNodes -> SUBSET {CIRA, Relay}]
    /\ dropped \subseteq Sockets

\* A connection that is listed and past its hold is shown, whatever became of
\* the other connections of the device.
UpIsShown ==
    \A n \in MpsNodes : \A s \in Listed(n) \ xxStartHold :
        Bits(TypeOf[s]) \subseteq shown[n]

\* The types whose connections follow each other and log in without a lookup;
\* no other type's power poll sets their bit.
Orderly ==
    {t \in {CiraType, RelayType} \ Overlap :
        /\ \A s \in Sockets : TypeOf[s] = t => s \in Cookie
        /\ t = CiraType => \A s \in PowerPolls : TypeOf[s] = t}

\* The bit of an orderly type is shown of a device only while the device has an
\* open connection of that type in its list: connectivityByNode lists "all
\* connected CIRA and agents".  Neither the hold, DISCONNECT, closeAllForNode
\* nor the overlapping connections of another type disturb it.
OrderlyIsExact ==
    \A n \in MpsNodes, t \in Orderly :
        Bits(t) \subseteq shown[n] =>
            \E s \in Listed(n) \cap open : TypeOf[s] = t

\* "Disconnect all CIRA tunnel for a given NodeId": a connection that was in the
\* list when closeAllForNode was called is closed.
DroppedIsClosed == dropped \cap open = {}
=============================================================================
