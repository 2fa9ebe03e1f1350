-------------------------- MODULE PeerConnectivity --------------------------
(***************************************************************************)
(* The connectivity of the nodes, kept by each server for itself and, as a *)
(* copy, for each of its peers (meshcentral.js, multiserver.js).  A server *)
(* sends its whole table when a connection is set up and every change      *)
(* after that, and shows its users the merger of all the tables it has.    *)
(***************************************************************************)
EXTENDS PeerLinks, NodeState

CONSTANTS Nodes,
          Kinds,          \* the connection kinds that occur, of ConnectTypes
          Reports,        \* the power states that are reported, of PowerStates
          MaxChanges,     \* bound: local connectivity changes
          MaxRestarts     \* bound: server restarts

ASSUME ConnectivityAssumption ==
    /\ Kinds \subseteq ConnectTypes
    /\ Reports \subseteq PowerStates
    /\ MaxChanges \in Nat /\ MaxRestarts \in Nat

VARIABLES tables,     \* peerConnectivityByNode: server -> server -> table
          view,       \* connectivityByNode: server -> node -> merged state
          shown,      \* server -> node -> what its users were last told
          changes, restarts

vars == <<linkVars, tables, view, shown, changes, restarts>>

Init ==
    /\ LinkInit
    /\ tables = [s \in Servers |-> [p \in Servers |-> NoTable]]
    /\ view = [s \in Servers |-> [n \in Nodes |-> NoView]]
    /\ shown = view
    /\ changes = 0
    /\ restarts = 0

-----------------------------------------------------------------------------
\* UpdateConnectivityState: server s, whose table of p becomes tb, merges its
\* tables again for the given nodes and tells its users.  The test compares
\* the new connectivity with the old power state.
Update(s, p, tb, nodes) ==
    LET new == [tables[s] EXCEPT ![p] = tb]
        merged(n) == IF n \in nodes THEN View(new, n) ELSE view[s][n]
        told(n) == \/ Mask(merged(n).conn) # view[s][n].powerState
                   \/ merged(n).powerState # view[s][n].powerState
    IN  /\ tables' = [tables EXCEPT ![s] = new]
        /\ view' = [view EXCEPT ![s] = [n \in Nodes |-> merged(n)]]
        /\ shown' = [shown EXCEPT ![s] = [n \in Nodes |->
                        IF n \in nodes /\ told(n) THEN merged(n) ELSE @[n]]]

\* SetConnectivityState for server p's table, run on server s.
SetState(s, p, n, t, pw) ==
    LET old == Lookup(tables[s][p], n)
        new == SetConn(old, t, pw)
        changed == t \notin old.conn \/ new.powerState # old.powerState
    IN  Update(s, p, Put(tables[s][p], n, new), IF changed THEN {n} ELSE {})

\* ClearConnectivityState, which returns early when the node is not known.
ClearState(s, p, n, t) ==
    IF n \notin DOMAIN tables[s][p]
    THEN UNCHANGED <<tables, view, shown>>
    ELSE LET new == ClearConn(tables[s][p][n], t)
         IN  Update(s, p, IF new.conn = {} THEN Drop(tables[s][p], n)
                          ELSE Put(tables[s][p], n, new), {n})

\* Mutants of ForgetPeer: the nodes are not merged again; nothing is forgotten.
ForgetPeerUnmerged(s, p) == Update(s, p, NoTable, {})
ForgetNothing(s, p) == UNCHANGED <<tables, view, shown>>

\* ClearPeerServer forgets the peer's table and updates the nodes it had.
ForgetPeer(s, p) == Update(s, p, NoTable, DOMAIN tables[s][p])

-----------------------------------------------------------------------------
\* A node of server s gets a connection, or reports its power state again.
LocalSet(s, n, t, pw) ==
    /\ changes < MaxChanges
    /\ changes' = changes + 1
    /\ chan' = Dispatch(s, [action |-> "set", node |-> n, type |-> t,
                            power |-> pw])
    /\ SetState(s, s, n, t, pw)
    /\ UNCHANGED <<peerServers, end, restarts>>

\* A node of server s loses a connection.
LocalClear(s, n, t) ==
    /\ changes < MaxChanges
    /\ changes' = changes + 1
    /\ n \in DOMAIN tables[s][s] /\ t \in tables[s][s][n].conn
    /\ chan' = Dispatch(s, [action |-> "clear", node |-> n, type |-> t])
    /\ ClearState(s, s, n, t)
    /\ UNCHANGED <<peerServers, end, restarts>>

Open(c) == Connect(c) /\ UNCHANGED <<tables, view, shown, changes, restarts>>

Confirmed(c, s) ==
    /\ ReadConfirm(c, s)
    /\ UNCHANGED <<tables, view, shown, changes, restarts>>

\* Mutant of SetupPeerServer: the server's own table is not sent.
SetupWithoutTable(c, s) ==
    /\ ReadInfo(c, s, [action |-> "table", table |-> NoTable])
    /\ UNCHANGED <<tables, view, shown, changes, restarts>>

\* SetupPeerServer sends the server's own table.
SetupPeerServer(c, s) ==
    /\ ReadInfo(c, s, [action |-> "table", table |-> tables[s][s]])
    /\ UNCHANGED <<tables, view, shown, changes, restarts>>

\* ProcessPeerServerMessage; before the connection is set up the message is
\* ignored.
ReadTable(c, s) ==
    /\ Reads(c, s, "table")
    /\ LET tb == Head(chan[c][s]).table
       IN  IF end[c][s] = "setup"
           THEN Update(s, Peer(c, s), tb, DOMAIN tb)
           ELSE UNCHANGED <<tables, view, shown>>
    /\ ReadData(c, s)
    /\ UNCHANGED <<changes, restarts>>

ReadSet(c, s) ==
    /\ Reads(c, s, "set")
    /\ LET m == Head(chan[c][s])
       IN  IF end[c][s] = "setup"
           THEN SetState(s, Peer(c, s), m.node, m.type, m.power)
           ELSE UNCHANGED <<tables, view, shown>>
    /\ ReadData(c, s)
    /\ UNCHANGED <<changes, restarts>>

ReadClear(c, s) ==
    /\ Reads(c, s, "clear")
    /\ LET m == Head(chan[c][s])
       IN  IF end[c][s] = "setup"
           THEN ClearState(s, Peer(c, s), m.node, m.type)
           ELSE UNCHANGED <<tables, view, shown>>
    /\ ReadData(c, s)
    /\ UNCHANGED <<changes, restarts>>

\* A connection ends at s; ClearPeerServer runs if it was set up.  The last
\* connection of the bound does not fail.
Close(c, s) ==
    /\ c.n < MaxConns
       \/ end[c][Peer(c, s)] = "closed"
    /\ LinkClose(c, s)
    /\ IF end[c][s] = "setup"
       THEN ForgetPeer(s, Peer(c, s))
       ELSE UNCHANGED <<tables, view, shown>>
    /\ UNCHANGED <<changes, restarts>>

\* A server restarts with no connected node and no peer.
Restart(s) ==
    /\ restarts < MaxRestarts
    /\ \A c \in Conns : c.n = MaxConns => end[c][s] \notin Alive
    /\ LinkRestart(s)
    /\ tables' = [tables EXCEPT ![s] = [p \in Servers |-> NoTable]]
    /\ view' = [view EXCEPT ![s] = [n \in Nodes |-> NoView]]
    /\ shown' = [shown EXCEPT ![s] = [n \in Nodes |-> NoView]]
    /\ restarts' = restarts + 1
    /\ UNCHANGED changes

Next ==
    \/ \E s \in Servers, n \in Nodes, t \in Kinds, pw \in Reports :
          LocalSet(s, n, t, pw)
    \/ \E s \in Servers, n \in Nodes, t \in Kinds : LocalClear(s, n, t)
    \/ \E c \in Conns : Open(c)
    \/ \E c \in Conns : \E s \in Ends(c) : Confirmed(c, s)
    \/ \E c \in Conns : \E s \in Ends(c) : SetupPeerServer(c, s)
    \/ \E c \in Conns : \E s \in Ends(c) : ReadTable(c, s)
    \/ \E c \in Conns : \E s \in Ends(c) : ReadSet(c, s)
    \/ \E c \in Conns : \E s \in Ends(c) : ReadClear(c, s)
    \/ \E c \in Conns : \E s \in Ends(c) : Close(c, s)
    \/ \E s \in Servers : Restart(s)

\* Messages that arrived are processed, a connection that ended at one end is
\* eventually noticed at the other, and the retry timer connects again.
Fairness ==
    /\ \A c \in Conns : WF_vars(Open(c))
    /\ \A c \in Conns : \A s \in Servers :
          /\ WF_vars(Confirmed(c, s) \/ SetupPeerServer(c, s)
                        \/ ReadTable(c, s) \/ ReadSet(c, s) \/ ReadClear(c, s))
          /\ WF_vars(end[c][Peer(c, s)] = "closed" /\ Close(c, s))

Spec == Init /\ [][Next]_vars /\ Fairness

-----------------------------------------------------------------------------
IsTable(tb) == DOMAIN tb \subseteq Nodes /\ \A n \in DOMAIN tb : tb[n] \in Entries

\* Each variable has its type.
TypeOK ==
    /\ LinkTypeOK
    /\ \A s, p \in Servers : IsTable(tables[s][p])
    /\ \A s \in Servers, n \in Nodes :
          /\ view[s][n].conn \subseteq ConnectTypes
          /\ view[s][n].powerState \in PowerStates
    /\ changes \in 0..MaxChanges
    /\ restarts \in 0..MaxRestarts

\* What a server shows of a node is the merger of the tables it holds.  The
\* code merges again only the nodes of the table it is handling.
ViewIsMerged ==
    \A s \in Servers, n \in Nodes : view[s][n] = View(tables[s], n)

\* When a connection is in use at both ends and nothing is on its way, the
\* copy of the peer's table is the peer's table.
CopyAgrees ==
    \A s, p \in Servers :
        LET c == peerServers[s][p]
        IN  /\ c # NoConn /\ c = peerServers[p][s] /\ chan[c][s] = <<>>
            => tables[s][p] = tables[p][p]

\* A server has no table of a peer that it has no connection with.
NoTableWithoutPeer ==
    \A s, p \in Servers :
        s # p /\ peerServers[s][p] = NoConn => tables[s][p] = NoTable

\* While peers come, go and restart, a server forgets a table with the connection
\* that brought it, and what it shows of each node is the merger of the others.
TablesAreRight == NoTableWithoutPeer /\ ViewIsMerged

\* Users are told of every change: "Event any changes on this server only".
UsersAreTold ==
    \A s \in Servers, n \in Nodes : shown[s][n] = view[s][n]

\* Once the connections stay up, all servers list each other and hold exact
\* copies of each other's tables.
Converges ==
    <>[](\A s, p \in Servers : s # p =>
            peerServers[s][p] # NoConn /\ tables[s][p] = tables[p][p])
=============================================================================
