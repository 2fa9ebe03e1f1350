----------------------------- MODULE MeshRelay -----------------------------
(***************************************************************************)
(* The relay of web sockets (meshrelay.js): the two ends of a session come *)
(* to a server with the same id, the first is held until the second comes, *)
(* and they are closed together.  When the ends come to different servers, *)
(* the servers tell each other of the ids they hold, and the one with the  *)
(* smaller server id opens a tunnel to the other (multiserver.js), which   *)
(* comes there as one more connection.                                     *)
(*                                                                         *)
(* One action is one callback: a connection, an answer of the database on  *)
(* its device, a timer, the error or the end of a web socket, a message of *)
(* a peer, the loss of a peer, a step of a recording.                      *)
(***************************************************************************)
EXTENDS Integers, FiniteSets

CONSTANTS
    Ends,           \* web sockets of users and agents
    Tunnels,        \* bound: web sockets the servers open to their peers
    Servers,        \* ids of the servers, ordered as the code's strings
    Ids,            \* relay ids
    Chosen,         \* ids that clients choose; the others are made up here
    Messenger,      \* ids of messenger sessions (meshmessenger/...)
    ForUsers,       \* of these, the ones between two users
    Barred,         \* messenger id -> ends whose account it does not name
    NoId, NoSock,
    Accounts,       \* accounts, and what stands for none
    Account,        \* account of each end that is compared: obj.user._id or
                    \* obj.ruserid, or the default user (args.user) instead
    Vouched,        \* ends whose query proves that a user asked for them (rauth)
    Authenticated,  \* the ends that are users (obj.authenticated)
    NoUser,         \* of these, the ones without an account (obj.nouser)
    InSession,      \* users with a session (req.session.userid)
    Routed,         \* users whose cookie has routing instructions
    Named,          \* users without, whose query names a device
    Expiring,       \* connections whose cookie has an expiration time
    Recorded,       \* are the sessions recorded?
    Parties,        \* bound: which ends come together, with which ids
    Reuse           \* may a third connection use an id on any server?

ASSUME RelayAssumption ==
    /\ Servers \subseteq Nat \ {0}
    /\ Ends \cap Tunnels = {} /\ NoSock \notin Ends \cup Tunnels
    /\ NoId \notin Ids /\ Chosen \subseteq Ids
    /\ Messenger \subseteq Chosen /\ ForUsers \subseteq Messenger
    /\ Barred \in [Messenger -> SUBSET Ends]
    /\ Account \in [Ends -> Accounts] /\ Vouched \subseteq Ends
    /\ Authenticated \subseteq Ends /\ NoUser \subseteq Authenticated
    /\ InSession \subseteq Authenticated \ NoUser
    /\ Routed \subseteq Authenticated /\ Named \subseteq Authenticated \ Routed
    /\ Expiring \subseteq Ends
    /\ Recorded \in BOOLEAN /\ Reuse \in BOOLEAN
    /\ Parties \subseteq [ends : SUBSET Ends, ids : SUBSET Ids]

Sockets == Ends \cup Tunnels

VARIABLES
    ws,           \* socket -> state of the web socket: "closing" once this
                  \* server closed it, "closed" after the close event
    home,         \* socket -> the server it came to, 0 before
    origin,       \* socket -> the end it comes from: itself, or a tunnel's
    url,          \* socket -> the id it came with (req.query.id)
    id,           \* socket -> obj.id
    here,         \* the connections with obj.ws (every clean-up deletes it)
    peer,         \* socket -> obj.peer
    lookup,       \* connections that wait for the database
    denied,       \* connections closed since the user has no rights
    timer,        \* connections whose 15 second timer runs
    wsrelays,     \* server -> id -> the relay session, or None
    wsPeerRelays, \* server -> id -> the server said to hold it, or 0
    peerServers,  \* server -> the peers it is connected to
    said,         \* 'relay' messages between servers
    missed,       \* those that were lost with a connection, or not sent
    tun,          \* tunnel -> the socket it goes on for, the server it goes
                  \* to, whether it carries a user's authentication
    cut,          \* tunnels that the opening server closed
    stranded,     \* connections whose peer had gone when a tunnel was to open
    log,          \* socket -> recording it writes (ws.logfile), or NoSock;
                  \* a recording has the name of the second connection
    file,         \* second connection -> state of the recording
    users         \* id -> connections that ever had it

sockVars == <<home, origin, url>>
objVars == <<ws, id, here, peer>>
askVars == <<lookup, denied>>
msgVars == <<said, missed>>
tunVars == <<tun, stranded>>
peerVars == <<wsPeerRelays, peerServers, msgVars, tunVars, cut>>
recVars == <<log, file>>
vars == <<sockVars, objVars, askVars, timer, wsrelays, peerVars, recVars, users>>

None == [state |-> 0, peer1 |-> NoSock, peer2 |-> NoSock]
Waiting(s) == [state |-> 1, peer1 |-> s, peer2 |-> NoSock]
Paired(p, s) == [state |-> 2, peer1 |-> p, peer2 |-> s]
NoTunnel == [from |-> NoSock, to |-> 0, user |-> FALSE]
Messages == [from : Servers, to : Servers, id : Ids]

WsStates == {"none", "open", "closing", "closed"}
\* "lost": when the file was open nobody was left to close it; "twice":
\* a recording was finished a second time.
FileStates == {"none", "opening", "open", "ending", "closed", "lost", "twice"}

TypeOK ==
    /\ ws \in [Sockets -> WsStates]
    /\ home \in [Sockets -> Servers \cup {0}]
    /\ origin \in [Sockets -> Ends \cup {NoSock}]
    /\ url \in [Sockets -> Ids \cup {NoId}] /\ id \in [Sockets -> Ids \cup {NoId}]
    /\ here \subseteq Sockets /\ lookup \subseteq Routed /\ denied \subseteq Sockets
    /\ timer \subseteq Sockets
    /\ peer \in [Sockets -> Sockets \cup {NoSock}]
    /\ wsrelays \in [Servers -> [Ids -> {None} \cup {Waiting(s) : s \in Sockets}
                             \cup {Paired(p, s) : p, s \in Sockets}]]
    /\ wsPeerRelays \in [Servers -> [Ids -> Servers \cup {0}]]
    /\ peerServers \in [Servers -> SUBSET Servers]
    /\ said \subseteq Messages /\ missed \subseteq Messages
    /\ tun \in [Tunnels -> {NoTunnel} \cup [from : Sockets, to : Servers, user : BOOLEAN]]
    /\ cut \subseteq Tunnels /\ stranded \subseteq Sockets
    /\ log \in [Sockets -> Sockets \cup {NoSock}]
    /\ file \in [Sockets -> FileStates]
    /\ users \in [Ids -> SUBSET Sockets]

Init ==
    /\ ws = [s \in Sockets |-> "none"] /\ home = [s \in Sockets |-> 0]
    /\ origin = [s \in Sockets |-> NoSock]
    /\ url = [s \in Sockets |-> NoId] /\ id = [s \in Sockets |-> NoId]
    /\ peer = [s \in Sockets |-> NoSock]
    /\ here = {} /\ lookup = {} /\ denied = {} /\ timer = {}
    /\ wsrelays = [v \in Servers |-> [i \in Ids |-> None]]
    /\ wsPeerRelays = [v \in Servers |-> [i \in Ids |-> 0]]
    /\ peerServers = [v \in Servers |-> Servers \ {v}]
    /\ said = {} /\ missed = {} /\ stranded = {}
    /\ tun = [t \in Tunnels |-> NoTunnel] /\ cut = {}
    /\ log = [s \in Sockets |-> NoSock] /\ file = [s \in Sockets |-> "none"]
    /\ users = [i \in Ids |-> {}]

\* State of a web socket after close(): the close event is still to come.
Shut(w) == IF w = "open" THEN "closing" ELSE w

-----------------------------------------------------------------------------
\* performRelay, for connection s of origin o on server v with id i: its web
\* socket is in state w, and h says whether it still has obj.ws.

\* Does s come with a user's account?  A tunnel may carry that of its origin,
\* but not what makes the origin one without a user.
HasUser(s, o) ==
    IF s \in Tunnels THEN tun[s].user ELSE o \in Authenticated \ NoUser
Authentic(s, o) == HasUser(s, o) \/ s \in NoUser

\* createPeerRelay: a tunnel to server v takes over for socket s, with the
\* authentication of its user if u.
OpenTunnel(s, v, u) ==
    \E t \in Tunnels \ {s} :
        /\ tun[t] = NoTunnel
        /\ tun' = [tun EXCEPT ![t] = [from |-> s, to |-> v, user |-> u]]

\* It returns without a word if the peer is not connected to server v now.
CreatePeerRelay(s, v, to, u) ==
    IF to \in peerServers[v] THEN OpenTunnel(s, to, u) /\ UNCHANGED stranded
    ELSE stranded' = stranded \cup {s} /\ UNCHANGED tun

\* DispatchMessage: the peers that server v is connected to are told of id i.
Tell(v, i) ==
    LET told == {w \in peerServers[v] : v \in peerServers[w]} IN
    /\ said' = said \cup [from : {v}, to : told, id : {i}]
    /\ missed' = missed \cup [from : {v}, to : Servers \ (told \cup {v}), id : {i}]

\* Mutant of Hold: without the timer.
HoldUntimed(s, v, i, w, h) ==
    /\ wsrelays[v][i] = None
    /\ ws' = [ws EXCEPT ![s] = w] /\ id' = [id EXCEPT ![s] = i]
    /\ here' = IF h THEN here \cup {s} ELSE here \ {s}
    /\ wsrelays' = [wsrelays EXCEPT ![v][i] = Waiting(s)]
    /\ UNCHANGED <<peer, timer, peerVars, recVars>>

\* Nobody has come with this id: s is held, with a timer.  If a peer with a
\* larger server id is said to hold the id, s is taken off the list again and
\* a tunnel to the peer asked for; otherwise all peers are told.
Hold(s, v, i, w, h) ==
    /\ wsrelays[v][i] = None
    /\ ws' = [ws EXCEPT ![s] = w] /\ id' = [id EXCEPT ![s] = i]
    /\ here' = IF h THEN here \cup {s} ELSE here \ {s}
    /\ timer' = timer \cup {s}
    /\ IF wsPeerRelays[v][i] > v
       THEN /\ CreatePeerRelay(s, v, wsPeerRelays[v][i], s \in InSession)
            /\ UNCHANGED <<wsrelays, msgVars>>
       ELSE /\ wsrelays' = [wsrelays EXCEPT ![v][i] = Waiting(s)]
            /\ Tell(v, i) /\ UNCHANGED tunVars
    /\ UNCHANGED <<peer, wsPeerRelays, peerServers, cut, recVars>>

\* s is turned away: its web socket is closed, obj.id and obj.ws are deleted.
TurnedAway(s, w) ==
    /\ ws' = [ws EXCEPT ![s] = Shut(w)]
    /\ id' = [id EXCEPT ![s] = NoId]
    /\ here' = here \ {s}
    /\ UNCHANGED <<peer, timer, wsrelays, peerVars, recVars>>

\* Mutant of Match: the accounts are not compared.
MatchAnyAccount(s, o, i, r) ==
    /\ r.state = 1
    /\ Authentic(s, o) \/ Authentic(r.peer1, origin[r.peer1])

\* May s, of origin o, be joined with the connection that waits in r under i?
\* One of the two must be authenticated, and both must be of one account,
\* unless it is a messenger session or one of them comes without a user.
Match(s, o, i, r) ==
    /\ r.state = 1
    /\ Authentic(s, o) \/ Authentic(r.peer1, origin[r.peer1])
    /\ \/ i \in Messenger
       \/ Account[o] = Account[origin[r.peer1]]
       \/ s \in NoUser \/ r.peer1 \in NoUser

\* They do not match, or the id has both its ends already.
Refuse(s, o, v, i, w) ==
    /\ wsrelays[v][i] # None /\ ~Match(s, o, i, wsrelays[v][i])
    /\ TurnedAway(s, w)

\* "Check that both sides have websocket connections, this should never
\* happen": both are closed; the entry stays in the list.
BothLost(s, o, v, i, w, h) ==
    LET r == wsrelays[v][i] IN
    /\ Match(s, o, i, r) /\ (~h \/ r.peer1 \notin here)
    /\ ws' = [ws EXCEPT ![s] = Shut(w), ![r.peer1] = Shut(@)]
    /\ id' = [id EXCEPT ![s] = NoId, ![r.peer1] = NoId]
    /\ here' = here \ {s, r.peer1} /\ timer' = timer \ {r.peer1}
    /\ UNCHANGED <<peer, wsrelays, peerVars, recVars>>

\* s is joined with the connection that waits, whose timer stops.  If the
\* session is recorded, the device is read from the database and the file
\* opened before the two are told that they are connected.
Pair(s, o, v, i, w, h) ==
    LET r == wsrelays[v][i] IN
    /\ Match(s, o, i, r) /\ h /\ r.peer1 \in here
    /\ ws' = [ws EXCEPT ![s] = w] /\ id' = [id EXCEPT ![s] = i]
    /\ here' = here \cup {s}
    /\ peer' = [peer EXCEPT ![s] = r.peer1, ![r.peer1] = s]
    /\ timer' = timer \ {r.peer1}
    /\ wsrelays' = [wsrelays EXCEPT ![v][i] = Paired(r.peer1, s)]
    /\ file' = IF Recorded THEN [file EXCEPT ![s] = "opening"] ELSE file
    /\ UNCHANGED <<peerVars, log>>

\* A connection is dropped at once without an id, with a messenger id that does
\* not name it, or when nobody vouches for it.
Unwelcome(s, o, i) ==
    \/ i = NoId
    \/ i \in Messenger /\ (o \in Barred[i] \/ (i \in ForUsers /\ ~HasUser(s, o)))
    \/ i \notin Messenger /\ ~Authentic(s, o) /\ o \notin Vouched

PerformRelay(s, o, v, i, w, h) ==
    IF Unwelcome(s, o, i) THEN TurnedAway(s, w)
    ELSE \/ Hold(s, v, i, w, h)
         \/ Refuse(s, o, v, i, w)
         \/ BothLost(s, o, v, i, w, h)
         \/ Pair(s, o, v, i, w, h)

-----------------------------------------------------------------------------
\* CreateMeshRelay: connection s of origin o comes to server v with id i.
Accepted(s, o, v, i) ==
    /\ ws[s] = "none"
    /\ home' = [home EXCEPT ![s] = v]
    /\ origin' = [origin EXCEPT ![s] = o]
    /\ url' = [url EXCEPT ![s] = i]
    /\ users' = [j \in Ids |-> IF j = i THEN users[j] \cup {s} ELSE users[j]]

\* Unless Reuse: an id is used by two connections, and by a third only on the
\* server that both came to, while they are listed there or gone.
Listed(s) == id[s] # NoId /\ s \in {wsrelays[home[s]][id[s]].peer1,
                                    wsrelays[home[s]][id[s]].peer2}
Welcome(s, v, i) ==
    LET before == IF Reuse \/ i = NoId THEN {} ELSE users[i] IN
    \A x \in before :
        /\ home[x] = v => s \notin Routed /\ (id[x] = i => Listed(x))
        /\ home[x] # v => before = {x}

\* The bound: s comes, or goes on, with id i.
Together(s, i) ==
    \E p \in Parties :
        /\ {s} \cup {x \in Ends : ws[x] # "none"} \subseteq p.ends
        /\ {i} \cup {j \in Ids : users[j] # {}} \subseteq p.ids \cup {NoId}

\* An end comes without routing instructions.
Comes(s, v, i) ==
    /\ s \notin Routed /\ Welcome(s, v, i) /\ Together(s, i)
    /\ i \in Chosen \/ users[i] # {}
    /\ Accepted(s, s, v, i)
    /\ PerformRelay(s, s, v, i, "open", TRUE)
    /\ UNCHANGED askVars

\* A user comes with routing instructions: its rights over the device are
\* checked in the database first.
ComesRouted(s, v, i) ==
    /\ s \in Routed /\ Welcome(s, v, i) /\ Together(s, i)
    /\ Accepted(s, s, v, i)
    /\ ws' = [ws EXCEPT ![s] = "open"] /\ id' = [id EXCEPT ![s] = i]
    /\ here' = here \cup {s} /\ lookup' = lookup \cup {s}
    /\ UNCHANGED <<peer, denied, timer, wsrelays, peerVars, recVars>>

\* The device is not there, the user has no rights over it, or its agent
\* cannot be told: the connection is closed.
NotRouted(s) ==
    /\ s \in lookup /\ lookup' = lookup \ {s}
    /\ TurnedAway(s, ws[s])
    /\ UNCHANGED <<sockVars, denied, users>>

\* The agent is told to connect with the id, a new one if there is none, and
\* the connection goes on, whatever became of it during the lookup.
IsRouted(s) ==
    /\ s \in lookup /\ lookup' = lookup \ {s}
    /\ \E i \in Ids :
          /\ Together(s, i)
          /\ IF id[s] = NoId THEN i \notin Chosen /\ users[i] = {} ELSE i = id[s]
          /\ users' = [users EXCEPT ![i] = @ \cup {s}]
          /\ PerformRelay(s, s, home[s], i, ws[s], s \in here)
    /\ UNCHANGED <<sockVars, denied>>

\* A user that names a device is let in before the database is asked for its
\* rights.  When they are refused it is closed and cleaned: what it waits for is
\* left on the list, and a connection that it is joined with is left alone.
\* Nothing is left to do if it was cleaned before.
AccessDenied(s) ==
    /\ s \in here /\ origin[s] \in Named /\ HasUser(s, origin[s])
    /\ ws' = [ws EXCEPT ![s] = Shut(@)] /\ id' = [id EXCEPT ![s] = NoId]
    /\ peer' = [peer EXCEPT ![s] = NoSock]
    /\ here' = here \ {s} /\ timer' = timer \ {s} /\ denied' = denied \cup {s}
    /\ UNCHANGED <<sockVars, lookup, wsrelays, peerVars, recVars, users>>

-----------------------------------------------------------------------------
\* Mutant of Leaving: the other end of a session is left alone.
LeavingAlone(s, r) == {s}

\* The connections that go when s closes and r is listed under its id.
Leaving(s, r) ==
    IF r.state = 2 THEN {s, IF r.peer1 = s THEN r.peer2 ELSE r.peer1} ELSE {s}

\* closeBothSides of connection s, whose web socket is in state w by now.
\* What is listed under its id is taken off the list: if that is a session of
\* two, the other end is closed and cleaned too, and its recording finished.
\* A timer that still runs will find no obj.id and do nothing: it is left out.
CloseBothSides(s, w) ==
    LET r == IF id[s] = NoId THEN None ELSE wsrelays[home[s]][id[s]]
        gone == Leaving(s, r)
        ended == IF r.state = 2 THEN log[s] ELSE NoSock
    IN  /\ ws' = [x \in Sockets |->
                    CASE x = s -> IF r = None THEN w ELSE Shut(w)
                      [] x # s /\ x \in gone -> Shut(ws[x])
                      [] OTHER -> ws[x]]
        /\ id' = [x \in Sockets |-> IF x \in gone THEN NoId ELSE id[x]]
        /\ here' = here \ gone /\ timer' = timer \ gone
        /\ peer' = [x \in Sockets |-> IF x \in gone THEN NoSock ELSE peer[x]]
        /\ wsrelays' = IF r = None THEN wsrelays
                       ELSE [wsrelays EXCEPT ![home[s]][id[s]] = None]
        /\ IF ended = NoSock THEN UNCHANGED <<log, file>>
           ELSE /\ log' = [log EXCEPT ![s] = NoSock]
                /\ file' = [file EXCEPT ![ended] =
                              IF @ = "open" THEN "ending" ELSE "twice"]
        /\ UNCHANGED <<sockVars, askVars, wsPeerRelays, peerServers, msgVars, tunVars, users>>

\* The tunnel that goes on for s is closed with it.
CutTunnelsOf(s) == cut' = cut \cup {t \in Tunnels : tun[t].from = s}

\* The close event of a web socket, on the side of the server it came to.
Closed(s) ==
    /\ ws[s] \in {"open", "closing"}
    /\ CloseBothSides(s, "closed") /\ CutTunnelsOf(s)

\* The error event of a web socket; its close event follows.
Fails(s) ==
    /\ ws[s] = "open"
    /\ CloseBothSides(s, "closing") /\ CutTunnelsOf(s)

\* The 15 second timer of a connection that was held.
TimesOut(s) ==
    /\ s \in timer
    /\ CloseBothSides(s, ws[s]) /\ UNCHANGED cut

\* The cookie of the connection expires, or the shared access that it came
\* with is removed.
Expires(s) ==
    /\ s \in Expiring /\ ws[s] # "none"
    /\ CloseBothSides(s, ws[s]) /\ UNCHANGED cut

-----------------------------------------------------------------------------
\* Mutant of HearsRelay: a peer that holds an id is not remembered.
HearsRelayForgets(m) ==
    LET v == m.to
        r == wsrelays[v][m.id]
    IN  /\ m \in said /\ said' = said \ {m}
        /\ IF m.from > v /\ r.peer1 \in here
           THEN /\ OpenTunnel(r.peer1, m.from, HasUser(r.peer1, origin[r.peer1]))
                /\ wsrelays' = [wsrelays EXCEPT ![v][m.id] = None]
           ELSE UNCHANGED <<tun, wsrelays>>
        /\ UNCHANGED <<sockVars, objVars, askVars, timer, wsPeerRelays, peerServers,
                       missed, stranded, cut, recVars, users>>

\* A peer says that it holds an id.  If it is held here too, the server with
\* the smaller id takes its own connection off the list and opens a tunnel to
\* the peer, which is connected when it speaks; a connection that is lost
\* already cannot be tunnelled.  If it is not held
\* here, the peer is remembered, and what was remembered for long forgotten:
\* longer than anyone waits.
HearsRelay(m) ==
    LET v == m.to
        r == wsrelays[v][m.id]
    IN  /\ m \in said /\ said' = said \ {m}
        /\ IF r = None
           THEN /\ \E old \in SUBSET {j \in Ids \ {m.id} :
                        \A s \in Sockets : id[s] = j => home[s] # wsPeerRelays[v][j]} :
                      wsPeerRelays' = [wsPeerRelays EXCEPT ![v] =
                          [j \in Ids |-> CASE j = m.id -> m.from
                                           [] j \in old -> 0
                                           [] OTHER -> wsPeerRelays[v][j]]]
                /\ UNCHANGED <<tun, wsrelays>>
           ELSE /\ IF m.from > v /\ r.peer1 \in here
                   THEN /\ OpenTunnel(r.peer1, m.from, HasUser(r.peer1, origin[r.peer1]))
                        /\ wsrelays' = [wsrelays EXCEPT ![v][m.id] = None]
                   ELSE UNCHANGED <<tun, wsrelays>>
                /\ UNCHANGED wsPeerRelays
        /\ UNCHANGED <<sockVars, objVars, askVars, timer, peerServers, missed,
                       stranded, cut, recVars, users>>

\* The tunnel reaches the peer, with the query of the connection it goes on
\* for: an id that was made up here is not in it.
TunnelComes(t) ==
    /\ tun[t] # NoTunnel
    /\ LET s == tun[t].from IN
          /\ Accepted(t, origin[s], tun[t].to, url[s])
          /\ PerformRelay(t, origin[s], tun[t].to, url[s], "open", TRUE)
    /\ UNCHANGED askVars

\* The tunnel fails, or its far side closed: this side closes it, and with it
\* the connection it goes on for.
TunnelEnds(t) ==
    /\ tun[t] # NoTunnel /\ t \notin cut /\ ws[t] # "open"
    /\ cut' = cut \cup {t}
    /\ ws' = [ws EXCEPT ![tun[t].from] = Shut(@)]
    /\ UNCHANGED <<sockVars, id, here, peer, askVars, timer, wsrelays, wsPeerRelays,
                   peerServers, msgVars, tunVars, recVars, users>>

\* ClearPeerServer: server v notices the end of its connection with server w;
\* what was still on its way to v is lost.  What v was told is not forgotten.
PeerLost(v, w) ==
    /\ w \in peerServers[v]
    /\ peerServers' = [peerServers EXCEPT ![v] = @ \ {w}]
    /\ said' = said \ [from : {w}, to : {v}, id : Ids]
    /\ missed' = missed \cup (said \cap [from : {w}, to : {v}, id : Ids])
    /\ UNCHANGED <<sockVars, objVars, askVars, timer, wsrelays, wsPeerRelays,
                   tunVars, cut, recVars, users>>

\* SetupPeerServer: the two are connected again, both having noticed the end.
\* What they hold they do not tell each other.
PeerFound(v, w) ==
    /\ v # w /\ w \notin peerServers[v] /\ v \notin peerServers[w]
    /\ peerServers' = [peerServers EXCEPT ![v] = @ \cup {w}, ![w] = @ \cup {v}]
    /\ UNCHANGED <<sockVars, objVars, askVars, timer, wsrelays, wsPeerRelays, msgVars,
                   tunVars, cut, recVars, users>>

-----------------------------------------------------------------------------
\* Mutant of RecordingStarts: without a look at the session.
RecordingStartsAnyway(s) ==
    /\ file[s] = "opening" /\ file' = [file EXCEPT ![s] = "open"]
    /\ log' = [log EXCEPT ![s] = s]
    /\ UNCHANGED <<sockVars, objVars, askVars, timer, wsrelays, peerVars, users>>

\* The recording file is open and its header written: the second connection is
\* given the file, and the first if it still has its web socket.  If neither is
\* in the session any more nobody will close the file.
RecordingStarts(s) ==
    LET first == {p \in here : peer[p] = s} IN
    /\ file[s] = "opening"
    /\ log' = [x \in Sockets |-> IF x \in first \cup {s} THEN s ELSE log[x]]
    /\ file' = [file EXCEPT ![s] =
                  IF first = {} /\ peer[s] = NoSock THEN "lost" ELSE "open"]
    /\ UNCHANGED <<sockVars, objVars, askVars, timer, wsrelays, peerVars, users>>

\* The session is not to be recorded after all, or the file cannot be opened.
NotRecorded(s) ==
    /\ file[s] = "opening" /\ file' = [file EXCEPT ![s] = "none"]
    /\ UNCHANGED <<sockVars, objVars, askVars, timer, wsrelays, peerVars, log, users>>

\* Five seconds later the end is written and the file closed.
RecordingCloses(s) ==
    /\ file[s] = "ending" /\ file' = [file EXCEPT ![s] = "closed"]
    /\ UNCHANGED <<sockVars, objVars, askVars, timer, wsrelays, peerVars, log, users>>

Next ==
    \/ \E s \in Ends, v \in Servers, i \in Ids : Comes(s, v, i)
    \/ \E s \in Ends, v \in Servers, i \in Chosen \cup {NoId} : ComesRouted(s, v, i)
    \/ \E s \in Ends : NotRouted(s) \/ IsRouted(s) \/ Expires(s)
    \/ \E s \in Sockets : Closed(s) \/ Fails(s) \/ TimesOut(s) \/ AccessDenied(s)
    \/ \E v, w \in Servers : PeerLost(v, w) \/ PeerFound(v, w)
    \/ \E m \in said : HearsRelay(m)
    \/ \E t \in Tunnels : TunnelComes(t) \/ TunnelEnds(t)
    \/ \E s \in Sockets : RecordingStarts(s) \/ NotRecorded(s) \/ RecordingCloses(s)

\* What happens of itself: timers run out, the database answers, a close event
\* follows every close, and the end of a tunnel is noticed on both sides.
Progress ==
    \/ \E s \in Ends : NotRouted(s) \/ IsRouted(s)
    \/ \E s \in Sockets : TimesOut(s) \/ RecordingCloses(s)
    \/ \E s \in Sockets : (ws[s] = "closing" \/ s \in cut) /\ Closed(s)
    \/ \E t \in Tunnels : ws[t] # "none" /\ TunnelEnds(t)

Spec == Init /\ [][Next]_vars /\ WF_vars(Progress)

-----------------------------------------------------------------------------
\* A connection that a tunnel goes on for, on the server that opened it.
Tunnelled(s) == \E t \in Tunnels : tun[t].from = s

\* What a connection is to the relay, whose account it has, which were
\* authenticated, and for which the accounts are not compared.
Phase(s) ==
    CASE ws[s] = "none" -> "absent"
      [] ws[s] # "none" /\ peer[s] # NoSock -> "joined"
      [] ws[s] # "none" /\ peer[s] = NoSock /\ s \in here /\ ~Tunnelled(s) -> "alone"
      [] OTHER -> "over"
AccountOf(s) == IF ws[s] = "none" THEN NoSock ELSE Account[origin[s]]
ByUsers == {s \in Sockets : ws[s] # "none" /\ Authentic(s, origin[s])}
Exempt == {s \in Sockets : ws[s] # "none" /\ (s \in NoUser \/ url[s] \in Messenger)}

\* What the relay promises, whatever the order of events: see Rendezvous.
Rendezvous == INSTANCE Rendezvous WITH
    NoAccount <- NoSock, partner <- peer, authentic <- ByUsers, exempt <- Exempt,
    refused <- denied,
    phase <- [s \in Sockets |-> Phase(s)],
    account <- [s \in Sockets |-> AccountOf(s)]
RendezvousSpec == Rendezvous!Spec

\* A connection that the relay gave up is being closed: none stays open
\* without being waited for, joined or tunnelled, unless the peer had gone when
\* its tunnel was to open.  And a side of a session is left by the other only if
\* that was refused its rights.
EndedIsClosed ==
    \A s \in Sockets :
        /\ ws[s] = "open" =>
              s \in lookup \cup stranded \/ Listed(s) \/ Tunnelled(s)
        /\ peer[s] # NoSock => peer[peer[s]] = s \/ peer[s] \in denied

\* Two connections that wait for each other on different servers are on their
\* way to meet: one of the servers is still to be told of the other's, unless
\* the servers lost each other when it was said.
MeetingUnderWay ==
    \A v, w \in Servers, i \in Ids :
        /\ v < w /\ wsrelays[v][i].state = 1 /\ wsrelays[w][i].state = 1
        /\ wsrelays[v][i].peer1 \in here /\ wsrelays[w][i].peer1 \notin denied
        => [from |-> w, to |-> v, id |-> i] \in said \cup missed

\* A recording that is open belongs to a session that is listed, and each side
\* that was not refused its rights will end it; it is finished once.
RecordingEndsOnce ==
    \A s \in Sockets :
        /\ file[s] # "twice"
        /\ file[s] = "open" => \E i \in Ids :
              /\ wsrelays[home[s]][i].state = 2 /\ wsrelays[home[s]][i].peer2 = s
              /\ \A x \in {wsrelays[home[s]][i].peer1, s} \ denied :
                    log[x] = s /\ id[x] = i

\* No connection is held for ever: it is joined, tunnelled or closed, unless the
\* peer had gone when its tunnel was to open.
NobodyIsHeld ==
    \A s \in Sockets :
        ws[s] = "open" ~>
            (peer[s] # NoSock \/ Tunnelled(s) \/ ws[s] # "open" \/ s \in stranded)
=============================================================================
