--------------------------- MODULE MeshRelayProofs ---------------------------
(***************************************************************************)
(* Proofs about the relay of web sockets, for any ends, servers, ids and   *)
(* tunnels, where an id is not used by a third connection (~Reuse): what   *)
(* the relay gave up is closed, two that wait for each other are on their  *)
(* way to meet, a recording ends once, and MeshRelay implements Rendezvous.*)
(***************************************************************************)
EXTENDS MeshRelay, TLAPS

\* What a connection has once it came: an end, a server, and the id it uses or
\* used; while it has its web socket, the id it came with is the one it uses.
CameInv ==
    /\ \A s \in Sockets : ws[s] # "none" =>
          home[s] \in Servers /\ origin[s] \in Ends /\ (s \in Ends => origin[s] = s)
    /\ \A s \in here \cup lookup \cup timer : ws[s] # "none"
    /\ \A i \in Ids : \A s \in users[i] : ws[s] # "none"
    /\ \A s \in Sockets : id[s] # NoId => s \in users[id[s]]
    /\ \A s \in here : url[s] \in {id[s], NoId}

\* Nobody else used the id on the server of a connection that waits for the
\* database.
LookupInv ==
    \A s \in lookup : id[s] # NoId =>
        /\ url[s] = id[s]
        /\ \A x \in users[id[s]] : home[x] = home[s] => x = s

\* Who was refused its rights is cleaned, and never comes back.
DeniedInv ==
    \A s \in denied :
        /\ s \notin here \cup lookup /\ id[s] = NoId /\ peer[s] = NoSock
        /\ ws[s] \in {"closing", "closed"}

\* What is listed as waiting: if it has its web socket it keeps the id and no
\* tunnel goes on for it; if it lost the id it met another there, or was refused.
WaitingInv ==
    \A v \in Servers, i \in Ids :
        wsrelays[v][i].state = 1 =>
            /\ wsrelays[v][i].peer1 \in users[i] \ lookup
            /\ home[wsrelays[v][i].peer1] = v
            /\ peer[wsrelays[v][i].peer1] = NoSock
            /\ wsrelays[v][i].peer1 \in here =>
                  id[wsrelays[v][i].peer1] = i /\ ~Tunnelled(wsrelays[v][i].peer1)
            /\ id[wsrelays[v][i].peer1] \in {i, NoId}
            /\ \/ id[wsrelays[v][i].peer1] = i
               \/ wsrelays[v][i].peer1 \in denied
               \/ \E z \in users[i] \ {wsrelays[v][i].peer1} : home[z] = v

\* One side of a session of two on server v, with id i: it may have been refused
\* its rights since.
Side(p, q, v, i) ==
    /\ p \in users[i] \ lookup /\ home[p] = v
    /\ p \notin denied => p \in here /\ id[p] = i /\ peer[p] = q /\ ~Tunnelled(p)

\* What is listed as a session of two, and the converse.
PairedInv ==
    \A v \in Servers, i \in Ids :
        wsrelays[v][i].state = 2 =>
            /\ wsrelays[v][i].peer1 # wsrelays[v][i].peer2
            /\ Side(wsrelays[v][i].peer1, wsrelays[v][i].peer2, v, i)
            /\ Side(wsrelays[v][i].peer2, wsrelays[v][i].peer1, v, i)

PeerInv ==
    \A s \in Sockets : peer[s] # NoSock =>
        /\ id[s] # NoId
        /\ wsrelays[home[s]][id[s]] \in {Paired(s, peer[s]), Paired(peer[s], s)}
        /\ \A x \in Sockets : peer[x] = peer[s] => x = s

\* Who has an id is listed under it, or nobody is.
PlacedInv ==
    \A s \in Sockets : id[s] # NoId =>
        \/ Listed(s)
        \/ /\ wsrelays[home[s]][id[s]] = None
           /\ s \in lookup \cup stranded \/ Tunnelled(s)

\* An open connection is waited for, listed or tunnelled, or its peer had gone.
OpenInv ==
    \A s \in Sockets : ws[s] = "open" =>
        s \in lookup \cup stranded \/ Listed(s) \/ Tunnelled(s)

\* If the ends that used an id came to different servers they are two.
TwoHomes ==
    \A i \in Ids : \A x, y \in users[i] \cap Ends :
        home[x] # home[y] => users[i] \cap Ends = {x, y}

\* An end was held or joined on server v with id i.
Held(v, i) == \E y \in (users[i] \cap Ends) \ lookup : home[y] = v

\* An end whose peer had gone has the smaller server id of the two that used its
\* id, if it has one still.
StrandedInv ==
    \A s \in stranded :
        /\ s \in Ends \ lookup /\ ws[s] # "none"
        /\ id[s] # NoId => \E u \in Servers : home[s] < u /\ Held(u, id[s])

\* What servers say of each other, and remember, was so; the one that speaks is
\* connected to the one that hears it.
SaidInv ==
    /\ \A v \in Servers : v \notin peerServers[v]
    /\ \A m \in said :
          m.from # m.to /\ Held(m.from, m.id) /\ m.from \in peerServers[m.to]
    /\ \A v \in Servers, i \in Ids : wsPeerRelays[v][i] # 0 =>
          wsPeerRelays[v][i] # v /\ Held(wsPeerRelays[v][i], i)

\* A tunnel goes on for an end, to a server with a larger id where the id was
\* held.
TunnelInv ==
    /\ \A t \in Tunnels : tun[t] # NoTunnel =>
          /\ tun[t].from \in Ends \ lookup /\ ws[tun[t].from] # "none"
          /\ home[tun[t].from] < tun[t].to
          /\ ws[t] # "none" => home[t] = tun[t].to
          /\ url[tun[t].from] # NoId =>
                /\ tun[t].from \in users[url[tun[t].from]]
                /\ Held(tun[t].to, url[tun[t].from])
          /\ id[tun[t].from] # NoId => Held(tun[t].to, id[tun[t].from])
    /\ \A t \in Tunnels : ws[t] # "none" => tun[t] # NoTunnel
    /\ \A i \in Ids : \A t \in users[i] \cap Tunnels :
          tun[t] # NoTunnel /\ url[tun[t].from] = i

\* Of a connection that waits, a server with a smaller id is told, missed it,
\* remembers it, or will not hold another: the id is used by somebody else already.
ToldInv ==
    \A v, w \in Servers, i \in Ids :
        v < w /\ wsrelays[w][i].state = 1 =>
            \/ [from |-> w, to |-> v, id |-> i] \in said \cup missed
            \/ wsPeerRelays[v][i] = w \/ wsrelays[w][i].peer1 \in denied
            \/ \E x \in users[i] \ {wsrelays[w][i].peer1} :
                  home[x] # v \/ x \notin lookup

\* Only what was joined has to do with a recording.
FreshInv ==
    \A s \in Sockets : log[s] # NoSock \/ file[s] # "none" =>
        ws[s] # "none" /\ s \notin lookup /\ (s \in here => peer[s] # NoSock)

\* A recording has the name of the second connection, and what a connection
\* that is joined writes is open.
RecordedInv ==
    \A s \in Sockets : peer[s] # NoSock =>
        /\ log[s] # NoSock =>
              log[s] = wsrelays[home[s]][id[s]].peer2 /\ file[log[s]] = "open"
        /\ \A x \in {s, peer[s]} :
              file[x] # "none" => wsrelays[home[s]][id[s]].peer2 = x

IInv ==
    /\ TypeOK /\ CameInv /\ LookupInv /\ DeniedInv /\ WaitingInv /\ PairedInv /\ PeerInv
    /\ PlacedInv /\ TwoHomes /\ StrandedInv /\ SaidInv /\ TunnelInv /\ ToldInv /\ FreshInv
    /\ RecordedInv /\ OpenInv /\ MeetingUnderWay /\ RecordingEndsOnce

-----------------------------------------------------------------------------
RelayTable == [Servers -> [Ids -> {None} \cup {Waiting(s) : s \in Sockets}
                             \cup {Paired(p, s) : p, s \in Sockets}]]

\* What is listed under an id is nothing, one that waits, or two.
LEMMA Entries ==
    ASSUME TypeOK, NEW v \in Servers, NEW i \in Ids
    PROVE  /\ wsrelays[v][i].state \in {0, 1, 2}
           /\ wsrelays[v][i].state = 0 => wsrelays[v][i] = None
           /\ wsrelays[v][i].state = 1 =>
                 /\ wsrelays[v][i].peer1 \in Sockets
                 /\ wsrelays[v][i] = Waiting(wsrelays[v][i].peer1)
           /\ wsrelays[v][i].state = 2 =>
                 /\ wsrelays[v][i].peer1 \in Sockets /\ wsrelays[v][i].peer2 \in Sockets
                 /\ wsrelays[v][i] = Paired(wsrelays[v][i].peer1, wsrelays[v][i].peer2)
<1>1. wsrelays[v][i] \in {None} \cup {Waiting(s) : s \in Sockets}
                                \cup {Paired(p, s) : p, s \in Sockets}
  BY DEF TypeOK
<1> QED  BY <1>1 DEF None, Waiting, Paired

\* The list of sessions, typed.
LEMMA Table ==
    ASSUME TypeOK  PROVE wsrelays \in RelayTable
<1> SUFFICES wsrelays \in [Servers -> [Ids -> {None} \cup {Waiting(s) : s \in Sockets}
                                      \cup {Paired(p, s) : p, s \in Sockets}]]
  BY DEF RelayTable
<1>1. TypeOK
  OBVIOUS
<1> QED  BY <1>1 DEF TypeOK

\* The facts about the constants that every step needs.
LEMMA Consts ==
    /\ \A v \in Servers : v \in Nat /\ v # 0
    /\ Ends \cap Tunnels = {} /\ NoSock \notin Sockets /\ NoId \notin Ids
    /\ Sockets = Ends \cup Tunnels /\ Routed \subseteq Ends
  BY RelayAssumption DEF Sockets

THEOREM InitInv == Init => IInv
<1> SUFFICES ASSUME Init  PROVE IInv
  OBVIOUS
<1>1. TypeOK
  BY Consts DEF Init, TypeOK, WsStates, FileStates, None, Messages
<1>2. \A v \in Servers, i \in Ids : wsrelays[v][i] = None /\ None.state = 0
  BY DEF Init, None
<1>3. /\ \A s \in Sockets : ws[s] = "none" /\ id[s] = NoId /\ peer[s] = NoSock
      /\ \A i \in Ids : users[i] = {}
      /\ \A t \in Tunnels : tun[t] = NoTunnel
  BY DEF Init
<1>4. CameInv /\ LookupInv /\ DeniedInv /\ PlacedInv /\ TwoHomes /\ PeerInv /\ OpenInv
  BY <1>3, Consts DEF Init, CameInv, LookupInv, DeniedInv, PlacedInv, TwoHomes, PeerInv,
                      OpenInv
<1>5. WaitingInv /\ PairedInv /\ ToldInv /\ MeetingUnderWay
  BY <1>2 DEF WaitingInv, PairedInv, ToldInv, MeetingUnderWay
<1>6. SaidInv /\ TunnelInv /\ StrandedInv
  BY <1>3, Consts DEF Init, SaidInv, TunnelInv, StrandedInv
<1>7. FreshInv /\ RecordedInv /\ RecordingEndsOnce
  BY <1>3 DEF Init, FreshInv, RecordedInv, RecordingEndsOnce
<1> QED  BY <1>1, <1>4, <1>5, <1>6, <1>7 DEF IInv

\* The types after a step, variable by variable.
LEMMA TypedThen ==
    ASSUME ws' \in [Sockets -> WsStates],
           home' \in [Sockets -> Servers \cup {0}],
           origin' \in [Sockets -> Ends \cup {NoSock}],
           url' \in [Sockets -> Ids \cup {NoId}], id' \in [Sockets -> Ids \cup {NoId}],
           here' \subseteq Sockets, lookup' \subseteq Routed, denied' \subseteq Sockets,
           timer' \subseteq Sockets, peerServers' \in [Servers -> SUBSET Servers],
           missed' \subseteq Messages, stranded' \subseteq Sockets,
           peer' \in [Sockets -> Sockets \cup {NoSock}], wsrelays' \in RelayTable,
           wsPeerRelays' \in [Servers -> [Ids -> Servers \cup {0}]],
           said' \subseteq Messages,
           tun' \in [Tunnels -> {NoTunnel} \cup [from : Sockets, to : Servers, user : BOOLEAN]],
           cut' \subseteq Tunnels, log' \in [Sockets -> Sockets \cup {NoSock}],
           file' \in [Sockets -> FileStates], users' \in [Ids -> SUBSET Sockets]
    PROVE  TypeOK'
  BY DEF TypeOK, RelayTable

\* What every proof of a step uses of the types.
LEMMA Types ==
    ASSUME TypeOK
    PROVE  /\ ws \in [Sockets -> WsStates]
           /\ home \in [Sockets -> Servers \cup {0}]
           /\ id \in [Sockets -> Ids \cup {NoId}]
           /\ peer \in [Sockets -> Sockets \cup {NoSock}]
           /\ log \in [Sockets -> Sockets \cup {NoSock}]
           /\ file \in [Sockets -> FileStates]
           /\ here \subseteq Sockets /\ timer \subseteq Sockets
           /\ lookup \subseteq Sockets /\ lookup \subseteq Ends
           /\ denied \subseteq Sockets
  BY Consts DEF TypeOK

\* Two that are joined are joined with each other, on the same server and with
\* the same id, unless one was refused its rights; nobody else is listed there.
LEMMA Partners ==
    ASSUME TypeOK, CameInv, DeniedInv, PairedInv, PeerInv, NEW s \in Sockets, peer[s] # NoSock
    PROVE  /\ peer[s] \in Sockets \ {s} /\ s \notin denied
           /\ home[s] \in Servers /\ home[peer[s]] = home[s] /\ id[s] \in Ids
           /\ s \in here \ lookup /\ ~Tunnelled(s)
           /\ peer[s] \in users[id[s]] \ lookup /\ ws[peer[s]] # "none"
           /\ peer[s] \notin denied =>
                 /\ peer[peer[s]] = s /\ id[peer[s]] = id[s]
                 /\ peer[s] \in here /\ ~Tunnelled(peer[s])
           /\ wsrelays[home[s]][id[s]] \in {Paired(s, peer[s]), Paired(peer[s], s)}
           /\ wsrelays[home[s]][id[s]].state = 2
           /\ {wsrelays[home[s]][id[s]].peer1, wsrelays[home[s]][id[s]].peer2} = {s, peer[s]}
<1>1. id[s] \in Ids /\ s \notin denied
  BY Types DEF PeerInv, DeniedInv
<1>2. home[s] \in Servers
  BY <1>1, Consts DEF CameInv
<1>3. wsrelays[home[s]][id[s]] \in {Paired(s, peer[s]), Paired(peer[s], s)}
  BY DEF PeerInv
<1>4. /\ wsrelays[home[s]][id[s]].state = 2
      /\ \/ wsrelays[home[s]][id[s]].peer1 = s /\ wsrelays[home[s]][id[s]].peer2 = peer[s]
         \/ wsrelays[home[s]][id[s]].peer1 = peer[s] /\ wsrelays[home[s]][id[s]].peer2 = s
  BY <1>3 DEF Paired
<1>5. s # peer[s] /\ Side(s, peer[s], home[s], id[s]) /\ Side(peer[s], s, home[s], id[s])
  BY <1>1, <1>2, <1>4 DEF PairedInv
<1>6. peer[s] \in Sockets
  BY Types
<1>7. ws[peer[s]] # "none"
  BY <1>1, <1>5 DEF Side, CameInv
<1> QED  BY <1>1, <1>2, <1>3, <1>4, <1>5, <1>6, <1>7 DEF Side

\* Who is listed alone, or with a partner.
LEMMA ListedWhere ==
    ASSUME TypeOK, CameInv, DeniedInv, PairedInv, NEW s \in Sockets, Listed(s)
    PROVE  /\ id[s] \in Ids /\ home[s] \in Servers
           /\ \/ wsrelays[home[s]][id[s]] = Waiting(s)
              \/ /\ peer[s] # NoSock /\ wsrelays[home[s]][id[s]].state = 2
<1>1. id[s] \in Ids /\ home[s] \in Servers
  BY Types, Consts DEF Listed, CameInv
<1>2. s \in {wsrelays[home[s]][id[s]].peer1, wsrelays[home[s]][id[s]].peer2} /\ s # NoSock
  BY Consts DEF Listed
<1>3. CASE wsrelays[home[s]][id[s]].state = 0
  BY <1>1, <1>2, <1>3, Entries DEF None
<1>4. CASE wsrelays[home[s]][id[s]].state = 1
  <2>1. wsrelays[home[s]][id[s]] = Waiting(wsrelays[home[s]][id[s]].peer1)
    BY <1>1, <1>4, Entries
  <2>2. wsrelays[home[s]][id[s]].peer2 = NoSock
    <3> DEFINE p == wsrelays[home[s]][id[s]].peer1
    <3>1. Waiting(p).peer2 = NoSock
      BY DEF Waiting
    <3> QED  BY <2>1, <3>1
  <2> QED  BY <1>1, <1>2, <2>1, <2>2
<1>5. CASE wsrelays[home[s]][id[s]].state = 2
  <2>1. peer[s] \in {wsrelays[home[s]][id[s]].peer1, wsrelays[home[s]][id[s]].peer2}
    <3>1. s \notin denied
      BY <1>1, Consts DEF DeniedInv
    <3> QED  BY <1>1, <1>2, <1>5, <3>1 DEF PairedInv, Side
  <2> QED  BY <1>1, <1>5, <2>1, Entries, Consts
<1> QED  BY <1>1, <1>3, <1>4, <1>5, Entries

-----------------------------------------------------------------------------
\* What closeBothSides does: s ends, and with it the one it is joined with.
CloseEffect(s, w) ==
    /\ \A x \in Sockets :
          /\ ws'[x] \in WsStates /\ (ws'[x] = "none" <=> ws[x] = "none")
          /\ x \notin {s, peer[s]} =>
                ws'[x] = ws[x] /\ id'[x] = id[x] /\ peer'[x] = peer[x]
          /\ x \in {s, peer[s]} => id'[x] = NoId /\ peer'[x] = NoSock
    /\ ws'[s] = "open" => w = "open" /\ ~Listed(s)
    /\ peer[s] # NoSock => ws'[peer[s]] # "open"
    /\ here' = here \ {s, peer[s]} /\ timer' = timer \ {s, peer[s]}
    /\ wsrelays' \in RelayTable
    /\ \A v \in Servers, i \in Ids :
          wsrelays'[v][i] = IF v = home[s] /\ i = id[s] THEN None ELSE wsrelays[v][i]
    /\ IF peer[s] # NoSock /\ log[s] # NoSock
       THEN /\ log' = [log EXCEPT ![s] = NoSock]
            /\ file' = [file EXCEPT ![log[s]] = IF @ = "open" THEN "ending" ELSE "twice"]
       ELSE UNCHANGED <<log, file>>
    /\ UNCHANGED <<sockVars, askVars, wsPeerRelays, peerServers, msgVars, tunVars, users>>

LEMMA CloseDoes ==
    ASSUME IInv, NEW s \in Sockets, NEW w \in WsStates, w # "none", ws[s] # "none",
           CloseBothSides(s, w)
    PROVE  CloseEffect(s, w)
<1> DEFINE r == IF id[s] = NoId THEN None ELSE wsrelays[home[s]][id[s]]
           gone == Leaving(s, r)
           ended == IF r.state = 2 THEN log[s] ELSE NoSock
<1>1. /\ ws' = [x \in Sockets |->
                    CASE x = s -> IF r = None THEN w ELSE Shut(w)
                      [] x # s /\ x \in gone -> Shut(ws[x])
                      [] OTHER -> ws[x]]
      /\ id' = [x \in Sockets |-> IF x \in gone THEN NoId ELSE id[x]]
      /\ here' = here \ gone /\ timer' = timer \ gone
      /\ peer' = [x \in Sockets |-> IF x \in gone THEN NoSock ELSE peer[x]]
      /\ wsrelays' = IF r = None THEN wsrelays
                     ELSE [wsrelays EXCEPT ![home[s]][id[s]] = None]
      /\ IF ended = NoSock THEN UNCHANGED <<log, file>>
         ELSE /\ log' = [log EXCEPT ![s] = NoSock]
              /\ file' = [file EXCEPT ![ended] = IF @ = "open" THEN "ending" ELSE "twice"]
      /\ UNCHANGED <<sockVars, askVars, wsPeerRelays, peerServers, msgVars, tunVars, users>>
  BY DEF CloseBothSides
<1>2. /\ home[s] \in Servers /\ TypeOK /\ CameInv /\ DeniedInv /\ PairedInv /\ PeerInv
      /\ PlacedInv
  BY DEF IInv, CameInv
<1>3. /\ Listed(s) <=> r # None
      /\ peer[s] # NoSock <=> r.state = 2
      /\ gone \cap Sockets = {s, peer[s]} \cap Sockets
  <2>1. CASE id[s] = NoId
    <3>1. r = None /\ ~Listed(s) /\ peer[s] = NoSock
      BY <2>1, <1>2 DEF Listed, PeerInv
    <3> QED  BY <3>1, Consts DEF None, Leaving
  <2>2. CASE id[s] # NoId /\ ~Listed(s)
    <3>1. r = None
      BY <2>2, <1>2 DEF PlacedInv
    <3>2. peer[s] = NoSock
      BY <2>2, <1>2, Partners DEF Listed
    <3> QED  BY <2>2, <3>1, <3>2, Consts DEF None, Leaving
  <2>3. CASE Listed(s) /\ peer[s] = NoSock
    <3>1. r = Waiting(s)
      BY <2>3, <1>2, ListedWhere DEF Listed
    <3> QED  BY <2>3, <3>1, Consts DEF None, Waiting, Leaving
  <2>4. CASE Listed(s) /\ peer[s] # NoSock
    <3>1. r \in {Paired(s, peer[s]), Paired(peer[s], s)} /\ peer[s] # s
      BY <2>4, <1>2, Partners DEF Listed
    <3> QED  BY <2>4, <3>1, Consts DEF None, Paired, Leaving
  <2> QED  BY <2>1, <2>2, <2>3, <2>4
<1>4. \A x \in WsStates : Shut(x) \in WsStates \ {"open"} /\ (Shut(x) = "none" <=> x = "none")
  BY DEF Shut, WsStates
<1> HIDE DEF r, gone
<1>5. \A x \in Sockets : x \in gone <=> x \in {s, peer[s]}
  BY <1>3
<1>6. \A x \in Sockets :
          /\ ws'[x] \in WsStates /\ (ws'[x] = "none" <=> ws[x] = "none")
          /\ x \notin {s, peer[s]} =>
                ws'[x] = ws[x] /\ id'[x] = id[x] /\ peer'[x] = peer[x]
          /\ x \in {s, peer[s]} => id'[x] = NoId /\ peer'[x] = NoSock
  BY <1>1, <1>2, <1>4, <1>5, Types
<1>7. ws'[s] = "open" => w = "open" /\ ~Listed(s)
  BY <1>1, <1>3, <1>4
<1>8. peer[s] # NoSock => ws'[peer[s]] # "open"
  BY <1>1, <1>2, <1>4, <1>5, Types, Partners
<1>9. here' = here \ {s, peer[s]} /\ timer' = timer \ {s, peer[s]}
  BY <1>1, <1>2, <1>5, Types
<1>10. /\ wsrelays' \in RelayTable
       /\ \A v \in Servers, i \in Ids :
          wsrelays'[v][i] = IF v = home[s] /\ i = id[s] THEN None ELSE wsrelays[v][i]
  <2>1. wsrelays \in RelayTable
    BY <1>2 DEF TypeOK, RelayTable
  <2>2. CASE r = None
    BY <2>1, <2>2, <1>1, Consts DEF r
  <2>3. CASE r # None
    <3>1. wsrelays' = [wsrelays EXCEPT ![home[s]][id[s]] = None]
      BY <2>3, <1>1
    <3>2. \A v \in Servers, i \in Ids :
             wsrelays'[v][i] = IF v = home[s] /\ i = id[s] THEN None ELSE wsrelays[v][i]
      BY <2>1, <3>1 DEF RelayTable
    <3>3. wsrelays' \in RelayTable
      <4> DEFINE R == {None} \cup {Waiting(x) : x \in Sockets}
                             \cup {Paired(p, x) : p, x \in Sockets}
      <4>1. None \in R /\ wsrelays \in [Servers -> [Ids -> R]]
        BY <2>1 DEF RelayTable
      <4> HIDE DEF R
      <4>2. wsrelays' \in [Servers -> [Ids -> R]]
        BY <3>1, <4>1
      <4> QED  BY <4>2 DEF RelayTable, R
    <3> QED  BY <3>2, <3>3
  <2> QED  BY <2>2, <2>3
<1>11. IF peer[s] # NoSock /\ log[s] # NoSock
       THEN /\ log' = [log EXCEPT ![s] = NoSock]
            /\ file' = [file EXCEPT ![log[s]] = IF @ = "open" THEN "ending" ELSE "twice"]
       ELSE UNCHANGED <<log, file>>
  BY <1>1, <1>3
<1> QED  BY <1>1, <1>6, <1>7, <1>8, <1>9, <1>10, <1>11 DEF CloseEffect

LEMMA CloseKeeps ==
    ASSUME IInv, NEW s \in Sockets, NEW w \in WsStates, w # "none", ws[s] # "none",
           w = "open" => ws[s] = "open", CloseBothSides(s, w), cut' \subseteq Tunnels
    PROVE  IInv'
<1>1. CloseEffect(s, w)
  BY CloseDoes
<1> USE DEF CloseEffect
<1>2. TypeOK /\ CameInv /\ LookupInv /\ DeniedInv /\ WaitingInv /\ PairedInv /\ PeerInv
  BY DEF IInv
<1>3. PlacedInv /\ TwoHomes /\ StrandedInv /\ SaidInv /\ TunnelInv /\ ToldInv /\ FreshInv
  BY DEF IInv
<1>4. RecordedInv /\ OpenInv /\ MeetingUnderWay /\ RecordingEndsOnce
  BY DEF IInv
<1>5. UNCHANGED <<home, origin, url, lookup, denied, wsPeerRelays, peerServers, said, missed,
                  tun, stranded, users>>
  BY <1>1 DEF sockVars, askVars, msgVars, tunVars
<1>6. peer[s] # NoSock =>
          /\ peer[s] \in Sockets \ {s} /\ s \notin denied /\ home[peer[s]] = home[s]
          /\ peer[s] \notin denied => peer[peer[s]] = s /\ id[peer[s]] = id[s]
  BY <1>2, Partners
\* Who is a side of another session, and was not refused its rights, stays so.
<1>7. ASSUME NEW v \in Servers, NEW i \in Ids, ~(v = home[s] /\ i = id[s]),
             NEW p \in Sockets \ denied, NEW q, Side(p, q, v, i)
      PROVE  /\ p \notin {s, peer[s]} /\ id'[p] = id[p] /\ peer'[p] = peer[p]
             /\ p \in here' /\ id[p] = i /\ home[p] = v /\ peer[p] = q /\ ~Tunnelled(p)
  <2>1. p \in here /\ id[p] = i /\ home[p] = v /\ peer[p] = q /\ ~Tunnelled(p)
    BY <1>7 DEF Side
  <2>2. p \notin {s, peer[s]}
    BY <1>6, <1>7, <2>1, Consts
  <2> QED  BY <1>1, <2>1, <2>2
<1>8. ASSUME NEW x \in Sockets, Listed(x), home[x] = home[s], id[x] = id[s]
      PROVE  x \in {s, peer[s]}
  <2>1. Listed(s) /\ wsrelays[home[s]][id[s]] # None
    <3>1. wsrelays[home[s]][id[s]] # None
      BY <1>2, <1>8, Consts DEF Listed, None
    <3> QED  BY <1>3, <1>8, <3>1 DEF PlacedInv, Listed
  <2>2. CASE peer[s] # NoSock
    BY <2>2, <1>2, <1>8, Partners DEF Listed
  <2>3. CASE peer[s] = NoSock
    <3>1. wsrelays[home[s]][id[s]] = Waiting(s)
      BY <2>1, <2>3, <1>2, ListedWhere
    <3> QED  BY <3>1, <1>8, Consts DEF Listed, Waiting
  <2> QED  BY <2>2, <2>3
<1>t. TypeOK'
  <2>1. ws' \in [Sockets -> WsStates] /\ id' \in [Sockets -> Ids \cup {NoId}]
        /\ peer' \in [Sockets -> Sockets \cup {NoSock}]
    <3>1. /\ ws' = [x \in Sockets |-> ws'[x]] /\ id' = [x \in Sockets |-> id'[x]]
          /\ peer' = [x \in Sockets |-> peer'[x]]
      BY DEF CloseBothSides
    <3>2. \A x \in Sockets : id'[x] \in Ids \cup {NoId} /\ peer'[x] \in Sockets \cup {NoSock}
      BY <1>1, <1>2, Types
    <3> QED  BY <1>1, <3>1, <3>2
  <2>3. log' \in [Sockets -> Sockets \cup {NoSock}] /\ file' \in [Sockets -> FileStates]
    BY <1>1, <1>2, Types DEF FileStates
  <2>4. here' \subseteq Sockets /\ timer' \subseteq Sockets /\ wsrelays' \in RelayTable
    BY <1>1, <1>2, Types
  <2> QED  BY <1>2, <1>5, <2>1, <2>3, <2>4 DEF TypeOK, RelayTable
<1>a. CameInv' /\ LookupInv'
  <2>1. CameInv'
    <3>1. \A x \in here' \cup lookup' \cup timer' : x \in here \cup lookup \cup timer
      BY <1>1, <1>5
    <3>2. \A i \in Ids : \A x \in users[i] : x \in Sockets
      BY <1>2 DEF TypeOK
    <3>3. \A x \in here' : x \in here /\ id'[x] = id[x]
      BY <1>1, <1>2, Types
    <3>4. \A x \in here' : url'[x] \in {id'[x], NoId}
      BY <1>2, <1>5, <3>3 DEF CameInv
    <3>5. \A x \in Sockets : id'[x] # NoId => x \in users'[id'[x]]
      BY <1>1, <1>2, <1>5 DEF CameInv
    <3>6. \A x \in here' \cup lookup' \cup timer' : ws'[x] # "none"
      BY <1>1, <1>2, <3>1, Types DEF CameInv
    <3>7. \A i \in Ids : \A x \in users'[i] : ws'[x] # "none"
      BY <1>1, <1>2, <1>5, <3>2 DEF CameInv
    <3>8. \A x \in Sockets : ws'[x] # "none" =>
             home'[x] \in Servers /\ origin'[x] \in Ends /\ (x \in Ends => origin'[x] = x)
      BY <1>1, <1>2, <1>5 DEF CameInv
    <3> QED  BY <3>4, <3>5, <3>6, <3>7, <3>8 DEF CameInv
  <2>2. LookupInv'
    BY <1>1, <1>2, <1>5, Types DEF LookupInv
  <2> QED  BY <2>1, <2>2
<1>j. DeniedInv'
  <2> SUFFICES ASSUME NEW x \in denied
               PROVE  /\ x \notin here' \cup lookup /\ id'[x] = NoId /\ peer'[x] = NoSock
                      /\ ws'[x] \in {"closing", "closed"}
    BY <1>5 DEF DeniedInv
  <2>1. /\ x \in Sockets /\ x \notin here \cup lookup /\ id[x] = NoId /\ peer[x] = NoSock
        /\ ws[x] \in {"closing", "closed"}
    BY <1>2, <1>3, Types DEF DeniedInv
  <2>2. x = s => ws'[x] # "open"
    BY <1>1, <2>1
  <2>3. x # s => ws'[x] # "open"
    BY <1>1, <2>1, Consts
  <2> QED  BY <1>1, <2>1, <2>2, <2>3 DEF WsStates
<1>b. WaitingInv'
  <2> SUFFICES ASSUME NEW v \in Servers, NEW i \in Ids, wsrelays'[v][i].state = 1
               PROVE  LET p == wsrelays[v][i].peer1 IN
                      /\ wsrelays'[v][i] = wsrelays[v][i] /\ p \in users[i] \ lookup
                      /\ home[p] = v /\ peer'[p] = NoSock
                      /\ p \in here' => id'[p] = i /\ ~Tunnelled(p)
                      /\ id'[p] \in {i, NoId}
                      /\ id'[p] = i \/ p \in denied \/ \E z \in users[i] \ {p} : home[z] = v
    BY <1>5 DEF WaitingInv, Tunnelled
  <2> DEFINE p == wsrelays[v][i].peer1
  <2>1. ~(v = home[s] /\ i = id[s]) /\ wsrelays'[v][i] = wsrelays[v][i]
    BY <1>1 DEF None
  <2>2. /\ p \in users[i] \ lookup /\ home[p] = v /\ peer[p] = NoSock
        /\ p \in here => id[p] = i /\ ~Tunnelled(p)
        /\ id[p] \in {i, NoId}
        /\ id[p] = i \/ p \in denied \/ \E z \in users[i] \ {p} : home[z] = v
    BY <1>2, <2>1 DEF WaitingInv
  <2>3. p \in Sockets
    BY <1>2, <2>1, Entries
  <2> HIDE DEF p
  <2>4. p # s => id'[p] = id[p] \/ p \in denied
    BY <1>1, <1>6, <2>2, <2>3, Consts
  <2>5. p = s => id[p] # i
    BY <2>1, <2>2
  <2>6. /\ peer'[p] = NoSock /\ id'[p] \in {i, NoId}
        /\ p \in here' => p # s /\ id'[p] = id[p] /\ p \in here
    BY <1>1, <2>2, <2>3
  <2> QED  BY <1>1, <2>1, <2>2, <2>4, <2>5, <2>6 DEF p
<1>c. PairedInv'
  <2> SUFFICES ASSUME NEW v \in Servers, NEW i \in Ids, NEW p, NEW q,
                      wsrelays'[v][i].state = 2,
                      p = wsrelays'[v][i].peer1, q = wsrelays'[v][i].peer2
               PROVE  p # q /\ Side(p, q, v, i)' /\ Side(q, p, v, i)'
    BY DEF PairedInv, Side, Tunnelled
  <2>1. ~(v = home[s] /\ i = id[s]) /\ wsrelays'[v][i] = wsrelays[v][i]
    BY <1>1 DEF None
  <2>2. p # q /\ Side(p, q, v, i) /\ Side(q, p, v, i) /\ p \in Sockets /\ q \in Sockets
    BY <1>2, <2>1, Entries DEF PairedInv
  <2>3. ASSUME NEW y \in Sockets, NEW x, Side(y, x, v, i)  PROVE Side(y, x, v, i)'
    <3>1. y \notin denied => y \in here' /\ id'[y] = i /\ peer'[y] = x /\ ~Tunnelled(y)
      BY <2>1, <2>3, <1>7
    <3> QED  BY <1>5, <2>3, <3>1 DEF Side, Tunnelled
  <2> QED  BY <2>2, <2>3
<1>d. PeerInv'
  <2> SUFFICES ASSUME NEW x \in Sockets, peer'[x] # NoSock
               PROVE  /\ id'[x] # NoId
                      /\ wsrelays'[home[x]][id'[x]] \in {Paired(x, peer'[x]), Paired(peer'[x], x)}
    <3>1. ASSUME NEW x \in Sockets, NEW y \in Sockets, peer'[x] # NoSock, peer'[y] = peer'[x]
          PROVE  y = x
      BY <1>1, <1>2, <3>1 DEF PeerInv
    <3> QED  BY <1>5, <3>1 DEF PeerInv
  <2>1. x \notin {s, peer[s]} /\ peer'[x] = peer[x] /\ id'[x] = id[x]
    BY <1>1
  <2>2. /\ id[x] \in Ids /\ home[x] \in Servers
        /\ wsrelays[home[x]][id[x]] \in {Paired(x, peer[x]), Paired(peer[x], x)}
        /\ Listed(x)
    BY <1>2, <2>1, Partners, Consts DEF Listed
  <2>3. ~(home[x] = home[s] /\ id[x] = id[s])
    BY <2>1, <2>2, <1>8
  <2> QED  BY <1>1, <2>1, <2>2, <2>3, Consts
<1>e. PlacedInv' /\ OpenInv'
  <2>1. ASSUME NEW x \in Sockets, Listed(x), x \notin {s, peer[s]}
        PROVE  Listed(x)'
    <3>1. id[x] \in Ids /\ home[x] \in Servers
      BY <2>1, <1>2, ListedWhere
    <3>2. ~(home[x] = home[s] /\ id[x] = id[s])
      BY <2>1, <1>8
    <3> QED  BY <1>1, <1>5, <2>1, <3>1, <3>2 DEF Listed
  <2>2. ASSUME NEW x \in Sockets, id[x] # NoId, wsrelays[home[x]][id[x]] = None
        PROVE  wsrelays'[home[x]][id[x]] = None
    <3>1. id[x] \in Ids /\ home[x] \in Servers
      BY <2>2, <1>2, Types, Consts DEF CameInv
    <3> QED  BY <1>1, <2>2, <3>1
  <2>3. PlacedInv'
    BY <1>1, <1>3, <1>5, <2>1, <2>2 DEF PlacedInv, Tunnelled
  <2>4. OpenInv'
    <3> SUFFICES ASSUME NEW x \in Sockets, ws'[x] = "open"
                 PROVE  x \in lookup \cup stranded \/ Listed(x)' \/ Tunnelled(x)
      BY <1>5 DEF OpenInv, Tunnelled
    <3>1. CASE x = s
      BY <3>1, <1>1, <1>4 DEF OpenInv
    <3>2. CASE x # s
      <4>1. x # peer[s] /\ ws[x] = "open"
        BY <3>2, <1>1, Consts
      <4> QED  BY <3>2, <4>1, <1>4, <2>1 DEF OpenInv
    <3> QED  BY <3>1, <3>2
  <2> QED  BY <2>3, <2>4
<1>f. TwoHomes' /\ SaidInv'
  BY <1>3, <1>5 DEF TwoHomes, SaidInv, Held
<1>k. StrandedInv'
  BY <1>1, <1>3, <1>5, Consts DEF StrandedInv, Held
<1>g. TunnelInv'
  BY <1>1, <1>3, <1>5, Consts DEF TunnelInv, Held
<1>h. ToldInv' /\ MeetingUnderWay'
  <2>1. \A v \in Servers, i \in Ids :
           wsrelays'[v][i].state = 1 => wsrelays'[v][i] = wsrelays[v][i]
    BY <1>1 DEF None
  <2>2. \A x \in here' : x \in here
    BY <1>1
  <2> QED  BY <1>3, <1>4, <1>5, <2>1, <2>2 DEF ToldInv, MeetingUnderWay
<1>i. FreshInv' /\ RecordedInv' /\ RecordingEndsOnce'
  <2>1. ASSUME peer[s] # NoSock, log[s] # NoSock
        PROVE  log[s] \in {s, peer[s]} /\ file[log[s]] = "open"
    BY <2>1, <1>2, <1>4, Partners DEF RecordedInv
  <2>2. /\ log \in [Sockets -> Sockets \cup {NoSock}] /\ file \in [Sockets -> FileStates]
        /\ peer \in [Sockets -> Sockets \cup {NoSock}]
    BY <1>2, Types
  <2>3. /\ \A x \in Sockets : log'[x] # NoSock => log[x] # NoSock
        /\ \A x \in Sockets : file'[x] # "none" => file[x] # "none"
        /\ \A x \in Sockets \ {s} : log'[x] = log[x]
        /\ \A x \in Sockets \ {s, peer[s]} : file'[x] = file[x]
        /\ \A x \in Sockets : file'[x] = "open" =>
              file[x] = "open" /\ (x # log[s] \/ peer[s] = NoSock)
        /\ \A x \in Sockets : file'[x] # "twice"
    <3>1. CASE peer[s] # NoSock /\ log[s] # NoSock
      <4>1. /\ log' = [log EXCEPT ![s] = NoSock]
            /\ file' = [file EXCEPT ![log[s]] = "ending"]
            /\ log[s] \in Sockets \cap {s, peer[s]} /\ file[log[s]] = "open"
        BY <3>1, <1>1, <2>1, <2>2
      <4>2. \A x \in Sockets : file[x] # "twice"
        BY <1>4 DEF RecordingEndsOnce
      <4> QED  BY <3>1, <4>1, <4>2, <2>2
    <3>2. CASE ~(peer[s] # NoSock /\ log[s] # NoSock)
      <4>1. log' = log /\ file' = file
        BY <3>2, <1>1
      <4>2. \A x \in Sockets : file[x] = "open" => x # log[s] \/ peer[s] = NoSock
        BY <3>2, Consts
      <4> QED  BY <4>1, <4>2, <1>4 DEF RecordingEndsOnce
    <3> QED  BY <3>1, <3>2
  <2>4. FreshInv'
    BY <1>1, <1>3, <1>5, <2>3 DEF FreshInv
  <2>5. RecordedInv'
    <3> SUFFICES ASSUME NEW x \in Sockets, peer'[x] # NoSock
                 PROVE  /\ log'[x] # NoSock =>
                              /\ log'[x] = wsrelays'[home[x]][id'[x]].peer2
                              /\ file'[log'[x]] = "open"
                        /\ \A y \in {x, peer'[x]} :
                              file'[y] # "none" => wsrelays'[home[x]][id'[x]].peer2 = y
      BY <1>5 DEF RecordedInv
    <3>1. x \notin {s, peer[s]} /\ peer'[x] = peer[x] /\ id'[x] = id[x] /\ peer[x] # NoSock
      BY <1>1
    <3>2. /\ peer[x] \in Sockets /\ id[x] \in Ids /\ home[x] \in Servers /\ Listed(x)
          /\ wsrelays[home[x]][id[x]].peer2 \in {x, peer[x]}
      BY <3>1, <1>2, Partners, Consts DEF Listed
    <3>3. wsrelays'[home[x]][id[x]] = wsrelays[home[x]][id[x]]
      BY <1>1, <3>1, <3>2, <1>8
    <3>4. log[x] # NoSock => log[x] = wsrelays[home[x]][id[x]].peer2 /\ file[log[x]] = "open"
      BY <1>4, <3>1 DEF RecordedInv
    <3>5. log[x] # NoSock => log[x] # log[s] \/ peer[s] = NoSock
      <4>1. peer[x] = s => peer[s] = NoSock \/ peer[s] = x
        BY <1>2, <1>6, <3>1, Partners
      <4>2. peer[x] = peer[s] => x = s
        BY <1>2, <3>1 DEF PeerInv
      <4> QED  BY <2>1, <3>1, <3>2, <3>4, <4>1, <4>2
    <3>6. log[x] # NoSock => file'[log[x]] = "open"
      <4> SUFFICES ASSUME log[x] # NoSock  PROVE file'[log[x]] = "open"
        OBVIOUS
      <4>1. log[x] \in Sockets /\ file[log[x]] = "open"
        BY <2>2, <3>4
      <4> QED  BY <1>1, <2>2, <3>5, <4>1
    <3>7. log'[x] = log[x]
      BY <2>3, <3>1
    <3>8. \A y \in {x, peer[x]} : file'[y] # "none" => wsrelays[home[x]][id[x]].peer2 = y
      BY <1>4, <2>3, <3>1, <3>2 DEF RecordedInv
    <3> QED  BY <3>1, <3>3, <3>4, <3>6, <3>7, <3>8
  <2>6. RecordingEndsOnce'
    <3> SUFFICES ASSUME NEW x \in Sockets, file'[x] = "open"
                 PROVE  \E i \in Ids :
                           /\ wsrelays'[home[x]][i].state = 2 /\ wsrelays'[home[x]][i].peer2 = x
                           /\ \A y \in {wsrelays'[home[x]][i].peer1, x} \ denied :
                                 log'[y] = x /\ id'[y] = i
      BY <1>5, <2>3 DEF RecordingEndsOnce
    <3>1. file[x] = "open" /\ (x # log[s] \/ peer[s] = NoSock)
      BY <2>3
    <3>2. PICK i \in Ids : /\ wsrelays[home[x]][i].state = 2 /\ wsrelays[home[x]][i].peer2 = x
                           /\ \A y \in {wsrelays[home[x]][i].peer1, x} \ denied :
                                 log[y] = x /\ id[y] = i
      BY <1>4, <3>1 DEF RecordingEndsOnce
    <3>3. home[x] \in Servers
      BY <1>2, <1>3, <3>1 DEF FreshInv, CameInv
    <3> DEFINE q == wsrelays[home[x]][i].peer1
    <3>4. Side(x, q, home[x], i) /\ Side(q, x, home[x], i) /\ q \in Sockets /\ q # x
      BY <1>2, <3>2, <3>3, Entries DEF PairedInv
    <3>5. ~(home[x] = home[s] /\ i = id[s])
      <4> SUFFICES ASSUME home[x] = home[s], i = id[s]  PROVE FALSE
        OBVIOUS
      <4>1. Listed(s) /\ wsrelays[home[s]][id[s]].state = 2
        BY <1>3, <3>2, Consts DEF PlacedInv, None
      <4>2. s \in {q, x}
        BY <4>1, <3>2 DEF Listed
      <4>3. s \notin denied
        BY <1>2, <3>2, Consts DEF DeniedInv
      <4>4. log[s] = x /\ peer[s] \in {q, x}
        BY <3>2, <3>4, <4>2, <4>3 DEF Side
      <4> QED  BY <3>1, <3>4, <4>4, Consts
    <3>6. wsrelays'[home[x]][i] = wsrelays[home[x]][i]
      BY <1>1, <3>3, <3>5
    <3> HIDE DEF q
    <3>7. ASSUME NEW y \in {q, x} \ denied  PROVE log'[y] = x /\ id'[y] = i
      <4>1. log[y] = x /\ id[y] = i /\ y \in Sockets
        BY <3>2, <3>4 DEF q
      <4>2. y \notin {s, peer[s]} /\ id'[y] = id[y]
        BY <1>7, <3>3, <3>4, <3>5, <4>1
      <4> QED  BY <2>3, <4>1, <4>2
    <3> QED  BY <3>2, <3>6, <3>7 DEF q
  <2> QED  BY <2>4, <2>5, <2>6
<1> QED  BY <1>t, <1>a, <1>j, <1>b, <1>c, <1>d, <1>e, <1>f, <1>g, <1>h, <1>i, <1>k DEF IInv

-----------------------------------------------------------------------------
\* Connection s arrives with id i at the relay of server v, new or from the
\* database; h says whether it has its web socket, w the state of that.
Arrival(s, o, v, i, w, h) ==
    /\ s \in Sockets /\ v \in Servers /\ i \in Ids /\ o \in Ends
    /\ w \in WsStates \ {"none"}
    /\ \/ ws[s] = "none" /\ w = "open" /\ h
       \/ s \in lookup /\ home[s] = v /\ w = ws[s] /\ h = (s \in here)
    /\ home' \in [Sockets -> Servers \cup {0}]
    /\ origin' \in [Sockets -> Ends \cup {NoSock}]
    /\ url' \in [Sockets -> Ids \cup {NoId}]
    /\ \A x \in Sockets \ {s} :
          home'[x] = home[x] /\ origin'[x] = origin[x] /\ url'[x] = url[x]
    /\ home'[s] = v /\ origin'[s] = o /\ (s \in Ends => o = s)
    /\ lookup' = lookup \ {s} /\ denied' = denied
    /\ users' = [users EXCEPT ![i] = @ \cup {s}]

\* The id is s's to use: on its own server it is used by who is listed only,
\* and no server with a larger id holds it unless v knows or is to be told.
Entitled(s, v, i, h) ==
    /\ \A x \in users[i] \ {s} : home[x] = v /\ id[x] = i => Listed(x)
    /\ \A x \in lookup \ {s} : id[x] = i => home[x] # v
    /\ \A w \in Servers : v < w /\ wsrelays[w][i].state = 1 =>
          \/ [from |-> w, to |-> v, id |-> i] \in said \cup missed
          \/ wsPeerRelays[v][i] = w \/ wsrelays[w][i].peer1 \in denied
    /\ h \/ wsPeerRelays[v][i] > v => url'[s] \in {i, NoId}
    /\ s \in Tunnels =>
          /\ ws[s] = "none" /\ tun[s] # NoTunnel /\ tun[s].to = v
          /\ url[tun[s].from] = i /\ wsPeerRelays[v][i] <= v
    /\ TwoHomes'

\* Nothing is listed, joined, tunnelled or recorded of what only comes now, or
\* waits for the database.
LEMMA Apart ==
    ASSUME IInv, NEW s \in Sockets, ws[s] = "none" \/ s \in lookup
    PROVE  /\ peer[s] = NoSock /\ log[s] = NoSock /\ file[s] = "none" /\ s \notin denied
           /\ \A x \in Sockets : peer[x] # s
           /\ \A t \in Tunnels : tun[t] # NoTunnel => tun[t].from # s
           /\ ~Tunnelled(s)
           /\ \A v \in Servers, i \in Ids :
                 s \notin {wsrelays[v][i].peer1, wsrelays[v][i].peer2}
           /\ ~Listed(s)
<1>1. /\ TypeOK /\ CameInv /\ DeniedInv /\ WaitingInv /\ PairedInv /\ PeerInv /\ TunnelInv /\ FreshInv
  BY DEF IInv
<1>2. log[s] = NoSock /\ file[s] = "none" /\ s \notin denied
  BY <1>1 DEF FreshInv, DeniedInv
<1>3. \A x \in Sockets : peer[x] # NoSock =>
         ws[x] # "none" /\ x \notin lookup /\ ws[peer[x]] # "none" /\ peer[x] \notin lookup
  <2> SUFFICES ASSUME NEW x \in Sockets, peer[x] # NoSock
               PROVE  /\ ws[x] # "none" /\ x \notin lookup
                      /\ ws[peer[x]] # "none" /\ peer[x] \notin lookup
    OBVIOUS
  <2>1. x \in here \ lookup /\ peer[x] \notin lookup /\ ws[peer[x]] # "none"
    BY <1>1, Partners
  <2> QED  BY <2>1, <1>1 DEF CameInv
<1>4. peer[s] = NoSock /\ \A x \in Sockets : peer[x] # s
  BY <1>3, Consts
<1>5. \A t \in Tunnels : tun[t] # NoTunnel => tun[t].from # s
  BY <1>1 DEF TunnelInv
<1>6. ~Tunnelled(s)
  BY <1>5, Consts DEF Tunnelled, NoTunnel
<1>7. ASSUME NEW v \in Servers, NEW i \in Ids
      PROVE  s \notin {wsrelays[v][i].peer1, wsrelays[v][i].peer2}
  <2>1. CASE wsrelays[v][i].state = 0
    BY <2>1, <1>1, Entries, Consts DEF None
  <2>2. CASE wsrelays[v][i].state = 1
    <3>1. wsrelays[v][i].peer1 # s
      BY <2>2, <1>1 DEF WaitingInv, CameInv
    <3>2. wsrelays[v][i] = Waiting(wsrelays[v][i].peer1)
      BY <2>2, <1>1, Entries
    <3>3. wsrelays[v][i].peer2 = NoSock
      <4> DEFINE p == wsrelays[v][i].peer1
      <4>1. Waiting(p).peer2 = NoSock
        BY DEF Waiting
      <4> QED  BY <3>2, <4>1
    <3> QED  BY <3>1, <3>3, Consts
  <2>3. CASE wsrelays[v][i].state = 2
    BY <2>3, <1>1 DEF PairedInv, Side, CameInv
  <2> QED  BY <1>1, <2>1, <2>2, <2>3, Entries
<1>8. ~Listed(s)
  BY <1>1, <1>7, Types, Consts DEF Listed, CameInv
<1> QED  BY <1>2, <1>4, <1>5, <1>6, <1>7, <1>8

\* What an arrival writes of the connection has the right type.
LEMMA ArrivalTypes ==
    ASSUME TypeOK, NEW s, NEW o, NEW v, NEW i, NEW w, NEW h, Arrival(s, o, v, i, w, h)
    PROVE  /\ home' \in [Sockets -> Servers \cup {0}]
           /\ origin' \in [Sockets -> Ends \cup {NoSock}]
           /\ url' \in [Sockets -> Ids \cup {NoId}]
           /\ lookup' \subseteq Routed /\ denied' \subseteq Sockets
           /\ users' \in [Ids -> SUBSET Sockets]
<1>9. denied \subseteq Sockets
  BY DEF TypeOK
<1>1. users \in [Ids -> SUBSET Sockets] /\ lookup \subseteq Routed
  BY DEF TypeOK
<1>2. /\ s \in Sockets /\ users' = [users EXCEPT ![i] = @ \cup {s}] /\ lookup' = lookup \ {s}
      /\ denied' = denied
  BY DEF Arrival
<1>3. users' \in [Ids -> SUBSET Sockets]
  BY <1>1, <1>2
<1> QED  BY <1>1, <1>2, <1>3, <1>9 DEF Arrival

\* Somebody was held or joined there after the step (u and j are not primed).
HeldThen(u, j) == \E y \in (users'[j] \cap Ends) \ lookup' : home'[y] = u

\* What was held stays held.
LEMMA HeldStays ==
    ASSUME TypeOK, CameInv, NEW s, NEW o, NEW v, NEW i, NEW w, NEW h, Arrival(s, o, v, i, w, h),
           NEW u \in Servers, NEW j \in Ids, Held(u, j)
    PROVE  HeldThen(u, j)
<1>1. PICK y \in (users[j] \cap Ends) \ lookup : home[y] = u
  BY DEF Held
<1>2. users \in [Ids -> SUBSET Sockets]
  BY DEF TypeOK
<1>3. ws[y] # "none" /\ y \in Sockets
  BY <1>1, <1>2, Consts DEF CameInv
<1>4. y # s
  BY <1>1, <1>3 DEF Arrival
<1>5. y \in (users'[j] \cap Ends) \ lookup' /\ home'[y] = u
  BY <1>1, <1>2, <1>3, <1>4 DEF Arrival
<1> QED  BY <1>5 DEF HeldThen

\* What performRelay does to the connections in every case.
ArrivalEffect(s, i, h) ==
    /\ ws' \in [Sockets -> WsStates] /\ ws'[s] # "none"
    /\ \A x \in Sockets \ {s} : ws'[x] = "none" <=> ws[x] = "none"
    /\ id' \in [Sockets -> Ids \cup {NoId}] /\ id'[s] \in {i, NoId}
    /\ \A x \in Sockets \ {s} : id'[x] \in {id[x], NoId}
    /\ here' \subseteq here \cup {s} /\ (s \in here' => id'[s] = i /\ h)
    /\ \A x \in here' \ {s} : id'[x] = id[x]
    /\ timer' \subseteq timer \cup {s}

LEMMA ArrivalKeeps ==
    ASSUME IInv, NEW s, NEW o, NEW v, NEW i, NEW w, NEW h, Arrival(s, o, v, i, w, h),
           Entitled(s, v, i, h), ArrivalEffect(s, i, h)
    PROVE  CameInv' /\ LookupInv' /\ TwoHomes'
<1>1. TypeOK /\ CameInv /\ LookupInv /\ users \in [Ids -> SUBSET Sockets]
  <2>1. TypeOK
    BY DEF IInv
  <2>2. users \in [Ids -> SUBSET Sockets]
    BY <2>1 DEF TypeOK
  <2> QED  BY <2>2 DEF IInv
<1>2. /\ s \in Sockets /\ v \in Servers /\ i \in Ids /\ o \in Ends
      /\ home'[s] = v /\ origin'[s] = o /\ (s \in Ends => o = s)
      /\ lookup' = lookup \ {s}
      /\ \A j \in Ids : users'[j] = IF j = i THEN users[j] \cup {s} ELSE users[j]
      /\ \A x \in Sockets \ {s} :
            home'[x] = home[x] /\ origin'[x] = origin[x] /\ url'[x] = url[x]
  BY <1>1 DEF Arrival
<1>3. CameInv'
  <2>1. \A x \in Sockets : ws'[x] # "none" =>
           home'[x] \in Servers /\ origin'[x] \in Ends /\ (x \in Ends => origin'[x] = x)
    BY <1>1, <1>2 DEF CameInv, ArrivalEffect
  <2>2. \A x \in here' \cup lookup' \cup timer' : ws'[x] # "none"
    BY <1>1, <1>2, Types DEF CameInv, ArrivalEffect
  <2>3. ASSUME NEW j \in Ids, NEW x \in users'[j]  PROVE ws'[x] # "none"
    <3>1. CASE x = s
      BY <3>1 DEF ArrivalEffect
    <3>2. CASE x # s
      <4>1. x \in users[j] /\ x \in Sockets
        <5>1. CASE j = i
          <6>1. users'[i] = users[i] \cup {s}
            BY <1>2
          <6> QED  BY <5>1, <6>1, <3>2, <1>1, <2>3
        <5>2. CASE j # i
          BY <5>2, <1>1, <1>2, <2>3
        <5> QED  BY <5>1, <5>2
      <4> QED  BY <3>2, <4>1, <1>1 DEF CameInv, ArrivalEffect
    <3> QED  BY <3>1, <3>2
  <2>4. ASSUME NEW x \in Sockets, id'[x] # NoId  PROVE x \in users'[id'[x]]
    <3>1. CASE x = s
      BY <3>1, <2>4, <1>1, <1>2 DEF ArrivalEffect
    <3>2. CASE x # s
      <4>1. id'[x] = id[x] /\ id[x] \in Ids /\ x \in users[id[x]]
        BY <3>2, <2>4, <1>1, Types DEF CameInv, ArrivalEffect
      <4>2. users[id[x]] \subseteq users'[id[x]]
        BY <4>1, <1>2
      <4> QED  BY <4>1, <4>2
    <3> QED  BY <3>1, <3>2
  <2>5. ASSUME NEW x \in here'  PROVE url'[x] \in {id'[x], NoId}
    <3>1. CASE x = s
      BY <2>5, <3>1 DEF ArrivalEffect, Entitled
    <3>2. CASE x # s
      <4>1. x \in here /\ x \in Sockets /\ id'[x] = id[x]
        BY <2>5, <3>2, <1>1, Types DEF ArrivalEffect
      <4> QED  BY <3>2, <4>1, <1>1, <1>2 DEF CameInv
    <3> QED  BY <3>1, <3>2
  <2> QED  BY <2>1, <2>2, <2>3, <2>4, <2>5 DEF CameInv
<1>4. LookupInv'
  <2> SUFFICES ASSUME NEW x \in lookup', id'[x] # NoId
               PROVE  /\ url'[x] = id'[x]
                      /\ \A y \in users'[id'[x]] : home'[y] = home'[x] => y = x
    BY DEF LookupInv
  <2>1. x \in lookup /\ x # s /\ x \in Sockets /\ id'[x] = id[x] /\ id[x] \in Ids
    BY <1>1, <1>2, Types DEF ArrivalEffect
  <2>2. home'[x] = home[x] /\ url'[x] = url[x]
    BY <1>2, <2>1
  <2>3. id[x] = i => home[x] # v
    BY <2>1 DEF Entitled
  <2>4. ASSUME NEW y \in users'[id[x]], home'[y] = home[x]  PROVE y = x
    <3>1. y # s
      <4>1. id[x] # i => s \notin users[id[x]] \/ home[s] = v
        BY <1>1, <2>1 DEF Arrival, CameInv
      <4>2. s \in users[id[x]] /\ home[s] = v => v # home[x]
        BY <1>1, <2>1 DEF LookupInv
      <4> QED  BY <4>1, <4>2, <1>2, <2>1, <2>3, <2>4
    <3>2. y \in users[id[x]] /\ y \in Sockets
      <4>1. users'[id[x]] \subseteq users[id[x]] \cup {s}
        BY <1>2, <2>1
      <4> QED  BY <3>1, <4>1, <1>1, <2>1
    <3> QED  BY <3>1, <3>2, <1>1, <1>2, <2>1, <2>4 DEF LookupInv
  <2> QED  BY <1>1, <2>1, <2>2, <2>4 DEF LookupInv
<1> QED  BY <1>3, <1>4 DEF Entitled

\* The list, and what is known of other servers, if only s is added.
LEMMA OthersKeep ==
    ASSUME IInv, NEW s, NEW o, NEW v, NEW i, NEW w, NEW h, Arrival(s, o, v, i, w, h),
           Entitled(s, v, i, h), ArrivalEffect(s, i, h)
    PROVE  /\ said' = said /\ wsPeerRelays' = wsPeerRelays /\ peerServers' = peerServers
              => SaidInv'
           /\ tun' = tun => TunnelInv'
           /\ said' = said /\ missed' = missed /\ wsPeerRelays' = wsPeerRelays
              /\ (\A u \in Servers, j \in Ids :
                     wsrelays'[u][j].state = 1 => wsrelays'[u][j] = wsrelays[u][j])
              => ToldInv'
<1>1. /\ TypeOK /\ CameInv /\ SaidInv /\ TunnelInv /\ ToldInv
      /\ users \in [Ids -> SUBSET Sockets]
  <2>1. TypeOK
    BY DEF IInv
  <2>2. users \in [Ids -> SUBSET Sockets]
    BY <2>1 DEF TypeOK
  <2> QED  BY <2>2 DEF IInv
<1>2. \A u \in Servers, j \in Ids : Held(u, j) => HeldThen(u, j)
  BY <1>1, HeldStays
<1>3. said' = said /\ wsPeerRelays' = wsPeerRelays /\ peerServers' = peerServers => SaidInv'
  <2>1. /\ \A m \in said : m.from \in Servers /\ m.id \in Ids /\ m.to \in Servers
        /\ \A u \in Servers, j \in Ids : wsPeerRelays[u][j] \in Servers \cup {0}
    BY <1>1 DEF TypeOK, Messages
  <2> SUFFICES ASSUME said' = said, wsPeerRelays' = wsPeerRelays, peerServers' = peerServers
               PROVE  SaidInv'
    OBVIOUS
  <2>2. /\ \A x \in Servers : x \notin peerServers[x]
        /\ \A m \in said : m.from # m.to /\ HeldThen(m.from, m.id) /\ m.from \in peerServers[m.to]
        /\ \A u \in Servers, j \in Ids : wsPeerRelays[u][j] # 0 =>
              wsPeerRelays[u][j] # u /\ HeldThen(wsPeerRelays[u][j], j)
    BY <1>1, <1>2, <2>1 DEF SaidInv
  <2> QED  BY <2>2 DEF SaidInv, Held, HeldThen
<1>4. /\ s \in Sockets /\ v \in Servers /\ i \in Ids
      /\ home'[s] = v
      /\ lookup' = lookup \ {s}
      /\ \A j \in Ids : users'[j] = IF j = i THEN users[j] \cup {s} ELSE users[j]
      /\ \A x \in Sockets \ {s} :
            home'[x] = home[x] /\ url'[x] = url[x] /\ (ws'[x] = "none" <=> ws[x] = "none")
      /\ ws'[s] # "none" /\ \A x \in Sockets \ {s} : id'[x] \in {id[x], NoId}
      /\ s \in Tunnels =>
            ws[s] = "none" /\ tun[s] # NoTunnel /\ tun[s].to = v /\ url[tun[s].from] = i
      /\ \A t \in Tunnels : tun[t] # NoTunnel => tun[t].from # s
  <2>1. /\ s \in Sockets /\ v \in Servers /\ i \in Ids /\ home'[s] = v
        /\ (ws[s] = "none" \/ s \in lookup) /\ lookup' = lookup \ {s}
        /\ users' = [users EXCEPT ![i] = @ \cup {s}]
        /\ \A x \in Sockets \ {s} : home'[x] = home[x] /\ url'[x] = url[x]
    BY DEF Arrival
  <2>2. \A j \in Ids : users'[j] = IF j = i THEN users[j] \cup {s} ELSE users[j]
    BY <1>1, <2>1
  <2>3. \A t \in Tunnels : tun[t] # NoTunnel => tun[t].from # s
    BY <2>1, Apart
  <2>4. /\ \A x \in Sockets \ {s} : (ws'[x] = "none" <=> ws[x] = "none")
                                    /\ id'[x] \in {id[x], NoId}
        /\ ws'[s] # "none"
    BY DEF ArrivalEffect
  <2>5. s \in Tunnels =>
            ws[s] = "none" /\ tun[s] # NoTunnel /\ tun[s].to = v /\ url[tun[s].from] = i
    BY DEF Entitled
  <2> QED  BY <2>1, <2>2, <2>3, <2>4, <2>5
<1>5. tun' = tun => TunnelInv'
  <2> HAVE tun' = tun
  <2>1. ASSUME NEW t \in Tunnels, tun[t] # NoTunnel
        PROVE  /\ tun[t].from \in Ends \ lookup' /\ ws'[tun[t].from] # "none"
               /\ home'[tun[t].from] < tun[t].to
               /\ ws'[t] # "none" => home'[t] = tun[t].to
               /\ url'[tun[t].from] # NoId =>
                     /\ tun[t].from \in users'[url'[tun[t].from]]
                     /\ HeldThen(tun[t].to, url'[tun[t].from])
               /\ id'[tun[t].from] # NoId => HeldThen(tun[t].to, id'[tun[t].from])
    <3>1. /\ tun[t].from \in Ends \ lookup /\ ws[tun[t].from] # "none"
          /\ home[tun[t].from] < tun[t].to
          /\ ws[t] # "none" => home[t] = tun[t].to
          /\ url[tun[t].from] # NoId =>
                /\ tun[t].from \in users[url[tun[t].from]]
                /\ Held(tun[t].to, url[tun[t].from])
          /\ id[tun[t].from] # NoId => Held(tun[t].to, id[tun[t].from])
      BY <1>1, <2>1 DEF TunnelInv
    <3>2. /\ tun[t].to \in Servers /\ tun[t].from \in Sockets \ {s} /\ t \in Sockets
          /\ url[tun[t].from] \in Ids \cup {NoId} /\ id[tun[t].from] \in Ids \cup {NoId}
      BY <1>1, <1>4, <2>1, Consts DEF TypeOK
    <3>3. url'[tun[t].from] = url[tun[t].from] /\ home'[tun[t].from] = home[tun[t].from]
      BY <1>4, <3>2
    <3>4. ws'[t] # "none" => home'[t] = tun[t].to
      BY <1>4, <3>1, <3>2
    <3>5. url[tun[t].from] # NoId => HeldThen(tun[t].to, url[tun[t].from])
      BY <1>2, <3>1, <3>2
    <3>6. id[tun[t].from] # NoId => HeldThen(tun[t].to, id[tun[t].from])
      BY <1>2, <3>1, <3>2
    <3> QED  BY <1>4, <3>1, <3>2, <3>3, <3>4, <3>5, <3>6
  <2>2. \A t \in Tunnels : ws'[t] # "none" => tun[t] # NoTunnel
    BY <1>1, <1>4, Consts DEF TunnelInv
  <2>3. ASSUME NEW j \in Ids, NEW t \in users'[j] \cap Tunnels
        PROVE  tun[t] # NoTunnel /\ url'[tun[t].from] = j
    <3>1. tun[t] # NoTunnel /\ url[tun[t].from] = j
      <4>1. CASE t = s
        BY <4>1, <1>1, <1>4, <2>3 DEF CameInv
      <4>2. CASE t # s
        <5>1. t \in users[j] \cap Tunnels
          BY <4>2, <1>4, <2>3
        <5> QED  BY <5>1, <1>1 DEF TunnelInv
      <4> QED  BY <4>1, <4>2
    <3>2. tun[t].from \in Sockets \ {s}
      BY <1>1, <1>4, <3>1 DEF TypeOK
    <3> QED  BY <1>4, <3>1, <3>2
  <2> QED  BY <2>1, <2>2, <2>3 DEF TunnelInv, Held, HeldThen
<1>6. said' = said /\ missed' = missed /\ wsPeerRelays' = wsPeerRelays
      /\ (\A u \in Servers, j \in Ids :
             wsrelays'[u][j].state = 1 => wsrelays'[u][j] = wsrelays[u][j])
      => ToldInv'
  <2> HAVE said' = said /\ missed' = missed /\ wsPeerRelays' = wsPeerRelays
      /\ (\A u \in Servers, j \in Ids :
             wsrelays'[u][j].state = 1 => wsrelays'[u][j] = wsrelays[u][j])
  <2>1. ASSUME NEW j \in Ids, NEW x \in users[j], NEW u \in Servers,
               home[x] # u \/ x \notin lookup
        PROVE  x \in users'[j] /\ (home'[x] # u \/ x \notin lookup')
    BY <1>1, <1>4, <2>1
  <2>2. denied' = denied
    BY DEF Arrival
  <2> QED  BY <1>1, <2>1, <2>2 DEF ToldInv
<1> QED  BY <1>3, <1>5, <1>6

\* Of whose peer had gone, if s is added at most.
LEMMA StrandedKeep ==
    ASSUME IInv, NEW s, NEW o, NEW v, NEW i, NEW w, NEW h, Arrival(s, o, v, i, w, h),
           Entitled(s, v, i, h), ArrivalEffect(s, i, h), stranded' \subseteq stranded \cup {s},
           s \in stranded' => s \in Ends /\ \E u \in Servers : v < u /\ Held(u, i)
    PROVE  StrandedInv'
<1>1. TypeOK /\ CameInv /\ StrandedInv
  BY DEF IInv
<1>2. \A u \in Servers, j \in Ids : Held(u, j) => HeldThen(u, j)
  BY <1>1, HeldStays
<1>3. /\ s \in Sockets /\ i \in Ids /\ i # NoId /\ home'[s] = v /\ lookup' = lookup \ {s}
      /\ (ws[s] = "none" \/ s \in lookup)
      /\ \A x \in Sockets \ {s} : home'[x] = home[x]
  BY Consts DEF Arrival
<1> SUFFICES ASSUME NEW x \in stranded'
             PROVE  /\ x \in Ends \ lookup' /\ ws'[x] # "none"
                    /\ id'[x] # NoId => \E u \in Servers : home'[x] < u /\ HeldThen(u, id'[x])
  BY DEF StrandedInv, Held, HeldThen
<1>4. CASE x = s
  BY <1>2, <1>3, <1>4 DEF ArrivalEffect
<1>5. CASE x # s
  <2>1. /\ x \in Ends \ lookup /\ ws[x] # "none" /\ x \in Sockets
        /\ id[x] # NoId => \E u \in Servers : home[x] < u /\ Held(u, id[x])
    BY <1>1, <1>5, Consts DEF StrandedInv
  <2>2. id'[x] \in {id[x], NoId} /\ id[x] \in Ids \cup {NoId} /\ ws'[x] # "none"
    BY <1>1, <1>5, <2>1, Types DEF ArrivalEffect
  <2> QED  BY <1>2, <1>3, <1>5, <2>1, <2>2
<1> QED  BY <1>4, <1>5

\* The sides of the sessions that are recorded are not touched.
LEMMA EndsStay ==
    ASSUME IInv, denied \subseteq denied',
           \A x \in Sockets : /\ file'[x] # "twice"
                              /\ file'[x] = "open" => file[x] = "open" /\ home'[x] = home[x],
           \A x \in Sockets \ denied' : peer[x] # NoSock => id'[x] = id[x] /\ log'[x] = log[x],
           \A v \in Servers, i \in Ids :
              wsrelays[v][i].state = 2 => wsrelays'[v][i] = wsrelays[v][i]
    PROVE  RecordingEndsOnce'
<1>1. TypeOK /\ CameInv /\ PairedInv /\ FreshInv /\ RecordingEndsOnce
  BY DEF IInv
<1> SUFFICES ASSUME NEW x \in Sockets, file[x] = "open", home'[x] = home[x]
             PROVE  \E i \in Ids :
                       /\ wsrelays'[home[x]][i].state = 2 /\ wsrelays'[home[x]][i].peer2 = x
                       /\ \A y \in {wsrelays'[home[x]][i].peer1, x} \ denied' :
                             log'[y] = x /\ id'[y] = i
  BY DEF RecordingEndsOnce
<1>2. PICK i \in Ids : /\ wsrelays[home[x]][i].state = 2 /\ wsrelays[home[x]][i].peer2 = x
                       /\ \A y \in {wsrelays[home[x]][i].peer1, x} \ denied :
                             log[y] = x /\ id[y] = i
  BY <1>1 DEF RecordingEndsOnce
<1>3. home[x] \in Servers
  BY <1>1 DEF FreshInv, CameInv
<1> DEFINE q == wsrelays[home[x]][i].peer1
<1>4. Side(x, q, home[x], i) /\ Side(q, x, home[x], i) /\ q \in Sockets
  BY <1>1, <1>2, <1>3, Entries DEF PairedInv
<1>5. wsrelays'[home[x]][i] = wsrelays[home[x]][i]
  BY <1>2, <1>3
<1> HIDE DEF q
<1>6. \A y \in {q, x} \ denied' : log'[y] = x /\ id'[y] = i
  BY <1>2, <1>4, Consts DEF Side, q
<1> QED  BY <1>2, <1>5, <1>6 DEF q

\* s is turned away: every list stays as it is.
LEMMA RefuseKeeps ==
    ASSUME IInv, NEW s, NEW o, NEW v, NEW i, NEW w, NEW h, Arrival(s, o, v, i, w, h),
           Entitled(s, v, i, h), TurnedAway(s, w)
    PROVE  IInv'
<1>1. /\ TypeOK /\ CameInv /\ DeniedInv /\ WaitingInv /\ PairedInv /\ PeerInv /\ PlacedInv /\ FreshInv
      /\ RecordedInv /\ OpenInv /\ MeetingUnderWay /\ RecordingEndsOnce
      /\ users \in [Ids -> SUBSET Sockets]
  <2>1. TypeOK
    BY DEF IInv
  <2>2. users \in [Ids -> SUBSET Sockets]
    BY <2>1 DEF TypeOK
  <2> QED  BY <2>2 DEF IInv
<1>2. /\ s \in Sockets /\ v \in Servers /\ i \in Ids /\ w \in WsStates \ {"none"}
      /\ home'[s] = v
      /\ lookup' = lookup \ {s} /\ denied' = denied
      /\ \A j \in Ids : users'[j] = IF j = i THEN users[j] \cup {s} ELSE users[j]
      /\ \A x \in Sockets \ {s} : home'[x] = home[x]
  BY <1>1 DEF Arrival
<1>3. /\ ws' = [ws EXCEPT ![s] = Shut(w)] /\ id' = [id EXCEPT ![s] = NoId]
      /\ here' = here \ {s}
      /\ UNCHANGED <<peer, timer, wsrelays, wsPeerRelays, peerServers, said,
                     missed, tun, stranded, cut, log, file>>
  BY DEF TurnedAway, peerVars, msgVars, tunVars, recVars
<1>4. Shut(w) \in WsStates \ {"none", "open"}
  BY <1>2 DEF Shut, WsStates
<1>5. ArrivalEffect(s, i, h)
  BY <1>1, <1>2, <1>3, <1>4, Types DEF ArrivalEffect
<1>6. /\ peer[s] = NoSock /\ log[s] = NoSock /\ file[s] = "none" /\ s \notin denied
      /\ \A x \in Sockets : peer[x] # s
      /\ \A u \in Servers, j \in Ids :
            s \notin {wsrelays[u][j].peer1, wsrelays[u][j].peer2}
  BY Apart DEF Arrival
<1>7. CameInv' /\ LookupInv' /\ TwoHomes' /\ SaidInv' /\ TunnelInv' /\ ToldInv'
  BY <1>3, <1>5, ArrivalKeeps, OthersKeep
<1>t. TypeOK'
  <2>1. ws' \in [Sockets -> WsStates] /\ id' \in [Sockets -> Ids \cup {NoId}]
    BY <1>5 DEF ArrivalEffect
  <2>2. here' \subseteq Sockets /\ timer' \subseteq Sockets
    BY <1>1, <1>3, Types
  <2>3. /\ peer' \in [Sockets -> Sockets \cup {NoSock}] /\ wsrelays' \in RelayTable
        /\ wsPeerRelays' \in [Servers -> [Ids -> Servers \cup {0}]]
        /\ peerServers' \in [Servers -> SUBSET Servers]
        /\ said' \subseteq Messages /\ missed' \subseteq Messages
        /\ tun' \in [Tunnels -> {NoTunnel} \cup [from : Sockets, to : Servers, user : BOOLEAN]]
        /\ stranded' \subseteq Sockets /\ cut' \subseteq Tunnels
        /\ log' \in [Sockets -> Sockets \cup {NoSock}] /\ file' \in [Sockets -> FileStates]
    BY <1>1, <1>3 DEF TypeOK, RelayTable
  <2> QED  BY <1>1, <2>1, <2>2, <2>3, ArrivalTypes, TypedThen
<1>a. WaitingInv'
  <2> SUFFICES ASSUME NEW u \in Servers, NEW j \in Ids, wsrelays[u][j].state = 1
               PROVE  LET p == wsrelays[u][j].peer1 IN
                      /\ p \in users'[j] \ lookup' /\ home'[p] = u /\ peer'[p] = NoSock
                      /\ p \in here' => id'[p] = j /\ ~Tunnelled(p)
                      /\ id'[p] \in {j, NoId}
                      /\ id'[p] = j \/ p \in denied \/ \E z \in users'[j] \ {p} : home'[z] = u
    BY <1>2, <1>3 DEF WaitingInv, Tunnelled
  <2> DEFINE p == wsrelays[u][j].peer1
  <2>1. /\ p \in users[j] \ lookup /\ home[p] = u /\ peer[p] = NoSock
        /\ p \in here => id[p] = j /\ ~Tunnelled(p)
        /\ id[p] \in {j, NoId}
        /\ id[p] = j \/ p \in denied \/ \E z \in users[j] \ {p} : home[z] = u
    BY <1>1 DEF WaitingInv
  <2>2. p # s /\ p \in Sockets
    BY <1>1, <1>6, Entries
  <2> HIDE DEF p
  <2>3. id'[p] = id[p] /\ home'[p] = u /\ p \in users'[j]
    BY <1>1, <1>2, <1>3, <2>1, <2>2, Types
  <2>4. ASSUME NEW z \in users[j] \ {p}, home[z] = u  PROVE z \in users'[j] \ {p} /\ home'[z] = u
    BY <1>1, <1>2, <2>4 DEF Arrival, CameInv
  <2> QED  BY <1>2, <1>3, <2>1, <2>2, <2>3, <2>4 DEF p
<1>b. PairedInv'
  <2> SUFFICES ASSUME NEW u \in Servers, NEW j \in Ids, NEW p, NEW q, wsrelays[u][j].state = 2,
                      p = wsrelays[u][j].peer1, q = wsrelays[u][j].peer2
               PROVE  p # q /\ Side(p, q, u, j)' /\ Side(q, p, u, j)'
    BY <1>3 DEF PairedInv, Side, Tunnelled
  <2>1. p # q /\ Side(p, q, u, j) /\ Side(q, p, u, j) /\ p \in Sockets \ {s} /\ q \in Sockets \ {s}
    BY <1>1, <1>6, Entries DEF PairedInv
  <2> QED  BY <1>1, <1>2, <1>3, <2>1, Types DEF Side, Tunnelled
<1>c. PeerInv' /\ RecordedInv'
  <2>1. \A x \in Sockets : peer[x] # NoSock => x # s
    BY <1>6
  <2>2. \A x \in Sockets \ {s} : id'[x] = id[x] /\ home'[x] = home[x]
    BY <1>1, <1>2, <1>3, Types
  <2> QED  BY <1>1, <1>3, <2>1, <2>2 DEF PeerInv, RecordedInv
<1>d. PlacedInv' /\ OpenInv'
  <2>1. \A x \in Sockets \ {s} : id'[x] = id[x] /\ home'[x] = home[x] /\ ws'[x] = ws[x]
    BY <1>1, <1>2, <1>3, Types
  <2>2. id'[s] = NoId /\ ws'[s] # "open"
    BY <1>1, <1>2, <1>3, <1>4, Types
  <2>3. \A x \in Sockets \ {s} : Listed(x)' = Listed(x) /\ Tunnelled(x)' = Tunnelled(x)
                                  /\ (x \in lookup' <=> x \in lookup)
    BY <1>2, <1>3, <2>1 DEF Listed, Tunnelled
  <2>4. PlacedInv'
    BY <1>1, <1>3, <2>1, <2>2, <2>3 DEF PlacedInv
  <2>5. OpenInv'
    BY <1>1, <1>3, <2>1, <2>2, <2>3 DEF OpenInv
  <2> QED  BY <2>4, <2>5
<1>k. StrandedInv'
  <2>1. s \notin stranded'
    BY <1>3 DEF IInv, StrandedInv, Arrival
  <2> QED  BY <1>3, <1>5, <2>1, StrandedKeep
<1>j. DeniedInv'
  BY <1>1, <1>2, <1>3, <1>6, Types DEF DeniedInv
<1>e. FreshInv' /\ RecordingEndsOnce' /\ MeetingUnderWay'
  <2>1. FreshInv'
    BY <1>1, <1>2, <1>3, <1>6, Types DEF FreshInv
  <2>2. MeetingUnderWay'
    BY <1>1, <1>2, <1>3 DEF MeetingUnderWay
  <2>3. \A x \in Sockets : file[x] = "open" => x # s
    BY <1>6
  <2>4. \A x \in Sockets : peer[x] # NoSock => id'[x] = id[x]
    BY <1>1, <1>3, <1>6, Types
  <2>5. \A x \in Sockets : file[x] # "twice"
    BY <1>1 DEF RecordingEndsOnce
  <2> QED  BY <1>2, <1>3, <2>1, <2>2, <2>3, <2>4, <2>5, EndsStay
<1> QED  BY <1>t, <1>j, <1>k, <1>7, <1>a, <1>b, <1>c, <1>d, <1>e DEF IInv

\* s is held: it is listed, or a tunnel to a server that holds the id is opened.
LEMMA HoldKeeps ==
    ASSUME IInv, NEW s, NEW o, NEW v, NEW i, NEW w, NEW h, Arrival(s, o, v, i, w, h),
           Entitled(s, v, i, h), Hold(s, v, i, w, h)
    PROVE  IInv'
<1>1. /\ TypeOK /\ CameInv /\ DeniedInv /\ WaitingInv /\ PairedInv /\ PeerInv /\ PlacedInv /\ FreshInv
      /\ RecordedInv /\ OpenInv /\ MeetingUnderWay /\ RecordingEndsOnce
      /\ SaidInv /\ TunnelInv /\ ToldInv
      /\ users \in [Ids -> SUBSET Sockets]
  <2>1. TypeOK
    BY DEF IInv
  <2>2. users \in [Ids -> SUBSET Sockets]
    BY <2>1 DEF TypeOK
  <2> QED  BY <2>2 DEF IInv
<1>2. /\ s \in Sockets /\ v \in Servers /\ i \in Ids /\ w \in WsStates \ {"none"}
      /\ home'[s] = v
      /\ lookup' = lookup \ {s} /\ denied' = denied
      /\ \A j \in Ids : users'[j] = IF j = i THEN users[j] \cup {s} ELSE users[j]
      /\ \A x \in Sockets \ {s} : home'[x] = home[x] /\ url'[x] = url[x]
  BY <1>1 DEF Arrival
<1> DEFINE far == wsPeerRelays[v][i]
           told == {x \in peerServers[v] : v \in peerServers[x]}
           on == [from |-> s, to |-> far, user |-> s \in InSession]
<1>3. /\ wsrelays[v][i] = None
      /\ ws' = [ws EXCEPT ![s] = w] /\ id' = [id EXCEPT ![s] = i]
      /\ here' = IF h THEN here \cup {s} ELSE here \ {s}
      /\ timer' = timer \cup {s}
      /\ UNCHANGED <<peer, wsPeerRelays, peerServers, cut, log, file>>
      /\ \/ /\ far > v /\ UNCHANGED <<wsrelays, said, missed, stranded>>
            /\ \E t \in Tunnels \ {s} : tun[t] = NoTunnel /\ tun' = [tun EXCEPT ![t] = on]
         \/ /\ far > v /\ UNCHANGED <<wsrelays, said, missed, tun>>
            /\ stranded' = stranded \cup {s}
         \/ /\ ~(far > v)
            /\ wsrelays' = [wsrelays EXCEPT ![v][i] = Waiting(s)]
            /\ said' = said \cup [from : {v}, to : told, id : {i}]
            /\ missed' = missed \cup [from : {v}, to : Servers \ (told \cup {v}), id : {i}]
            /\ UNCHANGED <<tun, stranded>>
  BY DEF Hold, CreatePeerRelay, OpenTunnel, Tell, msgVars, tunVars, recVars
<1>4. far \in Servers \cup {0} /\ v \in Nat /\ v # 0
  BY <1>1, <1>2, Consts DEF TypeOK
<1>20. told \subseteq Servers /\ v \notin told /\ on.from = s /\ on.to = far /\ on # NoTunnel
  <2>1. on # NoTunnel
    <3>1. on.from = s /\ NoTunnel.from = NoSock
      BY DEF NoTunnel
    <3> QED  BY <3>1, <1>2, Consts
  <2> QED  BY <1>1, <1>2, <2>1 DEF TypeOK, SaidInv
<1>21. stranded \subseteq stranded'
  BY <1>3
<1> HIDE DEF on, told
<1>5. ArrivalEffect(s, i, h)
  BY <1>1, <1>2, <1>3, Types, Consts DEF ArrivalEffect
<1>6. /\ peer[s] = NoSock /\ log[s] = NoSock /\ file[s] = "none" /\ s \notin denied
      /\ \A x \in Sockets : peer[x] # s
      /\ \A u \in Servers, j \in Ids :
            s \notin {wsrelays[u][j].peer1, wsrelays[u][j].peer2}
      /\ \A t \in Tunnels : tun[t] # NoTunnel => tun[t].from # s
  BY Apart DEF Arrival
<1>7. CameInv' /\ LookupInv' /\ TwoHomes'
  BY <1>5, ArrivalKeeps
<1>8. \A x \in Sockets \ {s} : id'[x] = id[x] /\ home'[x] = home[x] /\ ws'[x] = ws[x]
                               /\ (x \in here' <=> x \in here) /\ (x \in lookup' <=> x \in lookup)
  BY <1>1, <1>2, <1>3, Types
<1>9. id'[s] = i /\ ws'[s] = w /\ (s \in here' <=> h) /\ s \notin lookup' /\ s \in users'[i]
  BY <1>1, <1>2, <1>3, Types, Consts DEF Arrival
<1>10. \A u \in Servers, j \in Ids : Held(u, j) => HeldThen(u, j)
  BY <1>1, HeldStays
<1>11. HeldThen(v, i)
  <2>1. CASE s \in Ends
    BY <2>1, <1>2, <1>9 DEF HeldThen
  <2>2. CASE s \in Tunnels
    <3>1. tun[s] # NoTunnel /\ tun[s].to = v /\ url[tun[s].from] = i /\ i # NoId
      BY <2>2, <1>2, Consts DEF Entitled
    <3> QED  BY <2>2, <3>1, <1>1, <1>2, <1>10 DEF TunnelInv
  <2> QED  BY <2>1, <2>2, <1>2, Consts
\* Whether s is listed or not, the other places of the list stay.
<1>12. \A u \in Servers, j \in Ids : ~(u = v /\ j = i) => wsrelays'[u][j] = wsrelays[u][j]
  BY <1>1, <1>3 DEF TypeOK
<1>13. /\ wsrelays'[v][i] = IF far > v THEN None ELSE Waiting(s)
       /\ wsrelays' \in RelayTable
  <2> DEFINE R == {None} \cup {Waiting(x) : x \in Sockets}
                         \cup {Paired(p, x) : p, x \in Sockets}
  <2>1. None \in R /\ Waiting(s) \in R /\ wsrelays \in [Servers -> [Ids -> R]]
    BY <1>1, <1>2 DEF TypeOK
  <2> HIDE DEF R
  <2>2. wsrelays' \in [Servers -> [Ids -> R]]
    BY <1>2, <1>3, <2>1
  <2>3. wsrelays'[v][i] = IF far > v THEN None ELSE Waiting(s)
    BY <1>2, <1>3, <2>1
  <2> QED  BY <2>2, <2>3 DEF RelayTable, R
<1>14. \A x \in Sockets \ {s} : Tunnelled(x)' <=> Tunnelled(x)
  <2>1. CASE UNCHANGED tun
    BY <2>1 DEF Tunnelled
  <2>2. ASSUME NEW t \in Tunnels \ {s}, tun[t] = NoTunnel,
               tun' = [tun EXCEPT ![t] = on]
        PROVE  \A x \in Sockets \ {s} : Tunnelled(x)' <=> Tunnelled(x)
    <3>1. tun \in [Tunnels -> {NoTunnel} \cup [from : Sockets, to : Servers, user : BOOLEAN]]
      BY <1>1 DEF TypeOK
    <3>2. \A k \in Tunnels : k # t => tun'[k] = tun[k]
      BY <2>2, <3>1
    <3>3. tun'[t].from = s /\ tun[t].from = NoSock
      BY <2>2, <3>1, <1>20 DEF NoTunnel
    <3> QED  BY <3>2, <3>3, Consts DEF Tunnelled
  <2> QED  BY <1>3, <2>1, <2>2
<1>t. TypeOK'
  <2>1. tun' \in [Tunnels -> {NoTunnel} \cup [from : Sockets, to : Servers, user : BOOLEAN]]
    <3>1. tun \in [Tunnels -> {NoTunnel} \cup [from : Sockets, to : Servers, user : BOOLEAN]]
      BY <1>1 DEF TypeOK
    <3>2. far > v => on \in [from : Sockets, to : Servers, user : BOOLEAN]
      BY <1>2, <1>4, Consts DEF on
    <3> QED  BY <1>3, <3>1, <3>2
  <2>2. said' \subseteq Messages /\ missed' \subseteq Messages
    <3>1. said \subseteq Messages /\ missed \subseteq Messages
      BY <1>1 DEF TypeOK
    <3> QED  BY <1>2, <1>3, <1>20, <3>1 DEF Messages
  <2>3. ws' \in [Sockets -> WsStates] /\ id' \in [Sockets -> Ids \cup {NoId}]
    BY <1>5 DEF ArrivalEffect
  <2>4. here' \subseteq Sockets /\ timer' \subseteq Sockets
    BY <1>1, <1>2, <1>3, Types
  <2>8. stranded' \subseteq Sockets /\ peerServers' \in [Servers -> SUBSET Servers]
    BY <1>1, <1>2, <1>3 DEF TypeOK
  <2>5. /\ peer' \in [Sockets -> Sockets \cup {NoSock}] /\ cut' \subseteq Tunnels
        /\ wsPeerRelays' \in [Servers -> [Ids -> Servers \cup {0}]]
        /\ log' \in [Sockets -> Sockets \cup {NoSock}] /\ file' \in [Sockets -> FileStates]
    BY <1>1, <1>3 DEF TypeOK
  <2>6. /\ home' \in [Sockets -> Servers \cup {0}]
        /\ origin' \in [Sockets -> Ends \cup {NoSock}]
        /\ url' \in [Sockets -> Ids \cup {NoId}]
        /\ lookup' \subseteq Routed /\ denied' \subseteq Sockets
        /\ users' \in [Ids -> SUBSET Sockets]
    BY <1>1, ArrivalTypes
  <2> QED  BY <1>13, <2>1, <2>2, <2>3, <2>4, <2>5, <2>6, <2>8, TypedThen
<1>a. WaitingInv'
  <2> SUFFICES ASSUME NEW u \in Servers, NEW j \in Ids, wsrelays'[u][j].state = 1,
                      NEW p, p = wsrelays'[u][j].peer1
               PROVE  /\ p \in users'[j] \ lookup' /\ home'[p] = u /\ peer'[p] = NoSock
                      /\ p \in here' => id'[p] = j /\ ~Tunnelled(p)'
                      /\ id'[p] \in {j, NoId}
                      /\ id'[p] = j \/ p \in denied \/ \E z \in users'[j] \ {p} : home'[z] = u
    BY <1>2 DEF WaitingInv, Tunnelled
  <2>1. CASE u = v /\ j = i
    <3>1. ~(far > v) /\ p = s
      BY <2>1, <1>13 DEF None, Waiting
    <3>2. ~Tunnelled(s)'
      <4>1. UNCHANGED tun
        BY <3>1, <1>3
      <4>2. \A t \in Tunnels : tun[t].from # s
        BY <1>2, <1>6, Consts DEF NoTunnel
      <4> QED  BY <4>1, <4>2 DEF Tunnelled
    <3> QED  BY <2>1, <3>1, <3>2, <1>2, <1>3, <1>6, <1>9
  <2>2. CASE ~(u = v /\ j = i)
    <3>1. /\ p \in users[j] \ lookup /\ home[p] = u /\ peer[p] = NoSock
          /\ p \in here => id[p] = j /\ ~Tunnelled(p)
          /\ id[p] \in {j, NoId}
          /\ id[p] = j \/ p \in denied \/ \E z \in users[j] \ {p} : home[z] = u
      BY <2>2, <1>1, <1>12 DEF WaitingInv
    <3>2. p \in Sockets \ {s}
      BY <2>2, <1>1, <1>6, <1>12, Entries
    <3>3. ASSUME NEW z \in users[j] \ {p}, home[z] = u
          PROVE  z \in users'[j] \ {p} /\ home'[z] = u
      BY <1>1, <1>2, <3>3 DEF Arrival, CameInv
    <3>4. p \in users'[j] \ lookup'
      BY <1>2, <3>1
    <3> QED  BY <1>3, <1>8, <1>14, <3>1, <3>2, <3>3, <3>4
  <2> QED  BY <2>1, <2>2
<1>b. PairedInv'
  <2> SUFFICES ASSUME NEW u \in Servers, NEW j \in Ids, NEW p, NEW q, wsrelays'[u][j].state = 2,
                      p = wsrelays'[u][j].peer1, q = wsrelays'[u][j].peer2
               PROVE  p # q /\ Side(p, q, u, j)' /\ Side(q, p, u, j)'
    BY DEF PairedInv, Side, Tunnelled
  <2>1. ~(u = v /\ j = i) /\ wsrelays'[u][j] = wsrelays[u][j]
    BY <1>12, <1>13 DEF None, Waiting
  <2>2. p # q /\ Side(p, q, u, j) /\ Side(q, p, u, j) /\ p \in Sockets \ {s} /\ q \in Sockets \ {s}
    BY <1>1, <1>6, <2>1, Entries DEF PairedInv
  <2>3. ASSUME NEW z \in Sockets \ {s}, NEW x, Side(z, x, u, j)  PROVE Side(z, x, u, j)'
    <3>1. /\ (Tunnelled(z)' <=> Tunnelled(z)) /\ peer' = peer /\ users[j] \subseteq users'[j]
          /\ id'[z] = id[z] /\ home'[z] = home[z] /\ denied' = denied
          /\ (z \in here' <=> z \in here) /\ (z \in lookup' <=> z \in lookup)
      BY <1>2, <1>3, <1>8, <1>14
    <3> QED  BY <2>3, <3>1 DEF Side
  <2> QED  BY <2>2, <2>3
<1>c. PeerInv' /\ RecordedInv'
  <2>1. ASSUME NEW x \in Sockets, peer[x] # NoSock
        PROVE  /\ x # s /\ id'[x] = id[x] /\ home'[x] = home[x]
               /\ wsrelays'[home[x]][id[x]] = wsrelays[home[x]][id[x]]
    <3>1. x # s /\ home[x] \in Servers /\ id[x] \in Ids
      BY <1>1, <1>6, <2>1, Partners
    <3>2. wsrelays[home[x]][id[x]].state = 2
      BY <1>1, <2>1, Partners
    <3>3. ~(home[x] = v /\ id[x] = i)
      BY <3>2, <1>3 DEF None
    <3> QED  BY <1>8, <1>12, <2>1, <3>1, <3>3
  <2> QED  BY <1>1, <1>3, <2>1 DEF PeerInv, RecordedInv
<1>d. PlacedInv' /\ OpenInv'
  <2>1. ASSUME NEW x \in Sockets \ {s}, id[x] # NoId
        PROVE  /\ ~(home[x] = v /\ id[x] = i)
               /\ wsrelays'[home[x]][id[x]] = wsrelays[home[x]][id[x]]
    <3>1. id[x] \in Ids /\ x \in users[id[x]] /\ home[x] \in Servers
      BY <1>1, <2>1, Types, Consts DEF CameInv
    <3>2. ~(home[x] = v /\ id[x] = i)
      <4> SUFFICES ASSUME home[x] = v, id[x] = i  PROVE FALSE
        OBVIOUS
      <4>1. Listed(x)
        BY <3>1 DEF Entitled
      <4> QED  BY <4>1, <1>3, Consts DEF Listed, None
    <3> QED  BY <3>1, <3>2, <1>12
  <2>2. \A x \in Sockets \ {s} : Listed(x) => Listed(x)'
    BY <1>8, <2>1 DEF Listed
  <2>3. IF far > v THEN /\ wsrelays'[home'[s]][id'[s]] = None
                        /\ s \in stranded' \/ Tunnelled(s)'
        ELSE Listed(s)'
    <3>1. ASSUME far > v, s \notin stranded'  PROVE Tunnelled(s)'
      <4>1. PICK t \in Tunnels \ {s} :
               tun[t] = NoTunnel /\ tun' = [tun EXCEPT ![t] = on]
        BY <3>1, <1>3
      <4>2. tun'[t].from = s
        BY <4>1, <1>1, <1>20 DEF TypeOK
      <4> QED  BY <4>2 DEF Tunnelled
    <3> QED  BY <3>1, <1>2, <1>9, <1>13, Consts DEF Listed, Waiting
  <2>4. PlacedInv'
    BY <1>1, <1>8, <1>14, <1>21, <2>1, <2>2, <2>3 DEF PlacedInv
  <2>5. OpenInv'
    BY <1>1, <1>8, <1>14, <1>21, <2>2, <2>3 DEF OpenInv
  <2> QED  BY <2>4, <2>5
<1>e. SaidInv'
  <2>1. ASSUME NEW m \in said'
        PROVE  m.from # m.to /\ HeldThen(m.from, m.id) /\ m.from \in peerServers[m.to]
    <3>1. CASE m \in said
      BY <3>1, <1>1, <1>10 DEF SaidInv, TypeOK, Messages
    <3>2. CASE m \in [from : {v}, to : told, id : {i}]
      <4>1. m.from = v /\ m.id = i /\ m.to \in told
        BY <3>2
      <4>2. v \in peerServers[m.to]
        BY <4>1 DEF told
      <4> QED  BY <4>1, <4>2, <1>11, <1>20
    <3> QED  BY <2>1, <3>1, <3>2, <1>3
  <2>2. ASSUME NEW u \in Servers, NEW j \in Ids, wsPeerRelays[u][j] # 0
        PROVE  wsPeerRelays[u][j] # u /\ HeldThen(wsPeerRelays[u][j], j)
    BY <2>2, <1>1, <1>10 DEF SaidInv, TypeOK
  <2>3. \A x \in Servers : x \notin peerServers[x]
    BY <1>1 DEF SaidInv
  <2> QED  BY <2>1, <2>2, <2>3, <1>3 DEF SaidInv, Held, HeldThen
<1>f. TunnelInv'
  <2>1. CASE UNCHANGED tun
    BY <2>1, <1>5, OthersKeep
  <2>2. ASSUME far > v, NEW t \in Tunnels \ {s}, tun[t] = NoTunnel,
               tun' = [tun EXCEPT ![t] = on]
        PROVE  TunnelInv'
    <3>1. s \in Ends /\ far \in Servers /\ Held(far, i)
      <4>1. far \in Servers /\ far # 0
        BY <2>2, <1>4, Consts
      <4>2. s \notin Tunnels
        BY <2>2, <4>1, <1>4, Consts DEF Entitled
      <4> QED  BY <4>1, <4>2, <1>1, <1>2, Consts DEF SaidInv
    <3>2. /\ tun'[t] = on
          /\ \A k \in Tunnels \ {t} : tun'[k] = tun[k]
      BY <2>2, <1>1 DEF TypeOK
    <3>3. url'[s] \in {i, NoId} /\ HeldThen(far, i) /\ t \in Sockets /\ ws[t] = "none"
      <4>1. url'[s] \in {i, NoId}
        BY <2>2 DEF Entitled
      <4>2. t \in Sockets /\ ws[t] = "none"
        BY <2>2, <1>1, Consts DEF TunnelInv
      <4> QED  BY <4>1, <4>2, <3>1, <1>2, <1>10
    <3>4. ASSUME NEW k \in Tunnels, tun'[k] # NoTunnel
          PROVE  /\ tun'[k].from \in Ends \ lookup' /\ ws'[tun'[k].from] # "none"
                 /\ home'[tun'[k].from] < tun'[k].to
                 /\ ws'[k] # "none" => home'[k] = tun'[k].to
                 /\ url'[tun'[k].from] # NoId =>
                       /\ tun'[k].from \in users'[url'[tun'[k].from]]
                       /\ HeldThen(tun'[k].to, url'[tun'[k].from])
                 /\ id'[tun'[k].from] # NoId => HeldThen(tun'[k].to, id'[tun'[k].from])
      <4>1. CASE k = t
        <5>1. tun'[k].from = s /\ tun'[k].to = far
          BY <4>1, <3>2, <1>20
        <5>2. s \in Ends \ lookup' /\ ws'[s] # "none" /\ home'[s] < far
          BY <1>2, <1>4, <1>9, <2>2, <3>1
        <5>3. ws'[k] = "none"
          BY <4>1, <3>3, <1>8, <2>2
        <5>4. url'[s] # NoId => s \in users'[url'[s]] /\ HeldThen(far, url'[s])
          BY <3>3, <1>9
        <5>5. HeldThen(far, id'[s])
          BY <3>3, <1>9
        <5> QED  BY <5>1, <5>2, <5>3, <5>4, <5>5
      <4>2. CASE k # t
        <5>1. tun'[k] = tun[k] /\ tun[k] # NoTunnel
          BY <4>2, <3>2, <3>4
        <5>2. /\ tun[k].from \in Ends \ lookup /\ ws[tun[k].from] # "none"
              /\ home[tun[k].from] < tun[k].to
              /\ ws[k] # "none" => home[k] = tun[k].to
              /\ url[tun[k].from] # NoId =>
                    /\ tun[k].from \in users[url[tun[k].from]]
                    /\ Held(tun[k].to, url[tun[k].from])
              /\ id[tun[k].from] # NoId => Held(tun[k].to, id[tun[k].from])
          BY <5>1, <1>1 DEF TunnelInv
        <5>3. tun[k].from \in Sockets \ {s} /\ tun[k].to \in Servers /\ k \in Sockets
          BY <5>1, <1>1, <1>6, Consts DEF TypeOK
        <5>4. url[tun[k].from] \in Ids \cup {NoId} /\ id[tun[k].from] \in Ids \cup {NoId}
          BY <5>3, <1>1 DEF TypeOK
        <5>5. ws'[k] # "none" => home'[k] = tun[k].to
          BY <5>1, <5>2, <5>3, <1>2, <1>8 DEF Entitled
        <5>6. url[tun[k].from] # NoId => HeldThen(tun[k].to, url[tun[k].from])
          BY <5>2, <5>3, <5>4, <1>10
        <5>7. id[tun[k].from] # NoId => HeldThen(tun[k].to, id[tun[k].from])
          BY <5>2, <5>3, <5>4, <1>10
        <5>8. /\ ws'[tun[k].from] = ws[tun[k].from] /\ url'[tun[k].from] = url[tun[k].from]
              /\ id'[tun[k].from] = id[tun[k].from] /\ home'[tun[k].from] = home[tun[k].from]
          BY <5>3, <1>2, <1>8
        <5>9. url[tun[k].from] # NoId => tun[k].from \in users'[url[tun[k].from]]
          BY <5>2, <5>4, <1>2
        <5> QED  BY <5>1, <5>2, <5>5, <5>6, <5>7, <5>8, <5>9, <1>2
      <4> QED  BY <4>1, <4>2
    <3>5. \A k \in Tunnels : ws'[k] # "none" => tun'[k] # NoTunnel
      <4>1. tun'[t] # NoTunnel
        BY <3>2, <1>20
      <4> QED  BY <4>1, <3>1, <3>2, <1>1, <1>8, Consts DEF TunnelInv
    <3>6. ASSUME NEW j \in Ids, NEW k \in users'[j] \cap Tunnels
          PROVE  tun'[k] # NoTunnel /\ url'[tun'[k].from] = j
      <4>1. k # s /\ k \in users[j]
        BY <3>1, <1>2, Consts
      <4>2. tun[k] # NoTunnel /\ url[tun[k].from] = j
        BY <4>1, <1>1 DEF TunnelInv
      <4>3. k # t /\ tun[k].from \in Sockets \ {s}
        BY <4>2, <2>2, <1>1, <1>6 DEF TypeOK
      <4> QED  BY <4>2, <4>3, <3>2, <1>2
    <3> QED  BY <3>4, <3>5, <3>6 DEF TunnelInv, Held, HeldThen
  <2> QED  BY <1>3, <2>1, <2>2
<1>g. ToldInv'
  <2> SUFFICES ASSUME NEW u \in Servers, NEW y \in Servers, NEW j \in Ids, u < y,
                      wsrelays'[y][j].state = 1
               PROVE  \/ [from |-> y, to |-> u, id |-> j] \in said' \cup missed'
                      \/ wsPeerRelays[u][j] = y \/ wsrelays'[y][j].peer1 \in denied
                      \/ \E x \in users'[j] \ {wsrelays'[y][j].peer1} :
                            home'[x] # u \/ x \notin lookup'
    BY <1>2, <1>3 DEF ToldInv
  <2>1. CASE y = v /\ j = i
    <3>1. ~(far > v) /\ u # v
      BY <2>1, <1>13, Consts DEF None
    <3>2. [from |-> y, to |-> u, id |-> j] \in said' \cup missed'
      BY <2>1, <3>1, <1>3
    <3> QED  BY <3>2
  <2>2. CASE ~(y = v /\ j = i)
    <3>1. wsrelays'[y][j] = wsrelays[y][j]
      BY <2>2, <1>12
    <3>2. \/ [from |-> y, to |-> u, id |-> j] \in said \cup missed
          \/ wsPeerRelays[u][j] = y \/ wsrelays[y][j].peer1 \in denied
          \/ \E x \in users[j] \ {wsrelays[y][j].peer1} : home[x] # u \/ x \notin lookup
      BY <3>1, <1>1 DEF ToldInv
    <3>3. ASSUME NEW x \in users[j], home[x] # u \/ x \notin lookup
          PROVE  x \in users'[j] /\ (home'[x] # u \/ x \notin lookup')
      BY <3>3, <1>1, <1>2, <1>8, <1>9
    <3> QED  BY <3>1, <3>2, <3>3, <1>3
  <2> QED  BY <2>1, <2>2
<1>h. MeetingUnderWay'
  <2> SUFFICES ASSUME NEW u \in Servers, NEW y \in Servers, NEW j \in Ids, u < y,
                      wsrelays'[u][j].state = 1, wsrelays'[y][j].state = 1,
                      wsrelays'[u][j].peer1 \in here', wsrelays'[y][j].peer1 \notin denied
               PROVE  [from |-> y, to |-> u, id |-> j] \in said' \cup missed'
    BY <1>2 DEF MeetingUnderWay
  <2>1. CASE y = v /\ j = i
    <3>1. ~(far > v) /\ u # v
      BY <2>1, <1>13, Consts DEF None
    <3> QED  BY <2>1, <3>1, <1>3
  <2>2. CASE u = v /\ j = i
    <3>1. ~(far > v) /\ y # v
      BY <2>2, <1>13, Consts DEF None
    <3>2. wsrelays[y][j].state = 1 /\ wsrelays[y][j].peer1 \notin denied
      BY <2>2, <3>1, <1>12
    <3>3. wsPeerRelays[v][i] # y
      BY <3>1, <2>2, Consts
    <3> QED  BY <2>2, <3>2, <3>3, <1>3 DEF Entitled
  <2>3. CASE ~(y = v /\ j = i) /\ ~(u = v /\ j = i)
    <3>1. wsrelays'[y][j] = wsrelays[y][j] /\ wsrelays'[u][j] = wsrelays[u][j]
      BY <2>3, <1>12
    <3>2. wsrelays[u][j].peer1 \in here
      BY <3>1, <1>1, <1>6, <1>8, Entries
    <3> QED  BY <3>1, <3>2, <1>1, <1>3 DEF MeetingUnderWay
  <2> QED  BY <2>1, <2>2, <2>3
<1>i. FreshInv' /\ RecordingEndsOnce'
  <2>1. FreshInv'
    BY <1>1, <1>3, <1>6, <1>8 DEF FreshInv
  <2>2. \A x \in Sockets : file[x] # "none" \/ peer[x] # NoSock => x # s
    BY <1>6
  <2>3. \A u \in Servers, j \in Ids :
           wsrelays[u][j].state = 2 => wsrelays'[u][j] = wsrelays[u][j]
    BY <1>3, <1>12 DEF None
  <2>4. \A x \in Sockets : file[x] # "twice"
    BY <1>1 DEF RecordingEndsOnce
  <2> QED  BY <1>2, <1>3, <1>8, <2>1, <2>2, <2>3, <2>4, EndsStay
<1>k. StrandedInv'
  <2>1. s \notin stranded
    BY DEF IInv, StrandedInv, Arrival
  <2>2. stranded' \subseteq stranded \cup {s} /\ (s \in stranded' => far > v)
    BY <1>3, <2>1
  <2>3. ASSUME far > v  PROVE s \in Ends /\ far \in Servers /\ v < far /\ Held(far, i)
    <3>1. far \in Servers /\ far # 0 /\ v < far
      BY <2>3, <1>4, Consts
    <3>2. s \notin Tunnels
      BY <2>3, <3>1, <1>4, Consts DEF Entitled
    <3> QED  BY <3>1, <3>2, <1>1, <1>2, Consts DEF SaidInv
  <2> QED  BY <1>5, <2>2, <2>3, StrandedKeep
<1>j. DeniedInv'
  BY <1>1, <1>2, <1>3, <1>6, <1>8 DEF DeniedInv
<1> QED  BY <1>t, <1>7, <1>a, <1>j, <1>k, <1>b, <1>c, <1>d, <1>e, <1>f, <1>g, <1>h, <1>i DEF IInv

\* Both web sockets are lost: both connections are closed, the list stays.
LEMMA BothLostKeeps ==
    ASSUME IInv, NEW s, NEW o, NEW v, NEW i, NEW w, NEW h, Arrival(s, o, v, i, w, h),
           Entitled(s, v, i, h), BothLost(s, o, v, i, w, h)
    PROVE  IInv'
<1>1. /\ TypeOK /\ CameInv /\ DeniedInv /\ WaitingInv /\ PairedInv /\ PeerInv /\ PlacedInv /\ FreshInv
      /\ RecordedInv /\ OpenInv /\ MeetingUnderWay /\ RecordingEndsOnce
      /\ users \in [Ids -> SUBSET Sockets]
  <2>1. TypeOK
    BY DEF IInv
  <2>2. users \in [Ids -> SUBSET Sockets]
    BY <2>1 DEF TypeOK
  <2> QED  BY <2>2 DEF IInv
<1>2. /\ s \in Sockets /\ v \in Servers /\ i \in Ids /\ w \in WsStates \ {"none"}
      /\ home'[s] = v
      /\ lookup' = lookup \ {s} /\ denied' = denied
      /\ \A j \in Ids : users'[j] = IF j = i THEN users[j] \cup {s} ELSE users[j]
      /\ \A x \in Sockets \ {s} : home'[x] = home[x]
  BY <1>1 DEF Arrival
<1> DEFINE q == wsrelays[v][i].peer1
<1>3. /\ wsrelays[v][i].state = 1
      /\ ws' = [ws EXCEPT ![s] = Shut(w), ![q] = Shut(@)]
      /\ id' = [id EXCEPT ![s] = NoId, ![q] = NoId]
      /\ here' = here \ {s, q} /\ timer' = timer \ {q}
      /\ UNCHANGED <<peer, wsrelays, wsPeerRelays, peerServers, said, missed, tun, stranded,
                     cut, log, file>>
  BY DEF BothLost, Match, peerVars, msgVars, tunVars, recVars
<1>4. /\ peer[s] = NoSock /\ log[s] = NoSock /\ file[s] = "none" /\ s \notin denied
      /\ \A x \in Sockets : peer[x] # s
      /\ \A u \in Servers, j \in Ids :
            s \notin {wsrelays[u][j].peer1, wsrelays[u][j].peer2}
  BY Apart DEF Arrival
<1>5. /\ q \in Sockets \ {s} /\ q \in users[i] \ lookup /\ home[q] = v /\ peer[q] = NoSock
      /\ id[q] \in {i, NoId} /\ ws[q] # "none"
  BY <1>1, <1>2, <1>3, <1>4, Entries DEF WaitingInv, CameInv
<1>6. \A x \in WsStates : Shut(x) \in WsStates \ {"open"} /\ (Shut(x) = "none" <=> x = "none")
  BY DEF Shut, WsStates
<1> HIDE DEF q
<1>7. /\ ws' \in [Sockets -> WsStates] /\ id' \in [Sockets -> Ids \cup {NoId}]
      /\ id'[s] = NoId /\ id'[q] = NoId
      /\ ws'[s] = Shut(w) /\ ws'[q] = Shut(ws[q])
      /\ \A x \in Sockets \ {s, q} : id'[x] = id[x] /\ ws'[x] = ws[x]
                                      /\ (x \in here' <=> x \in here)
      /\ \A x \in Sockets \ {s} : x \in lookup' <=> x \in lookup
  BY <1>1, <1>2, <1>3, <1>5, <1>6, Types
<1>8. ArrivalEffect(s, i, h)
  <2>1. ws'[s] # "none" /\ ws'[q] # "none"
    BY <1>1, <1>2, <1>5, <1>6, <1>7, Types
  <2>2. here' \subseteq here /\ s \notin here' /\ q \notin here' /\ timer' \subseteq timer
        /\ here \subseteq Sockets
    BY <1>1, <1>3, Types
  <2> QED  BY <2>1, <2>2, <1>5, <1>7 DEF ArrivalEffect
<1>9. CameInv' /\ LookupInv' /\ TwoHomes' /\ SaidInv' /\ TunnelInv' /\ ToldInv'
  BY <1>3, <1>8, ArrivalKeeps, OthersKeep
<1>t. TypeOK'
  <2>1. here' \subseteq Sockets /\ timer' \subseteq Sockets
    BY <1>1, <1>3, Types
  <2>2. /\ home' \in [Sockets -> Servers \cup {0}]
        /\ origin' \in [Sockets -> Ends \cup {NoSock}]
        /\ url' \in [Sockets -> Ids \cup {NoId}]
        /\ lookup' \subseteq Routed /\ denied' \subseteq Sockets
        /\ users' \in [Ids -> SUBSET Sockets]
    BY <1>1, ArrivalTypes
  <2>3. /\ wsPeerRelays' \in [Servers -> [Ids -> Servers \cup {0}]]
        /\ said' \subseteq Messages /\ missed' \subseteq Messages
        /\ tun' \in [Tunnels -> {NoTunnel} \cup [from : Sockets, to : Servers, user : BOOLEAN]]
        /\ peerServers' \in [Servers -> SUBSET Servers] /\ stranded' \subseteq Sockets
        /\ cut' \subseteq Tunnels /\ log' \in [Sockets -> Sockets \cup {NoSock}]
    BY <1>1, <1>3 DEF TypeOK
  <2>4. /\ wsrelays' \in RelayTable
        /\ peer' \in [Sockets -> Sockets \cup {NoSock}] /\ file' \in [Sockets -> FileStates]
    BY <1>1, <1>3 DEF TypeOK, RelayTable
  <2> QED  BY <1>7, <2>1, <2>2, <2>3, <2>4, TypedThen
<1>a. WaitingInv'
  <2> SUFFICES ASSUME NEW u \in Servers, NEW j \in Ids, wsrelays'[u][j].state = 1,
                      NEW p, p = wsrelays'[u][j].peer1
               PROVE  /\ p \in users'[j] \ lookup' /\ home'[p] = u /\ peer'[p] = NoSock
                      /\ p \in here' => id'[p] = j /\ ~Tunnelled(p)'
                      /\ id'[p] \in {j, NoId}
                      /\ id'[p] = j \/ p \in denied \/ \E z \in users'[j] \ {p} : home'[z] = u
    BY <1>2 DEF WaitingInv, Tunnelled
  <2>0. wsrelays[u][j].state = 1 /\ p = wsrelays[u][j].peer1
    BY <1>3
  <2>1. /\ p \in users[j] \ lookup /\ home[p] = u /\ peer[p] = NoSock
        /\ p \in here => id[p] = j /\ ~Tunnelled(p)
        /\ id[p] \in {j, NoId}
        /\ id[p] = j \/ p \in denied \/ \E z \in users[j] \ {p} : home[z] = u
    BY <2>0, <1>1 DEF WaitingInv
  <2>2. p \in Sockets \ {s} /\ home'[p] = u /\ p \in users'[j] \ lookup'
    <3>1. p \in Sockets \ {s}
      BY <2>0, <1>1, <1>4, Entries
    <3>2. users[j] \subseteq users'[j]
      BY <1>2
    <3> QED  BY <3>1, <3>2, <1>2, <2>1
  <2>3. ASSUME NEW z \in users[j] \ {p}, home[z] = u
        PROVE  z \in users'[j] \ {p} /\ home'[z] = u
    BY <1>1, <1>2, <2>3 DEF Arrival, CameInv
  <2>4. CASE p # q
    BY <2>1, <2>2, <2>3, <2>4, <1>3, <1>7 DEF Tunnelled
  <2>5. CASE p = q /\ j = i
    <3>1. s \in users'[i] \ {p} /\ home'[s] = u
      BY <2>1, <2>5, <1>2, <1>5
    <3>2. id'[p] = NoId /\ p \notin here' /\ peer'[p] = NoSock
      BY <2>5, <1>3, <1>5, <1>7
    <3> QED  BY <2>2, <2>5, <3>1, <3>2
  <2>6. CASE p = q /\ j # i
    <3>1. id[p] # j
      BY <2>6, <1>5, Consts
    <3> QED  BY <2>1, <2>2, <2>3, <2>6, <3>1, <1>3, <1>7
  <2> QED  BY <2>4, <2>5, <2>6
<1>b. PairedInv'
  <2> SUFFICES ASSUME NEW u \in Servers, NEW j \in Ids, NEW p, NEW y, wsrelays'[u][j].state = 2,
                      p = wsrelays'[u][j].peer1, y = wsrelays'[u][j].peer2
               PROVE  p # y /\ Side(p, y, u, j)' /\ Side(y, p, u, j)'
    BY DEF PairedInv, Side, Tunnelled
  <2>1. p # y /\ Side(p, y, u, j) /\ Side(y, p, u, j) /\ p \in Sockets \ {s} /\ y \in Sockets \ {s}
    BY <1>1, <1>3, <1>4, Entries DEF PairedInv
  <2>2. users[j] \subseteq users'[j] /\ UNCHANGED <<peer, tun>>
    BY <1>2, <1>3
  <2>3. ASSUME NEW z \in Sockets \ {s}, NEW x \in Sockets, Side(z, x, u, j)
        PROVE  Side(z, x, u, j)'
    <3>1. z \in denied \/ z # q
      BY <2>3, <1>5, Consts DEF Side
    <3> QED  BY <1>2, <1>7, <2>2, <2>3, <3>1 DEF Side, Tunnelled
  <2> QED  BY <2>1, <2>3
<1>c. PeerInv' /\ RecordedInv'
  <2>1. \A x \in Sockets : peer[x] # NoSock => x \notin {s, q}
    BY <1>4, <1>5
  <2> QED  BY <1>1, <1>2, <1>3, <1>7, <2>1 DEF PeerInv, RecordedInv
<1>d. PlacedInv' /\ OpenInv'
  <2>1. ws'[s] # "open" /\ ws'[q] # "open"
    BY <1>1, <1>2, <1>5, <1>6, <1>7, Types
  <2>2. ASSUME NEW x \in Sockets \ {s, q}
        PROVE  /\ Listed(x)' <=> Listed(x)
               /\ Tunnelled(x)' <=> Tunnelled(x)
               /\ home'[x] = home[x] /\ id'[x] = id[x] /\ ws'[x] = ws[x]
               /\ x \in lookup' <=> x \in lookup
    <3>1. wsrelays' = wsrelays /\ tun' = tun
      BY <1>3
    <3>2. /\ home'[x] = home[x] /\ id'[x] = id[x] /\ ws'[x] = ws[x]
          /\ x \in lookup' <=> x \in lookup
      BY <1>2, <1>7
    <3> QED  BY <3>1, <3>2 DEF Listed, Tunnelled
  <2>3. PlacedInv'
    <3>1. id'[s] = NoId /\ id'[q] = NoId /\ wsrelays' = wsrelays
      BY <1>3, <1>7
    <3> QED  BY <1>1, <1>3, <2>2, <3>1 DEF PlacedInv
  <2>4. OpenInv'
    BY <1>1, <1>3, <2>1, <2>2 DEF OpenInv
  <2> QED  BY <2>3, <2>4
<1>e. FreshInv' /\ RecordingEndsOnce' /\ MeetingUnderWay'
  <2>1. FreshInv'
    BY <1>1, <1>3, <1>4, <1>5, <1>6, <1>7, Types DEF FreshInv
  <2>2. MeetingUnderWay'
    BY <1>1, <1>2, <1>3 DEF MeetingUnderWay
  <2>3. \A x \in Sockets : file[x] # "none" \/ peer[x] # NoSock => x # s
    BY <1>4
  <2>4. \A x \in Sockets : peer[x] # NoSock => id'[x] = id[x]
    BY <1>5, <1>7, <2>3
  <2>5. \A x \in Sockets : file[x] # "twice"
    BY <1>1 DEF RecordingEndsOnce
  <2> QED  BY <1>2, <1>3, <2>1, <2>2, <2>3, <2>4, <2>5, EndsStay
<1>k. StrandedInv'
  <2>1. s \notin stranded'
    BY <1>3 DEF IInv, StrandedInv, Arrival
  <2> QED  BY <1>3, <1>8, <2>1, StrandedKeep
<1>j. DeniedInv'
  <2> SUFFICES ASSUME NEW x \in denied
               PROVE  /\ x \notin here' \cup lookup' /\ id'[x] = NoId /\ peer'[x] = NoSock
                      /\ ws'[x] \in {"closing", "closed"}
    BY <1>2 DEF DeniedInv
  <2>1. /\ x \in Sockets \ {s} /\ x \notin here \cup lookup /\ id[x] = NoId
        /\ peer[x] = NoSock /\ ws[x] \in {"closing", "closed"}
    BY <1>1, <1>4, Types DEF DeniedInv
  <2>2. ws'[x] \in {"closing", "closed"}
    BY <2>1, <1>7 DEF Shut
  <2> QED  BY <1>2, <1>3, <1>7, <2>1, <2>2
<1> QED  BY <1>t, <1>9, <1>j, <1>k, <1>a, <1>b, <1>c, <1>d, <1>e DEF IInv

\* s is joined with the connection that waits.
LEMMA PairKeeps ==
    ASSUME IInv, NEW s, NEW o, NEW v, NEW i, NEW w, NEW h, Arrival(s, o, v, i, w, h),
           Entitled(s, v, i, h), Pair(s, o, v, i, w, h)
    PROVE  IInv'
<1>1. /\ TypeOK /\ CameInv /\ DeniedInv /\ WaitingInv /\ PairedInv /\ PeerInv /\ PlacedInv /\ FreshInv
      /\ RecordedInv /\ OpenInv /\ MeetingUnderWay /\ RecordingEndsOnce
      /\ users \in [Ids -> SUBSET Sockets]
  <2>1. TypeOK
    BY DEF IInv
  <2>2. users \in [Ids -> SUBSET Sockets]
    BY <2>1 DEF TypeOK
  <2> QED  BY <2>2 DEF IInv
<1>2. /\ s \in Sockets /\ v \in Servers /\ i \in Ids /\ w \in WsStates \ {"none"}
      /\ home'[s] = v
      /\ lookup' = lookup \ {s} /\ denied' = denied
      /\ \A j \in Ids : users'[j] = IF j = i THEN users[j] \cup {s} ELSE users[j]
      /\ \A x \in Sockets \ {s} : home'[x] = home[x]
  BY <1>1 DEF Arrival
<1> DEFINE q == wsrelays[v][i].peer1
<1>3. /\ wsrelays[v][i].state = 1 /\ h /\ q \in here
      /\ ws' = [ws EXCEPT ![s] = w] /\ id' = [id EXCEPT ![s] = i]
      /\ here' = here \cup {s}
      /\ peer' = [peer EXCEPT ![s] = q, ![q] = s]
      /\ timer' = timer \ {q}
      /\ wsrelays' = [wsrelays EXCEPT ![v][i] = Paired(q, s)]
      /\ file' = (IF Recorded THEN [file EXCEPT ![s] = "opening"] ELSE file)
      /\ UNCHANGED <<wsPeerRelays, peerServers, said, missed, tun, stranded, cut, log>>
  BY DEF Pair, Match, peerVars, msgVars, tunVars
<1>4. /\ peer[s] = NoSock /\ log[s] = NoSock /\ file[s] = "none" /\ ~Tunnelled(s)
      /\ s \notin denied
      /\ \A x \in Sockets : peer[x] # s
      /\ \A u \in Servers, j \in Ids :
            s \notin {wsrelays[u][j].peer1, wsrelays[u][j].peer2}
  BY Apart DEF Arrival
<1>5. /\ q \in Sockets \ {s} /\ q \in users[i] \ lookup /\ home[q] = v /\ peer[q] = NoSock
      /\ id[q] = i /\ ws[q] # "none" /\ ~Tunnelled(q)
      /\ log[q] = NoSock /\ file[q] = "none" /\ q \notin denied
  BY <1>1, <1>2, <1>3, <1>4, Entries DEF WaitingInv, CameInv, FreshInv, DeniedInv
<1> HIDE DEF q
<1>6. /\ id'[s] = i /\ ws'[s] = w /\ s \in here' /\ s \notin lookup' /\ s \in users'[i]
      /\ \A x \in Sockets \ {s} : id'[x] = id[x] /\ ws'[x] = ws[x]
                                   /\ (x \in here' <=> x \in here)
                                   /\ (x \in lookup' <=> x \in lookup)
  BY <1>1, <1>2, <1>3, Types
<1>7. /\ peer'[s] = q /\ peer'[q] = s
      /\ \A x \in Sockets \ {s, q} : peer'[x] = peer[x]
      /\ \A x \in Sockets \ {s} : file'[x] = file[x]
      /\ file'[s] \in {"none", "opening"}
      /\ \A x \in Sockets : Tunnelled(x)' <=> Tunnelled(x)
  BY <1>1, <1>2, <1>3, <1>4, <1>5, Types DEF Tunnelled
<1>8. /\ \A u \in Servers, j \in Ids : ~(u = v /\ j = i) => wsrelays'[u][j] = wsrelays[u][j]
      /\ wsrelays'[v][i] = Paired(q, s) /\ wsrelays' \in RelayTable
  <2> DEFINE R == {None} \cup {Waiting(x) : x \in Sockets}
                         \cup {Paired(p, x) : p, x \in Sockets}
  <2>1. Paired(q, s) \in R /\ wsrelays \in [Servers -> [Ids -> R]]
    BY <1>1, <1>2, <1>5, Table DEF RelayTable
  <2> HIDE DEF R
  <2>2. wsrelays' \in [Servers -> [Ids -> R]]
    BY <1>2, <1>3, <2>1
  <2>3. /\ \A u \in Servers, j \in Ids : ~(u = v /\ j = i) => wsrelays'[u][j] = wsrelays[u][j]
        /\ wsrelays'[v][i] = Paired(q, s)
    BY <1>2, <1>3, <2>1
  <2> QED  BY <2>2, <2>3 DEF RelayTable, R
<1>9. Paired(q, s).state = 2 /\ Paired(q, s).peer1 = q /\ Paired(q, s).peer2 = s
  BY DEF Paired
<1>10. ArrivalEffect(s, i, h)
  BY <1>1, <1>2, <1>3, <1>6, Types DEF ArrivalEffect
<1>11. CameInv' /\ LookupInv' /\ TwoHomes' /\ SaidInv' /\ TunnelInv' /\ ToldInv'
  <2>1. \A u \in Servers, j \in Ids : wsrelays'[u][j].state = 1 => wsrelays'[u][j] = wsrelays[u][j]
    BY <1>8, <1>9
  <2> QED  BY <2>1, <1>3, <1>10, ArrivalKeeps, OthersKeep
<1>t. TypeOK'
  <2>1. peer' \in [Sockets -> Sockets \cup {NoSock}] /\ file' \in [Sockets -> FileStates]
    BY <1>1, <1>2, <1>3, <1>5, Types DEF FileStates
  <2>2. ws' \in [Sockets -> WsStates] /\ id' \in [Sockets -> Ids \cup {NoId}]
    BY <1>10 DEF ArrivalEffect
  <2>4. here' \subseteq Sockets /\ timer' \subseteq Sockets
    BY <1>1, <1>2, <1>3, Types
  <2>5. /\ home' \in [Sockets -> Servers \cup {0}]
        /\ origin' \in [Sockets -> Ends \cup {NoSock}]
        /\ url' \in [Sockets -> Ids \cup {NoId}]
        /\ lookup' \subseteq Routed /\ denied' \subseteq Sockets
        /\ users' \in [Ids -> SUBSET Sockets]
    BY <1>1, ArrivalTypes
  <2>6. /\ wsPeerRelays' \in [Servers -> [Ids -> Servers \cup {0}]]
        /\ said' \subseteq Messages /\ missed' \subseteq Messages
        /\ tun' \in [Tunnels -> {NoTunnel} \cup [from : Sockets, to : Servers, user : BOOLEAN]]
        /\ peerServers' \in [Servers -> SUBSET Servers] /\ stranded' \subseteq Sockets
        /\ cut' \subseteq Tunnels /\ log' \in [Sockets -> Sockets \cup {NoSock}]
    BY <1>1, <1>3 DEF TypeOK
  <2> QED  BY <1>8, <2>1, <2>2, <2>4, <2>5, <2>6, TypedThen
<1>a. WaitingInv'
  <2> SUFFICES ASSUME NEW u \in Servers, NEW j \in Ids, wsrelays'[u][j].state = 1,
                      NEW p, p = wsrelays'[u][j].peer1
               PROVE  /\ p \in users'[j] \ lookup' /\ home'[p] = u /\ peer'[p] = NoSock
                      /\ p \in here' => id'[p] = j /\ ~Tunnelled(p)'
                      /\ id'[p] \in {j, NoId}
                      /\ id'[p] = j \/ p \in denied \/ \E z \in users'[j] \ {p} : home'[z] = u
    BY <1>2 DEF WaitingInv, Tunnelled
  <2>1. ~(u = v /\ j = i) /\ wsrelays'[u][j] = wsrelays[u][j]
    BY <1>8, <1>9
  <2>2. /\ p \in users[j] \ lookup /\ home[p] = u /\ peer[p] = NoSock
        /\ p \in here => id[p] = j /\ ~Tunnelled(p)
        /\ id[p] \in {j, NoId}
        /\ id[p] = j \/ p \in denied \/ \E z \in users[j] \ {p} : home[z] = u
    BY <1>1, <2>1 DEF WaitingInv
  <2>3. p \in Sockets \ {s, q}
    <3>1. p \in Sockets \ {s}
      BY <1>1, <1>4, <2>1, Entries
    <3>2. p # q
      BY <2>1, <2>2, <1>3, <1>5
    <3> QED  BY <3>1, <3>2
  <2>4. ASSUME NEW z \in users[j] \ {p}, home[z] = u
        PROVE  z \in users'[j] \ {p} /\ home'[z] = u
    BY <1>1, <1>2, <2>4 DEF Arrival, CameInv
  <2>5. home'[p] = u /\ p \in users'[j] \ lookup'
    BY <1>2, <2>2, <2>3
  <2> QED  BY <1>6, <1>7, <2>2, <2>3, <2>4, <2>5
<1>b. PairedInv'
  <2> SUFFICES ASSUME NEW u \in Servers, NEW j \in Ids, NEW p, NEW y, wsrelays'[u][j].state = 2,
                      p = wsrelays'[u][j].peer1, y = wsrelays'[u][j].peer2
               PROVE  p # y /\ Side(p, y, u, j)' /\ Side(y, p, u, j)'
    BY DEF PairedInv, Side, Tunnelled
  <2>1. CASE u = v /\ j = i
    <3>1. p = q /\ y = s
      BY <2>1, <1>8, <1>9
    <3>2. q \in (users'[i] \cap here') \ lookup' /\ home'[q] = v /\ id'[q] = i
      BY <1>2, <1>3, <1>5, <1>6
    <3> QED  BY <2>1, <3>1, <3>2, <1>2, <1>4, <1>5, <1>6, <1>7 DEF Side
  <2>2. CASE ~(u = v /\ j = i)
    <3>1. /\ p # y /\ Side(p, y, u, j) /\ Side(y, p, u, j)
          /\ p \in Sockets \ {s} /\ y \in Sockets \ {s}
      BY <2>2, <1>1, <1>4, <1>8, Entries DEF PairedInv
    <3>2. p # q /\ y # q
      BY <3>1, <1>5, Consts DEF Side
    <3>3. ASSUME NEW z \in Sockets \ {s, q}, NEW x, Side(z, x, u, j)  PROVE Side(z, x, u, j)'
      <4>1. /\ (Tunnelled(z)' <=> Tunnelled(z)) /\ peer'[z] = peer[z]
            /\ users[j] \subseteq users'[j] /\ id'[z] = id[z] /\ home'[z] = home[z]
            /\ (z \in here' <=> z \in here) /\ (z \in lookup' <=> z \in lookup)
            /\ denied' = denied
        BY <1>2, <1>6, <1>7
      <4> QED  BY <3>3, <4>1 DEF Side
    <3> QED  BY <3>1, <3>2, <3>3
  <2> QED  BY <2>1, <2>2
<1>c. PeerInv' /\ RecordedInv'
  <2>1. ASSUME NEW x \in Sockets \ {s, q}, peer'[x] # NoSock
        PROVE  /\ peer'[x] = peer[x] /\ peer[x] \in Sockets \ {s} /\ id'[x] = id[x]
               /\ home'[x] = home[x]
               /\ wsrelays'[home[x]][id[x]] = wsrelays[home[x]][id[x]]
    <3>1. peer'[x] = peer[x] /\ home[x] \in Servers /\ id[x] \in Ids /\ peer[x] \in Sockets
          /\ wsrelays[home[x]][id[x]].state = 2
      BY <1>1, <1>7, <2>1, Partners
    <3>2. ~(home[x] = v /\ id[x] = i)
      BY <3>1, <1>3
    <3> QED  BY <1>2, <1>4, <1>6, <1>8, <3>1, <3>2
  <2>2. ASSUME NEW x \in {s, q}
        PROVE  /\ home'[x] = v /\ id'[x] = i /\ peer'[x] \in {s, q} /\ log'[x] = NoSock
               /\ Paired(q, s) \in {Paired(x, peer'[x]), Paired(peer'[x], x)}
               /\ file'[x] # "none" => x = s
    BY <1>2, <1>3, <1>4, <1>5, <1>6, <1>7
  <2>3. PeerInv'
    <3>1. ASSUME NEW x \in Sockets, peer'[x] # NoSock
          PROVE  /\ id'[x] # NoId
                 /\ wsrelays'[home'[x]][id'[x]] \in {Paired(x, peer'[x]), Paired(peer'[x], x)}
      BY <3>1, <1>1, <1>2, <1>8, <2>1, <2>2, Consts DEF PeerInv
    <3>2. \A x \in Sockets : peer[x] # s /\ peer[x] # q
      <4>1. ASSUME NEW x \in Sockets, peer[x] = q  PROVE FALSE
        BY <4>1, <1>1, <1>5, Partners, Consts
      <4> QED  BY <4>1, <1>4
    <3>3. ASSUME NEW x \in Sockets, NEW y \in Sockets, peer'[x] # NoSock, peer'[y] = peer'[x]
          PROVE  y = x
      BY <3>2, <3>3, <1>1, <1>5, <1>7 DEF PeerInv
    <3> QED  BY <3>1, <3>3 DEF PeerInv
  <2>4. RecordedInv'
    <3> SUFFICES ASSUME NEW x \in Sockets, peer'[x] # NoSock
                 PROVE  /\ log'[x] # NoSock =>
                              /\ log'[x] = wsrelays'[home'[x]][id'[x]].peer2
                              /\ file'[log'[x]] = "open"
                        /\ \A y \in {x, peer'[x]} :
                              file'[y] # "none" => wsrelays'[home'[x]][id'[x]].peer2 = y
      BY DEF RecordedInv
    <3>1. CASE x \in {s, q}
      <4>1. wsrelays'[home'[x]][id'[x]].peer2 = s /\ log'[x] = NoSock
        BY <3>1, <2>2, <1>8, <1>9
      <4>2. \A y \in {x, peer'[x]} : y \in {s, q}
        BY <3>1, <2>2
      <4> QED  BY <4>1, <4>2, <2>2
    <3>2. CASE x \notin {s, q}
      <4>1. /\ log[x] # NoSock =>
                  log[x] = wsrelays[home[x]][id[x]].peer2 /\ file[log[x]] = "open"
            /\ \A y \in {x, peer[x]} : file[y] # "none" => wsrelays[home[x]][id[x]].peer2 = y
        BY <3>2, <2>1, <1>1 DEF RecordedInv
      <4>2. /\ wsrelays'[home'[x]][id'[x]] = wsrelays[home[x]][id[x]]
            /\ log' = log /\ peer'[x] = peer[x] /\ peer[x] \in Sockets \ {s}
        BY <3>2, <2>1, <1>3
      <4>3. \A y \in {x, peer[x]} : file'[y] = file[y]
        BY <3>2, <4>2, <1>7
      <4>4. log[x] # NoSock => log[x] \in {x, peer[x]}
        BY <3>2, <2>1, <4>1, <4>2, <1>1, Partners
      <4> QED  BY <4>1, <4>2, <4>3, <4>4
    <3> QED  BY <3>1, <3>2
  <2> QED  BY <2>3, <2>4
<1>d. PlacedInv' /\ OpenInv'
  <2>1. ASSUME NEW x \in {s, q}  PROVE Listed(x)'
    <3>1. home'[s] = v /\ home'[q] = v /\ id'[s] = i /\ id'[q] = i /\ i # NoId
      BY <1>2, <1>5, <1>6, Consts
    <3>2. wsrelays'[v][i].peer1 = q /\ wsrelays'[v][i].peer2 = s
      BY <1>8, <1>9
    <3> QED  BY <2>1, <3>1, <3>2 DEF Listed
  <2>2. ASSUME NEW x \in Sockets \ {s, q}, id[x] # NoId
        PROVE  /\ ~(home[x] = v /\ id[x] = i)
               /\ wsrelays'[home[x]][id[x]] = wsrelays[home[x]][id[x]]
    <3>1. id[x] \in Ids /\ x \in users[id[x]] /\ home[x] \in Servers
      BY <1>1, <2>2, Types, Consts DEF CameInv
    <3>2. ~(home[x] = v /\ id[x] = i)
      <4> SUFFICES ASSUME home[x] = v, id[x] = i  PROVE FALSE
        OBVIOUS
      <4>1. x \in {q, wsrelays[v][i].peer2}
        BY <3>1 DEF Entitled, Listed, q
      <4>2. wsrelays[v][i] = Waiting(q)
        BY <1>1, <1>2, <1>3, Entries DEF q
      <4> QED  BY <4>1, <4>2, <2>2, Consts DEF Waiting
    <3> QED  BY <3>1, <3>2, <1>8
  <2>3. ASSUME NEW x \in Sockets \ {s}, Listed(x)  PROVE Listed(x)'
    <3>1. CASE x = q
      BY <3>1, <2>1
    <3>2. CASE x # q
      <4>1. id[x] # NoId /\ id'[x] = id[x] /\ home'[x] = home[x]
        BY <2>3, <1>2, <1>6 DEF Listed
      <4> QED  BY <4>1, <3>2, <2>2, <2>3 DEF Listed
    <3> QED  BY <3>1, <3>2
  <2>4. PlacedInv'
    <3> SUFFICES ASSUME NEW x \in Sockets, id'[x] # NoId
                 PROVE  \/ Listed(x)'
                        \/ /\ wsrelays'[home'[x]][id'[x]] = None
                           /\ x \in lookup' \cup stranded' \/ Tunnelled(x)'
      BY DEF PlacedInv
    <3>1. CASE x \in {s, q}
      BY <3>1, <2>1
    <3>2. CASE x \notin {s, q}
      <4>1. /\ id'[x] = id[x] /\ home'[x] = home[x] /\ (x \in lookup' <=> x \in lookup)
            /\ Tunnelled(x)' <=> Tunnelled(x)
        BY <3>2, <1>2, <1>6, <1>7
      <4>2. \/ Listed(x)
            \/ /\ wsrelays[home[x]][id[x]] = None
               /\ x \in lookup \cup stranded \/ Tunnelled(x)
        BY <4>1, <1>1 DEF PlacedInv
      <4> QED  BY <3>2, <4>1, <4>2, <1>3, <2>2, <2>3
    <3> QED  BY <3>1, <3>2
  <2>5. OpenInv'
    <3> SUFFICES ASSUME NEW x \in Sockets, ws'[x] = "open"
                 PROVE  x \in lookup' \cup stranded' \/ Listed(x)' \/ Tunnelled(x)'
      BY DEF OpenInv
    <3>1. CASE x = s
      BY <3>1, <2>1
    <3>2. CASE x # s
      <4>1. /\ ws'[x] = ws[x] /\ (x \in lookup' <=> x \in lookup)
            /\ Tunnelled(x)' <=> Tunnelled(x)
        BY <3>2, <1>6, <1>7
      <4> QED  BY <3>2, <4>1, <1>1, <1>3, <2>3 DEF OpenInv
    <3> QED  BY <3>1, <3>2
  <2> QED  BY <2>4, <2>5
<1>e. FreshInv' /\ RecordingEndsOnce' /\ MeetingUnderWay'
  <2>1. FreshInv'
    <3> SUFFICES ASSUME NEW x \in Sockets, log'[x] # NoSock \/ file'[x] # "none"
                 PROVE  ws'[x] # "none" /\ x \notin lookup' /\ (x \in here' => peer'[x] # NoSock)
      BY DEF FreshInv
    <3>1. CASE x = s
      BY <3>1, <1>2, <1>5, <1>6, <1>7, Consts
    <3>2. CASE x # s
      <4>1. log[x] # NoSock \/ file[x] # "none"
        BY <3>2, <1>3, <1>7
      <4>2. /\ ws'[x] # "none" /\ x \notin lookup' /\ x # q
            /\ x \in here' => peer[x] # NoSock
        BY <3>2, <4>1, <1>1, <1>5, <1>6 DEF FreshInv
      <4> QED  BY <3>2, <4>2, <1>7
    <3> QED  BY <3>1, <3>2
  <2>2. RecordingEndsOnce'
    <3>1. /\ \A x \in Sockets : file'[x] # "twice" /\ (file'[x] = "open" => x # s)
          /\ \A x \in Sockets \ {s} : file'[x] = file[x]
      BY <1>1, <1>7 DEF RecordingEndsOnce
    <3>2. \A u \in Servers, j \in Ids :
             wsrelays[u][j].state = 2 => wsrelays'[u][j] = wsrelays[u][j]
      BY <1>3, <1>8
    <3>3. \A x \in Sockets : peer[x] # NoSock => x # s /\ id'[x] = id[x]
      BY <1>4, <1>6
    <3> QED  BY <1>2, <1>3, <3>1, <3>2, <3>3, EndsStay
  <2>3. MeetingUnderWay'
    <3> SUFFICES ASSUME NEW u \in Servers, NEW y \in Servers, NEW j \in Ids, u < y,
                        wsrelays'[u][j].state = 1, wsrelays'[y][j].state = 1,
                        wsrelays'[u][j].peer1 \in here', wsrelays'[y][j].peer1 \notin denied
                 PROVE  [from |-> y, to |-> u, id |-> j] \in said \cup missed
      BY <1>2, <1>3 DEF MeetingUnderWay
    <3>1. wsrelays'[y][j] = wsrelays[y][j] /\ wsrelays'[u][j] = wsrelays[u][j]
      BY <1>8, <1>9
    <3>2. wsrelays[u][j].peer1 \in here
      BY <3>1, <1>1, <1>4, <1>6, Entries
    <3> QED  BY <3>1, <3>2, <1>1 DEF MeetingUnderWay
  <2> QED  BY <2>1, <2>2, <2>3
<1>k. StrandedInv'
  <2>1. s \notin stranded'
    BY <1>3 DEF IInv, StrandedInv, Arrival
  <2> QED  BY <1>3, <1>10, <2>1, StrandedKeep
<1>j. DeniedInv'
  BY <1>1, <1>2, <1>3, <1>4, <1>5, <1>6, <1>7, Types DEF DeniedInv
<1> QED  BY <1>t, <1>11, <1>j, <1>k, <1>a, <1>b, <1>c, <1>d, <1>e DEF IInv

-----------------------------------------------------------------------------
\* The tunnel of a connection that came with an id goes to the only other end
\* that used the id.
LEMMA TunnelMeets ==
    ASSUME IInv, NEW t \in Tunnels, tun[t] # NoTunnel, url[tun[t].from] # NoId
    PROVE  \E y \in Ends \ lookup :
               /\ home[y] = tun[t].to /\ home[tun[t].from] < home[y]
               /\ url[tun[t].from] \in Ids
               /\ users[url[tun[t].from]] \cap Ends = {tun[t].from, y}
<1>1. TypeOK /\ TunnelInv /\ TwoHomes
  BY DEF IInv
<1> DEFINE f == tun[t].from
           i == url[f]
<1>2. /\ f \in Ends \ lookup /\ f \in users[i] /\ Held(tun[t].to, i)
      /\ home[f] < tun[t].to /\ f \in Sockets /\ tun[t].to \in Servers
  <2>1. tun[t] \in [from : Sockets, to : Servers, user : BOOLEAN]
    BY <1>1 DEF TypeOK
  <2>2. /\ f \in Ends \ lookup /\ f \in users[i] /\ Held(tun[t].to, i)
        /\ home[f] < tun[t].to
    BY <1>1 DEF TunnelInv
  <2> QED  BY <2>1, <2>2
<1>3. i \in Ids /\ home[f] \in Nat /\ tun[t].to \in Nat
  BY <1>1, <1>2, Consts DEF TypeOK
<1>4. PICK y \in (users[i] \cap Ends) \ lookup : home[y] = tun[t].to
  BY <1>2 DEF Held
<1> HIDE DEF f, i
<1>5. users[i] \cap Ends = {f, y}
  BY <1>1, <1>2, <1>3, <1>4 DEF TwoHomes
<1> QED  BY <1>2, <1>3, <1>4, <1>5 DEF f, i

\* What comes without routing instructions may use its id.
LEMMA ComesArrives ==
    ASSUME ~Reuse, IInv, NEW s \in Ends, NEW v \in Servers, NEW i \in Ids, Comes(s, v, i)
    PROVE  Arrival(s, s, v, i, "open", TRUE) /\ Entitled(s, v, i, TRUE)
<1>1. TypeOK /\ CameInv /\ DeniedInv /\ WaitingInv /\ TwoHomes /\ ToldInv
  BY DEF IInv
<1>2. /\ ws[s] = "none" /\ s \notin Routed /\ s \in Sockets /\ i # NoId
      /\ home' = [home EXCEPT ![s] = v] /\ origin' = [origin EXCEPT ![s] = s]
      /\ url' = [url EXCEPT ![s] = i] /\ lookup' = lookup /\ denied' = denied
      /\ users' = [j \in Ids |-> IF j = i THEN users[j] \cup {s} ELSE users[j]]
  BY Consts DEF Comes, Accepted, askVars
<1>3. \A x \in users[i] : /\ home[x] = v /\ id[x] = i => Listed(x)
                          /\ home[x] # v => users[i] = {x}
  BY <1>2 DEF Comes, Welcome
<1>4. users' = [users EXCEPT ![i] = @ \cup {s}] /\ s \notin lookup /\ "open" \in WsStates
  <2>1. users \in [Ids -> SUBSET Sockets] /\ lookup \subseteq Routed
    BY <1>1 DEF TypeOK
  <2>2. users' = [users EXCEPT ![i] = @ \cup {s}]
    BY <1>2, <2>1
  <2> QED  BY <1>2, <2>1, <2>2 DEF WsStates
<1>5. Arrival(s, s, v, i, "open", TRUE)
  <2>1. /\ home' \in [Sockets -> Servers \cup {0}]
        /\ origin' \in [Sockets -> Ends \cup {NoSock}]
        /\ url' \in [Sockets -> Ids \cup {NoId}]
        /\ \A x \in Sockets \ {s} :
              home'[x] = home[x] /\ origin'[x] = origin[x] /\ url'[x] = url[x]
        /\ home'[s] = v /\ origin'[s] = s
    BY <1>1, <1>2 DEF TypeOK
  <2>2. lookup' = lookup \ {s}
    BY <1>2, <1>4
  <2> QED  BY <1>2, <1>4, <2>1, <2>2 DEF Arrival
<1>6. ASSUME NEW x \in lookup, id[x] = i  PROVE home[x] # v
  <2>1. x \in users[i] /\ x \in Sockets /\ ~Listed(x)
    BY <1>1, <1>2, <1>6, Apart, Types DEF CameInv
  <2> QED  BY <2>1, <1>3, <1>6
<1>7. ASSUME NEW w \in Servers, v < w, wsrelays[w][i].state = 1
      PROVE  \/ [from |-> w, to |-> v, id |-> i] \in said \cup missed
             \/ wsPeerRelays[v][i] = w \/ wsrelays[w][i].peer1 \in denied
  <2> DEFINE p == wsrelays[w][i].peer1
  <2>1. p \in users[i] /\ home[p] = w /\ w # v
    BY <1>1, <1>7, Consts DEF WaitingInv
  <2>2. users[i] = {p}
    BY <1>3, <2>1
  <2> QED  BY <1>1, <1>7, <2>2 DEF ToldInv
<1>8. TwoHomes'
  <2> SUFFICES ASSUME NEW j \in Ids, NEW x \in users'[j] \cap Ends, NEW y \in users'[j] \cap Ends,
                      home'[x] # home'[y]
               PROVE  users'[j] \cap Ends = {x, y}
    BY DEF TwoHomes
  <2>1. users \in [Ids -> SUBSET Sockets] /\ home \in [Sockets -> Servers \cup {0}]
    BY <1>1 DEF TypeOK
  <2>2. \A k \in Ids : s \notin users[k]
    BY <1>1, <1>2 DEF CameInv
  <2>3. CASE j # i
    <3>1. users'[j] = users[j] /\ home'[x] = home[x] /\ home'[y] = home[y]
      BY <2>1, <2>2, <2>3, <1>2, Consts
    <3> QED  BY <3>1, <1>1 DEF TwoHomes
  <2>4. CASE j = i
    <3>1. users'[i] = users[i] \cup {s}
      BY <1>2
    <3>2. \A z \in users[i] : home'[z] = home[z] /\ z # s
      BY <1>2, <2>1, <2>2
    <3>3. home'[s] = v
      BY <1>2, <2>1
    <3> QED  BY <2>4, <3>1, <3>2, <3>3, <1>3
  <2> QED  BY <2>3, <2>4
<1>9. s \notin Tunnels /\ url'[s] = i
  BY <1>1, <1>2, Consts DEF TypeOK
<1>10. Entitled(s, v, i, TRUE)
  BY <1>3, <1>6, <1>7, <1>8, <1>9 DEF Entitled
<1> QED  BY <1>5, <1>10

\* What waited for the database may use its id, or the one made up for it.
LEMMA RoutedArrives ==
    ASSUME IInv, NEW s \in Ends, NEW i \in Ids, s \in lookup,
           IF id[s] = NoId THEN users[i] = {} ELSE i = id[s],
           lookup' = lookup \ {s}, denied' = denied, users' = [users EXCEPT ![i] = @ \cup {s}],
           UNCHANGED sockVars
    PROVE  /\ Arrival(s, s, home[s], i, ws[s], s \in here)
           /\ Entitled(s, home[s], i, s \in here)
<1>1. TypeOK /\ CameInv /\ LookupInv /\ WaitingInv /\ TwoHomes /\ ToldInv /\ TunnelInv /\ SaidInv
  BY DEF IInv
<1>2. home' = home /\ origin' = origin /\ url' = url
  BY DEF sockVars
<1>3. /\ s \in Sockets /\ home[s] \in Servers /\ ws[s] \in WsStates \ {"none"}
      /\ origin[s] = s /\ s \notin Tunnels /\ i # NoId
  BY <1>1, Types, Consts DEF CameInv
<1>4. Arrival(s, s, home[s], i, ws[s], s \in here)
  BY <1>1, <1>2, <1>3 DEF Arrival, TypeOK
<1>5. users \in [Ids -> SUBSET Sockets]
  BY <1>1 DEF TypeOK
<1>6. CASE id[s] # NoId
  <2>1. i = id[s] /\ s \in users[i] /\ url[s] = i
        /\ \A x \in users[i] : home[x] = home[s] => x = s
    BY <1>1, <1>3, <1>6 DEF CameInv, LookupInv
  <2>2. users' = users
    BY <1>5, <2>1
  <2>3. users[i] \subseteq Ends
    <3> SUFFICES ASSUME NEW t \in users[i], t \notin Ends  PROVE FALSE
      OBVIOUS
    <3>1. t \in Tunnels /\ tun[t] # NoTunnel /\ url[tun[t].from] = i
      BY <1>1, <1>5, Consts DEF TunnelInv
    <3>2. PICK y \in Ends \ lookup : users[i] \cap Ends = {tun[t].from, y}
      BY <3>1, <1>3, TunnelMeets
    <3>3. tun[t].from \notin lookup
      BY <3>1, <1>1 DEF TunnelInv
    <3> QED  BY <3>2, <3>3, <2>1
  <2>4. ASSUME NEW x \in lookup \ {s}, id[x] = i  PROVE home[x] # home[s]
    BY <2>1, <2>4, <1>1, <1>3, Types DEF CameInv
  <2>5. ASSUME NEW w \in Servers, home[s] < w, wsrelays[w][i].state = 1
        PROVE  \/ [from |-> w, to |-> home[s], id |-> i] \in said \cup missed
               \/ wsPeerRelays[home[s]][i] = w \/ wsrelays[w][i].peer1 \in denied
    <3> DEFINE p == wsrelays[w][i].peer1
    <3>1. p \in users[i] /\ home[p] = w /\ w # home[s]
      BY <1>1, <1>3, <2>5, Consts DEF WaitingInv
    <3>2. users[i] = {p, s}
      BY <1>1, <2>1, <2>3, <3>1 DEF TwoHomes
    <3> QED  BY <1>1, <1>3, <2>5, <3>2 DEF ToldInv
  <2>6. TwoHomes'
    BY <1>1, <1>2, <2>2 DEF TwoHomes
  <2> QED  BY <1>2, <1>3, <1>4, <2>1, <2>4, <2>5, <2>6 DEF Entitled
<1>7. CASE id[s] = NoId
  <2>1. users[i] = {}
    BY <1>7
  <2>2. \A x \in lookup \ {s} : id[x] # i
    BY <1>1, <1>3, <2>1, Types DEF CameInv
  <2>3. \A w \in Servers : wsrelays[w][i].state # 1
    BY <1>1, <2>1 DEF WaitingInv
  <2>4. wsPeerRelays[home[s]][i] = 0
    BY <1>1, <1>3, <2>1 DEF SaidInv, Held
  <2>5. s \in here => url'[s] = NoId
    BY <1>1, <1>2, <1>7 DEF CameInv
  <2>6. TwoHomes'
    <3>1. users'[i] = {s} /\ \A j \in Ids \ {i} : users'[j] = users[j]
      BY <1>5, <2>1
    <3> QED  BY <1>1, <1>2, <3>1 DEF TwoHomes
  <2>7. ~(wsPeerRelays[home[s]][i] > home[s])
    BY <2>4, <1>3, Consts
  <2> QED  BY <1>3, <1>4, <2>1, <2>2, <2>3, <2>5, <2>6, <2>7 DEF Entitled
<1> QED  BY <1>6, <1>7

\* What comes through a tunnel, with the id that its end came with, may use it.
LEMMA TunnelArrives ==
    ASSUME IInv, NEW t \in Tunnels, TunnelComes(t), url[tun[t].from] # NoId
    PROVE  LET f == tun[t].from IN
           /\ Arrival(t, origin[f], tun[t].to, url[f], "open", TRUE)
           /\ Entitled(t, tun[t].to, url[f], TRUE)
<1>1. /\ TypeOK /\ CameInv /\ DeniedInv /\ WaitingInv /\ TwoHomes /\ PlacedInv /\ TunnelInv
      /\ SaidInv /\ StrandedInv
  BY DEF IInv
<1> DEFINE f == tun[t].from
           v == tun[t].to
           i == url[f]
<1>2. tun[t] # NoTunnel /\ Accepted(t, origin[f], v, i) /\ UNCHANGED <<lookup, denied>>
  BY DEF TunnelComes, askVars
<1>3. /\ f \in Ends \ lookup /\ ws[f] # "none" /\ home[f] < v /\ v \in Servers
      /\ t \in Sockets /\ t \notin Ends /\ f \in Sockets
  <2>1. tun[t] \in [from : Sockets, to : Servers, user : BOOLEAN]
    BY <1>1, <1>2 DEF TypeOK
  <2>2. f \in Ends \ lookup /\ ws[f] # "none" /\ home[f] < v
    BY <1>1, <1>2 DEF TunnelInv
  <2> QED  BY <2>1, <2>2, Consts
<1>4. PICK y \in Ends \ lookup : /\ home[y] = v /\ home[f] < v /\ i \in Ids
                                 /\ users[i] \cap Ends = {f, y}
  BY <1>2, TunnelMeets
<1>5. origin[f] = f
  BY <1>1, <1>3 DEF CameInv
<1> HIDE DEF f, v, i
<1>6. /\ ws[t] = "none"
      /\ home' = [home EXCEPT ![t] = v] /\ origin' = [origin EXCEPT ![t] = f]
      /\ url' = [url EXCEPT ![t] = i]
      /\ users' = [j \in Ids |-> IF j = i THEN users[j] \cup {t} ELSE users[j]]
  BY <1>2, <1>5 DEF Accepted
<1>7. users' = [users EXCEPT ![i] = @ \cup {t}] /\ t \notin lookup /\ "open" \in WsStates
  <2>0. lookup \subseteq Ends
    BY <1>1, Types
  <2>1. users \in [Ids -> SUBSET Sockets]
    BY <1>1 DEF TypeOK
  <2>2. users' = [users EXCEPT ![i] = @ \cup {t}]
    BY <1>6, <2>1, <1>4
  <2> QED  BY <1>3, <2>0, <2>2 DEF WsStates
<1>8. Arrival(t, f, v, i, "open", TRUE)
  <2>1. /\ home' \in [Sockets -> Servers \cup {0}]
        /\ origin' \in [Sockets -> Ends \cup {NoSock}]
        /\ url' \in [Sockets -> Ids \cup {NoId}]
        /\ \A x \in Sockets \ {t} :
              home'[x] = home[x] /\ origin'[x] = origin[x] /\ url'[x] = url[x]
        /\ home'[t] = v /\ origin'[t] = f
    BY <1>1, <1>3, <1>4, <1>6 DEF TypeOK
  <2>2. lookup' = lookup \ {t}
    BY <1>2, <1>7
  <2> QED  BY <1>2, <1>3, <1>4, <1>6, <1>7, <2>1, <2>2 DEF Arrival, WsStates
\* No end beyond v used the id.
<1>9. ASSUME NEW w \in Servers, Held(w, i)  PROVE ~(v < w)
  BY <1>3, <1>4, <1>9, Consts DEF Held
<1>10. ASSUME NEW x \in users[i] \ {t}, home[x] = v, id[x] = i  PROVE Listed(x)
  <2>1. x \in Sockets
    BY <1>1, <1>4 DEF TypeOK
  <2>2. CASE x \in Tunnels
    <3>1. x \notin Ends
      BY <2>2, Consts
    <3>2. ~Tunnelled(x) /\ x \notin lookup \cup stranded
      BY <2>1, <2>2, <3>1, <1>1, Consts, Types DEF Tunnelled, TunnelInv, NoTunnel, StrandedInv
    <3> QED  BY <2>1, <3>2, <1>1, <1>4, <1>10, Consts DEF PlacedInv
  <2>3. CASE x \in Ends
    <3>1. x = y
      BY <2>3, <1>3, <1>4, <1>10, Consts
    <3>2. ~Tunnelled(x)
      <4> SUFFICES ASSUME NEW k \in Tunnels, tun[k].from = x  PROVE FALSE
        BY DEF Tunnelled
      <4>1. tun[k] # NoTunnel
        BY <2>1, Consts DEF NoTunnel
      <4>2. tun[k].to \in Servers /\ home[x] < tun[k].to /\ Held(tun[k].to, id[x])
        BY <4>1, <1>1, <1>4, <1>10, Consts DEF TunnelInv, TypeOK
      <4> QED  BY <4>2, <1>9, <1>10
    <3>3. x \notin stranded
      BY <2>1, <1>1, <1>4, <1>9, <1>10, Consts DEF StrandedInv
    <3> QED  BY <2>1, <3>1, <3>2, <3>3, <1>1, <1>4, <1>10, Consts DEF PlacedInv
  <2> QED  BY <2>1, <2>2, <2>3, Consts
<1>11. ASSUME NEW x \in lookup, id[x] = i  PROVE FALSE
  <2>1. x \in users[i] \cap Ends
    BY <1>1, <1>4, <1>11, Types, Consts DEF CameInv
  <2> QED  BY <2>1, <1>3, <1>4
<1>12. ASSUME NEW w \in Servers, v < w  PROVE wsrelays[w][i].state # 1
  <2> SUFFICES ASSUME wsrelays[w][i].state = 1  PROVE FALSE
    OBVIOUS
  <2> DEFINE p == wsrelays[w][i].peer1
  <2>1. p \in users[i] \ lookup /\ home[p] = w /\ p \in Sockets
    BY <1>1, <1>4, Entries DEF WaitingInv
  <2> HIDE DEF p
  <2>2. CASE p \in Ends
    BY <2>1, <2>2, <1>4, <1>9, <1>12 DEF Held
  <2>3. CASE p \in Tunnels
    <3>1. tun[p] # NoTunnel /\ url[tun[p].from] = i /\ ws[p] # "none"
      BY <2>1, <2>3, <1>1, <1>4 DEF TunnelInv, CameInv
    <3>2. tun[p].to = w /\ Held(w, i)
      BY <2>1, <2>3, <3>1, <1>1, <1>4, Consts DEF TunnelInv
    <3> QED  BY <3>2, <1>9, <1>12
  <2> QED  BY <2>1, <2>2, <2>3, Consts
<1>13. wsPeerRelays[v][i] <= v
  <2>1. wsPeerRelays[v][i] \in Servers \cup {0} /\ v \in Nat
    BY <1>1, <1>3, <1>4, Consts DEF TypeOK
  <2>2. wsPeerRelays[v][i] # 0 => ~(v < wsPeerRelays[v][i])
    BY <2>1, <1>1, <1>3, <1>4, <1>9 DEF SaidInv
  <2> QED  BY <2>1, <2>2, Consts
<1>14. TwoHomes'
  <2>1. \A j \in Ids : users'[j] \cap Ends = users[j] \cap Ends
    BY <1>3, <1>6
  <2>2. \A x \in Ends : home'[x] = home[x]
    BY <1>1, <1>3, <1>6, Consts DEF TypeOK
  <2> QED  BY <1>1, <2>1, <2>2 DEF TwoHomes
<1>15. url'[t] = i
  BY <1>1, <1>3, <1>4, <1>6 DEF TypeOK
<1>16. tun[t].to = v /\ url[tun[t].from] = i
  BY DEF f, v, i
<1>17. Entitled(t, v, i, TRUE)
  BY <1>2, <1>6, <1>10, <1>11, <1>12, <1>13, <1>14, <1>15, <1>16 DEF Entitled
<1> QED  BY <1>5, <1>8, <1>17 DEF f, v, i

\* Whatever performRelay decides on a connection that may use its id.
LEMMA PerformKeeps ==
    ASSUME IInv, NEW s, NEW o, NEW v, NEW i, NEW w, NEW h, Arrival(s, o, v, i, w, h),
           Entitled(s, v, i, h), PerformRelay(s, o, v, i, w, h)
    PROVE  IInv'
<1>1. i # NoId
  BY Consts DEF Arrival
<1>2. \/ Hold(s, v, i, w, h) \/ TurnedAway(s, w)
      \/ BothLost(s, o, v, i, w, h) \/ Pair(s, o, v, i, w, h)
  BY <1>1 DEF PerformRelay, Refuse
<1> QED  BY <1>2, HoldKeeps, RefuseKeeps, BothLostKeeps, PairKeeps

-----------------------------------------------------------------------------
\* s is turned away without the relay having seen its id: what waited for the
\* database, or a tunnel that brings no id.
LEMMA DropKeeps ==
    ASSUME IInv, NEW s \in Sockets, NEW w \in WsStates \ {"none"},
           ws[s] = "none" \/ s \in lookup, TurnedAway(s, w),
           lookup' = lookup \ {s}, denied' = denied, users' = users,
           home' \in [Sockets -> Servers \cup {0}],
           origin' \in [Sockets -> Ends \cup {NoSock}],
           url' \in [Sockets -> Ids \cup {NoId}],
           \A x \in Sockets \ {s} :
              home'[x] = home[x] /\ origin'[x] = origin[x] /\ url'[x] = url[x],
           home'[s] \in Servers, origin'[s] \in Ends, s \in Ends => origin'[s] = s,
           s \in lookup => home'[s] = home[s],
           s \in Tunnels => ws[s] = "none" /\ tun[s] # NoTunnel /\ home'[s] = tun[s].to
    PROVE  IInv'
<1>1. /\ TypeOK /\ CameInv /\ LookupInv /\ DeniedInv /\ StrandedInv /\ WaitingInv /\ PairedInv /\ PeerInv /\ PlacedInv
      /\ TwoHomes /\ SaidInv /\ TunnelInv /\ ToldInv /\ FreshInv /\ RecordedInv
      /\ OpenInv /\ MeetingUnderWay /\ RecordingEndsOnce
      /\ users \in [Ids -> SUBSET Sockets]
  <2>1. TypeOK
    BY DEF IInv
  <2>2. users \in [Ids -> SUBSET Sockets]
    BY <2>1 DEF TypeOK
  <2> QED  BY <2>2 DEF IInv
<1>2. /\ ws' = [ws EXCEPT ![s] = Shut(w)] /\ id' = [id EXCEPT ![s] = NoId]
      /\ here' = here \ {s}
      /\ UNCHANGED <<denied, peer, timer, wsrelays, wsPeerRelays, peerServers, said,
                     missed, tun, stranded, cut, log, file>>
  BY DEF TurnedAway, peerVars, msgVars, tunVars, recVars
<1>3. Shut(w) \in WsStates \ {"none", "open"}
  BY DEF Shut, WsStates
<1>4. /\ peer[s] = NoSock /\ log[s] = NoSock /\ file[s] = "none" /\ s \notin denied
      /\ \A x \in Sockets : peer[x] # s
      /\ \A t \in Tunnels : tun[t] # NoTunnel => tun[t].from # s
      /\ \A u \in Servers, j \in Ids :
            s \notin {wsrelays[u][j].peer1, wsrelays[u][j].peer2}
  BY Apart
<1>5. /\ id'[s] = NoId /\ ws'[s] = Shut(w) /\ s \notin here' /\ s \notin lookup'
      /\ \A x \in Sockets \ {s} : /\ id'[x] = id[x] /\ ws'[x] = ws[x]
                                  /\ x \in here' <=> x \in here
                                  /\ x \in lookup' <=> x \in lookup
  BY <1>1, <1>2, Types
<1>6. ASSUME NEW j \in Ids, NEW x \in users[j]
      PROVE  x \in Sockets /\ home'[x] = home[x] /\ (x = s => s \in lookup)
  BY <1>1, <1>6 DEF CameInv
<1>t. TypeOK'
  <2>1. /\ ws' \in [Sockets -> WsStates] /\ id' \in [Sockets -> Ids \cup {NoId}]
        /\ here' \subseteq Sockets /\ lookup' \subseteq Routed
        /\ users' \in [Ids -> SUBSET Sockets]
    BY <1>1, <1>2, <1>3 DEF TypeOK
  <2>2. /\ timer' \subseteq Sockets /\ peer' \in [Sockets -> Sockets \cup {NoSock}]
        /\ wsrelays' \in RelayTable
        /\ wsPeerRelays' \in [Servers -> [Ids -> Servers \cup {0}]]
        /\ peerServers' \in [Servers -> SUBSET Servers] /\ denied' \subseteq Sockets
        /\ said' \subseteq Messages /\ missed' \subseteq Messages
        /\ tun' \in [Tunnels -> {NoTunnel} \cup [from : Sockets, to : Servers, user : BOOLEAN]]
        /\ stranded' \subseteq Sockets /\ cut' \subseteq Tunnels /\ log' \in [Sockets -> Sockets \cup {NoSock}]
        /\ file' \in [Sockets -> FileStates]
    <3>1. TypeOK
      BY <1>1
    <3> QED  BY <1>2, <3>1 DEF TypeOK, RelayTable
  <2> QED  BY <2>1, <2>2, TypedThen
<1>a. CameInv'
  <2>1. \A x \in Sockets : ws'[x] # "none" =>
           home'[x] \in Servers /\ origin'[x] \in Ends /\ (x \in Ends => origin'[x] = x)
    BY <1>1, <1>5 DEF CameInv
  <2>2. \A x \in here' \cup lookup' \cup timer' : ws'[x] # "none"
    BY <1>1, <1>2, <1>3, <1>5, Types DEF CameInv
  <2>3. \A j \in Ids : \A x \in users'[j] : ws'[x] # "none"
    BY <1>1, <1>3, <1>5, <1>6 DEF CameInv
  <2>4. \A x \in Sockets : id'[x] # NoId => x \in users'[id'[x]]
    BY <1>1, <1>5 DEF CameInv
  <2>5. \A x \in here' : url'[x] \in {id'[x], NoId}
    BY <1>1, <1>2, <1>5, Types DEF CameInv
  <2> QED  BY <2>1, <2>2, <2>3, <2>4, <2>5 DEF CameInv
<1>b. LookupInv' /\ TwoHomes'
  <2>1. LookupInv'
    <3> SUFFICES ASSUME NEW x \in lookup', id'[x] # NoId
                 PROVE  /\ url'[x] = id'[x]
                        /\ \A y \in users'[id'[x]] : home'[y] = home'[x] => y = x
      BY DEF LookupInv
    <3>1. x \in lookup /\ x \in Sockets \ {s} /\ id'[x] = id[x] /\ id[x] \in Ids
      BY <1>1, <1>5, Types
    <3>2. /\ url[x] = id[x] /\ url'[x] = url[x] /\ home'[x] = home[x]
          /\ \A y \in users[id[x]] : home[y] = home[x] => y = x
      BY <3>1, <1>1 DEF LookupInv
    <3> QED  BY <3>1, <3>2, <1>6
  <2>2. TwoHomes'
    BY <1>1, <1>6 DEF TwoHomes
  <2> QED  BY <2>1, <2>2
<1>c. WaitingInv'
  <2> SUFFICES ASSUME NEW u \in Servers, NEW j \in Ids, wsrelays'[u][j].state = 1,
                      NEW p, p = wsrelays'[u][j].peer1
               PROVE  /\ p \in users'[j] \ lookup' /\ home'[p] = u /\ peer'[p] = NoSock
                      /\ p \in here' => id'[p] = j /\ ~Tunnelled(p)'
                      /\ id'[p] \in {j, NoId}
                      /\ id'[p] = j \/ p \in denied \/ \E z \in users'[j] \ {p} : home'[z] = u
    BY DEF WaitingInv, Tunnelled
  <2>1. /\ p \in users[j] \ lookup /\ home[p] = u /\ peer[p] = NoSock
        /\ p \in here => id[p] = j /\ ~Tunnelled(p)
        /\ id[p] \in {j, NoId}
        /\ id[p] = j \/ p \in denied \/ \E z \in users[j] \ {p} : home[z] = u
    BY <1>1, <1>2 DEF WaitingInv
  <2>2. p \in Sockets \ {s}
    BY <1>1, <1>2, <1>4, Entries
  <2>3. Tunnelled(p)' <=> Tunnelled(p)
    BY <1>2 DEF Tunnelled
  <2> QED  BY <1>2, <1>5, <1>6, <2>1, <2>2, <2>3
<1>d. PairedInv'
  <2> SUFFICES ASSUME NEW u \in Servers, NEW j \in Ids, NEW p, NEW y, wsrelays'[u][j].state = 2,
                      p = wsrelays'[u][j].peer1, y = wsrelays'[u][j].peer2
               PROVE  p # y /\ Side(p, y, u, j)' /\ Side(y, p, u, j)'
    BY DEF PairedInv, Side, Tunnelled
  <2>1. p # y /\ Side(p, y, u, j) /\ Side(y, p, u, j) /\ p \in Sockets \ {s} /\ y \in Sockets \ {s}
    BY <1>1, <1>2, <1>4, Entries DEF PairedInv
  <2>2. ASSUME NEW z \in Sockets \ {s}, NEW x, Side(z, x, u, j)  PROVE Side(z, x, u, j)'
    BY <1>2, <1>5, <2>2 DEF Side, Tunnelled
  <2> QED  BY <2>1, <2>2
<1>e. PeerInv' /\ RecordedInv'
  <2>1. \A x \in Sockets : peer[x] # NoSock => x # s /\ home'[x] = home[x]
    BY <1>4
  <2> QED  BY <1>1, <1>2, <1>5, <2>1 DEF PeerInv, RecordedInv
<1>f. PlacedInv' /\ OpenInv'
  <2>1. ASSUME NEW x \in Sockets \ {s}
        PROVE  /\ Listed(x)' <=> Listed(x)
               /\ Tunnelled(x)' <=> Tunnelled(x)
               /\ home'[x] = home[x] /\ id'[x] = id[x] /\ ws'[x] = ws[x]
               /\ x \in lookup' <=> x \in lookup
               /\ x \in stranded' <=> x \in stranded
    BY <1>2, <1>5 DEF Listed, Tunnelled
  <2>2. PlacedInv'
    BY <1>1, <1>2, <1>5, <2>1 DEF PlacedInv
  <2>3. OpenInv'
    BY <1>1, <1>3, <1>5, <2>1 DEF OpenInv
  <2> QED  BY <2>2, <2>3
<1>g. SaidInv' /\ TunnelInv'
  <2>1. \A u \in Servers, j \in Ids : Held(u, j) => HeldThen(u, j)
    BY <1>1, <1>6 DEF Held, HeldThen
  <2>2. SaidInv'
    <3>1. /\ \A u \in Servers : u \notin peerServers[u]
          /\ \A m \in said :
                m.from # m.to /\ HeldThen(m.from, m.id) /\ m.from \in peerServers[m.to]
          /\ \A u \in Servers, j \in Ids : wsPeerRelays[u][j] # 0 =>
                wsPeerRelays[u][j] # u /\ HeldThen(wsPeerRelays[u][j], j)
      <4>1. /\ \A m \in said : m.from \in Servers /\ m.id \in Ids /\ m.to \in Servers
            /\ \A u \in Servers, j \in Ids : wsPeerRelays[u][j] \in Servers \cup {0}
        BY <1>1 DEF TypeOK, Messages
      <4> QED  BY <1>1, <2>1, <4>1 DEF SaidInv
    <3> QED  BY <1>2, <3>1 DEF SaidInv, Held, HeldThen
  <2>3. ASSUME NEW t \in Tunnels, tun[t] # NoTunnel
        PROVE  /\ tun[t].from \in Ends \ lookup' /\ ws'[tun[t].from] # "none"
               /\ home'[tun[t].from] < tun[t].to
               /\ ws'[t] # "none" => home'[t] = tun[t].to
               /\ url'[tun[t].from] # NoId =>
                     /\ tun[t].from \in users'[url'[tun[t].from]]
                     /\ HeldThen(tun[t].to, url'[tun[t].from])
               /\ id'[tun[t].from] # NoId => HeldThen(tun[t].to, id'[tun[t].from])
    <3>1. /\ tun[t].from \in Ends \ lookup /\ ws[tun[t].from] # "none"
          /\ home[tun[t].from] < tun[t].to
          /\ ws[t] # "none" => home[t] = tun[t].to
          /\ url[tun[t].from] # NoId =>
                /\ tun[t].from \in users[url[tun[t].from]]
                /\ Held(tun[t].to, url[tun[t].from])
          /\ id[tun[t].from] # NoId => Held(tun[t].to, id[tun[t].from])
      BY <1>1, <2>3 DEF TunnelInv
    <3>2. /\ tun[t].to \in Servers /\ tun[t].from \in Sockets \ {s} /\ t \in Sockets
          /\ url[tun[t].from] \in Ids \cup {NoId} /\ id[tun[t].from] \in Ids \cup {NoId}
      BY <1>1, <1>4, <2>3, Consts DEF TypeOK
    <3>3. url'[tun[t].from] = url[tun[t].from] /\ home'[tun[t].from] = home[tun[t].from]
          /\ id'[tun[t].from] = id[tun[t].from] /\ ws'[tun[t].from] = ws[tun[t].from]
      BY <1>5, <3>2
    <3>4. ws'[t] # "none" => home'[t] = tun[t].to
      BY <1>5, <3>1, <3>2
    <3> QED  BY <2>1, <3>1, <3>2, <3>3, <3>4
  <2>4. \A t \in Tunnels : ws'[t] # "none" => tun[t] # NoTunnel
    BY <1>1, <1>5, Consts DEF TunnelInv
  <2>5. \A j \in Ids : \A t \in users[j] \cap Tunnels :
           tun[t] # NoTunnel /\ url'[tun[t].from] = j
    <3> SUFFICES ASSUME NEW j \in Ids, NEW t \in users[j] \cap Tunnels
                 PROVE  tun[t] # NoTunnel /\ url'[tun[t].from] = j
      OBVIOUS
    <3>1. tun[t] # NoTunnel /\ url[tun[t].from] = j
      BY <1>1 DEF TunnelInv
    <3>2. tun[t].from \in Sockets \ {s}
      BY <3>1, <1>1, <1>4 DEF TypeOK
    <3> QED  BY <3>1, <3>2
  <2>6. TunnelInv'
    BY <1>2, <2>3, <2>4, <2>5 DEF TunnelInv, Held, HeldThen
  <2> QED  BY <2>2, <2>6
<1>h. ToldInv'
  <2>1. ASSUME NEW j \in Ids, NEW x \in users[j], NEW u \in Servers, home[x] # u \/ x \notin lookup
        PROVE  home'[x] # u \/ x \notin lookup'
    BY <1>5, <1>6, <2>1
  <2> QED  BY <1>1, <1>2, <2>1 DEF ToldInv
<1>k. StrandedInv'
  <2> SUFFICES ASSUME NEW x \in stranded
               PROVE  /\ x \in Ends \ lookup' /\ ws'[x] # "none"
                      /\ id'[x] # NoId => \E u \in Servers : home'[x] < u /\ HeldThen(u, id'[x])
    BY <1>2 DEF StrandedInv, Held, HeldThen
  <2>1. /\ x \in Ends \ lookup /\ ws[x] # "none" /\ x \in Sockets \ {s}
        /\ id[x] # NoId => \E u \in Servers : home[x] < u /\ Held(u, id[x])
    BY <1>1, Consts DEF StrandedInv
  <2>2. id[x] \in Ids \cup {NoId}
    BY <1>1, <2>1, Types
  <2>3. \A u \in Servers, j \in Ids : Held(u, j) => HeldThen(u, j)
    BY <1>1, <1>5, <1>6 DEF Held, HeldThen
  <2> QED  BY <1>5, <2>1, <2>2, <2>3
<1>j. DeniedInv'
  BY <1>1, <1>2, <1>4, <1>5, Types DEF DeniedInv
<1>i. FreshInv' /\ RecordingEndsOnce' /\ MeetingUnderWay'
  <2>1. FreshInv'
    BY <1>1, <1>2, <1>4, <1>5 DEF FreshInv
  <2>2. MeetingUnderWay'
    BY <1>1, <1>2 DEF MeetingUnderWay
  <2>3. /\ \A x \in Sockets : file[x] # "twice"
        /\ \A x \in Sockets : file[x] = "open" => home'[x] = home[x]
    BY <1>1, <1>4, <1>5 DEF RecordingEndsOnce
  <2>4. \A x \in Sockets : peer[x] # NoSock => id'[x] = id[x]
    BY <1>4, <1>5
  <2>5. RecordingEndsOnce'
    BY <1>2, <2>3, <2>4, EndsStay
  <2> QED  BY <2>1, <2>2, <2>5
<1> QED  BY <1>t, <1>a, <1>b, <1>c, <1>d, <1>e, <1>f, <1>g, <1>h, <1>i, <1>j, <1>k DEF IInv

\* s comes with routing instructions, and waits for the database.
LEMMA RoutedKeeps ==
    ASSUME ~Reuse, IInv, NEW s \in Ends, NEW v \in Servers, NEW i \in Chosen \cup {NoId},
           ComesRouted(s, v, i)
    PROVE  IInv'
<1>1. /\ TypeOK /\ CameInv /\ LookupInv /\ DeniedInv /\ StrandedInv /\ WaitingInv /\ PairedInv /\ PeerInv /\ PlacedInv
      /\ TwoHomes /\ SaidInv /\ TunnelInv /\ ToldInv /\ FreshInv /\ RecordedInv
      /\ OpenInv /\ MeetingUnderWay /\ RecordingEndsOnce
  BY DEF IInv
<1>2. /\ s \in Routed /\ s \in Sockets /\ s \notin Tunnels /\ i \in Ids \cup {NoId}
      /\ ws[s] = "none"
      /\ home' = [home EXCEPT ![s] = v] /\ origin' = [origin EXCEPT ![s] = s]
      /\ url' = [url EXCEPT ![s] = i]
      /\ users' = [j \in Ids |-> IF j = i THEN users[j] \cup {s} ELSE users[j]]
      /\ ws' = [ws EXCEPT ![s] = "open"] /\ id' = [id EXCEPT ![s] = i]
      /\ here' = here \cup {s} /\ lookup' = lookup \cup {s}
      /\ UNCHANGED <<denied, peer, timer, wsrelays, wsPeerRelays, peerServers, said,
                     missed, tun, stranded, cut, log, file>>
  BY Consts, RelayAssumption DEF ComesRouted, Accepted, peerVars, msgVars, tunVars, recVars
\* The id was used on another server, by one connection, or not at all.
<1>3. i # NoId => \A x \in users[i] : home[x] # v /\ users[i] = {x}
  BY <1>2 DEF ComesRouted, Welcome
<1>4. /\ peer[s] = NoSock /\ log[s] = NoSock /\ file[s] = "none" /\ s \notin denied
      /\ \A x \in Sockets : peer[x] # s
      /\ \A t \in Tunnels : tun[t] # NoTunnel => tun[t].from # s
      /\ \A u \in Servers, j \in Ids :
            s \notin {wsrelays[u][j].peer1, wsrelays[u][j].peer2}
  BY <1>2, Apart
<1>u. users \in [Ids -> SUBSET Sockets]
  BY <1>1 DEF TypeOK
<1>5. /\ id'[s] = i /\ ws'[s] = "open" /\ home'[s] = v /\ origin'[s] = s /\ url'[s] = i
      /\ \A x \in Sockets \ {s} : /\ id'[x] = id[x] /\ ws'[x] = ws[x]
                                  /\ home'[x] = home[x] /\ origin'[x] = origin[x]
                                  /\ url'[x] = url[x]
                                  /\ x \in here' <=> x \in here
                                  /\ x \in lookup' <=> x \in lookup
  BY <1>1, <1>2 DEF TypeOK
<1>6. ASSUME NEW j \in Ids, NEW x \in users[j]
      PROVE  x \in Sockets \ {s} /\ x \in users'[j]
  BY <1>1, <1>2, <1>6, <1>u DEF CameInv
<1>7. ASSUME NEW j \in Ids, NEW x \in users'[j]
      PROVE  x \in users[j] \/ (x = s /\ j = i)
  BY <1>2, <1>7
<1>t. TypeOK'
  <2>1. /\ ws' \in [Sockets -> WsStates] /\ id' \in [Sockets -> Ids \cup {NoId}]
        /\ here' \subseteq Sockets /\ lookup' \subseteq Routed
        /\ home' \in [Sockets -> Servers \cup {0}] /\ origin' \in [Sockets -> Ends \cup {NoSock}]
        /\ url' \in [Sockets -> Ids \cup {NoId}]
    BY <1>1, <1>2 DEF TypeOK, WsStates
  <2>2. users' \in [Ids -> SUBSET Sockets]
    BY <1>2, <1>u
  <2>3. /\ timer' \subseteq Sockets /\ peer' \in [Sockets -> Sockets \cup {NoSock}]
        /\ wsrelays' \in RelayTable
        /\ wsPeerRelays' \in [Servers -> [Ids -> Servers \cup {0}]]
        /\ peerServers' \in [Servers -> SUBSET Servers] /\ denied' \subseteq Sockets
        /\ said' \subseteq Messages /\ missed' \subseteq Messages
        /\ tun' \in [Tunnels -> {NoTunnel} \cup [from : Sockets, to : Servers, user : BOOLEAN]]
        /\ stranded' \subseteq Sockets /\ cut' \subseteq Tunnels /\ log' \in [Sockets -> Sockets \cup {NoSock}]
        /\ file' \in [Sockets -> FileStates]
    <3>1. TypeOK
      BY <1>1
    <3> QED  BY <1>2, <3>1 DEF TypeOK, RelayTable
  <2> QED  BY <2>1, <2>2, <2>3, TypedThen
<1>a. CameInv'
  <2>1. \A x \in Sockets : ws'[x] # "none" =>
           home'[x] \in Servers /\ origin'[x] \in Ends /\ (x \in Ends => origin'[x] = x)
    BY <1>1, <1>5 DEF CameInv
  <2>2. \A x \in here' \cup lookup' \cup timer' : ws'[x] # "none"
    BY <1>1, <1>2, <1>5, Types DEF CameInv
  <2>3. ASSUME NEW j \in Ids, NEW x \in users'[j]  PROVE ws'[x] # "none"
    BY <1>1, <1>5, <1>6, <1>7 DEF CameInv
  <2>4. ASSUME NEW x \in Sockets, id'[x] # NoId  PROVE x \in users'[id'[x]]
    <3>1. CASE x = s
      BY <3>1, <2>4, <1>2, <1>5
    <3>2. CASE x # s
      BY <3>2, <2>4, <1>1, <1>5, <1>6, Types DEF CameInv
    <3> QED  BY <3>1, <3>2
  <2>5. \A x \in here' : url'[x] \in {id'[x], NoId}
    BY <1>1, <1>2, <1>5, Types DEF CameInv
  <2> QED  BY <2>1, <2>2, <2>3, <2>4, <2>5 DEF CameInv
<1>b. LookupInv' /\ TwoHomes'
  <2>1. LookupInv'
    <3> SUFFICES ASSUME NEW x \in lookup', id'[x] # NoId, NEW y \in users'[id'[x]],
                        home'[y] = home'[x]
                 PROVE  y = x
      <4>1. \A x \in lookup' : id'[x] # NoId => url'[x] = id'[x]
        BY <1>1, <1>2, <1>5, Types DEF LookupInv
      <4> QED  BY <4>1 DEF LookupInv
    <3>1. id'[x] \in Ids /\ x \in Sockets
      BY <1>1, <1>2, <1>5, Types
    <3>2. CASE x = s
      BY <3>1, <3>2, <1>3, <1>5, <1>6, <1>7, Consts
    <3>3. CASE x # s
      <4>1. /\ x \in lookup /\ id'[x] = id[x] /\ home'[x] = home[x]
            /\ \A z \in users[id[x]] : home[z] = home[x] => z = x
        BY <3>1, <3>3, <1>1, <1>5 DEF LookupInv
      <4>2. CASE y # s
        BY <3>1, <4>1, <4>2, <1>5, <1>6, <1>7
      <4>3. CASE y = s
        <5>1. id[x] = i /\ x \in users[i] /\ home[x] = v
          BY <3>1, <3>3, <4>1, <4>3, <1>1, <1>5, <1>6, <1>7 DEF CameInv
        <5> QED  BY <3>1, <4>1, <5>1, <1>3, Consts
      <4> QED  BY <4>2, <4>3
    <3> QED  BY <3>2, <3>3
  <2>2. TwoHomes'
    <3> SUFFICES ASSUME NEW j \in Ids, NEW x \in users'[j] \cap Ends, NEW y \in users'[j] \cap Ends,
                        home'[x] # home'[y]
                 PROVE  users'[j] \cap Ends = {x, y}
      BY DEF TwoHomes
    <3>1. CASE j # i
      <4>1. users'[j] = users[j] /\ home'[x] = home[x] /\ home'[y] = home[y]
        BY <3>1, <1>2, <1>5, <1>6, <1>7
      <4> QED  BY <4>1, <1>1 DEF TwoHomes
    <3>2. CASE j = i
      <4>1. i # NoId /\ users'[i] = users[i] \cup {s}
        BY <3>2, <1>2, Consts
      <4>2. \A z \in users[i] : home'[z] = home[z] /\ z # s /\ users[i] = {z}
        BY <3>2, <4>1, <1>3, <1>5, <1>6
      <4> QED  BY <3>2, <4>1, <4>2, <1>5
    <3> QED  BY <3>1, <3>2
  <2> QED  BY <2>1, <2>2
<1>c. WaitingInv'
  <2> SUFFICES ASSUME NEW u \in Servers, NEW j \in Ids, wsrelays'[u][j].state = 1,
                      NEW p, p = wsrelays'[u][j].peer1
               PROVE  /\ p \in users'[j] \ lookup' /\ home'[p] = u /\ peer'[p] = NoSock
                      /\ p \in here' => id'[p] = j /\ ~Tunnelled(p)'
                      /\ id'[p] \in {j, NoId}
                      /\ id'[p] = j \/ p \in denied \/ \E z \in users'[j] \ {p} : home'[z] = u
    BY <1>2 DEF WaitingInv, Tunnelled
  <2>1. /\ p \in users[j] \ lookup /\ home[p] = u /\ peer[p] = NoSock
        /\ p \in here => id[p] = j /\ ~Tunnelled(p)
        /\ id[p] \in {j, NoId}
        /\ id[p] = j \/ p \in denied \/ \E z \in users[j] \ {p} : home[z] = u
    BY <1>1, <1>2 DEF WaitingInv
  <2>2. p \in Sockets \ {s}
    BY <1>6, <2>1
  <2>3. Tunnelled(p)' <=> Tunnelled(p)
    BY <1>2 DEF Tunnelled
  <2>4. ASSUME NEW z \in users[j] \ {p}, home[z] = u
        PROVE  z \in users'[j] \ {p} /\ home'[z] = u
    BY <1>5, <1>6, <2>4
  <2> QED  BY <1>2, <1>5, <1>6, <2>1, <2>2, <2>3, <2>4
<1>d. PairedInv'
  <2> SUFFICES ASSUME NEW u \in Servers, NEW j \in Ids, NEW p, NEW y, wsrelays'[u][j].state = 2,
                      p = wsrelays'[u][j].peer1, y = wsrelays'[u][j].peer2
               PROVE  p # y /\ Side(p, y, u, j)' /\ Side(y, p, u, j)'
    BY DEF PairedInv, Side, Tunnelled
  <2>1. p # y /\ Side(p, y, u, j) /\ Side(y, p, u, j) /\ p \in Sockets \ {s} /\ y \in Sockets \ {s}
    BY <1>1, <1>2, <1>4, Entries DEF PairedInv
  <2>2. ASSUME NEW z \in Sockets \ {s}, NEW x, Side(z, x, u, j)  PROVE Side(z, x, u, j)'
    BY <1>2, <1>5, <1>6, <2>2 DEF Side, Tunnelled
  <2> QED  BY <2>1, <2>2
<1>e. PeerInv' /\ RecordedInv'
  <2>1. \A x \in Sockets : peer[x] # NoSock => x # s
    BY <1>4
  <2> QED  BY <1>1, <1>2, <1>5, <2>1 DEF PeerInv, RecordedInv
<1>f. PlacedInv' /\ OpenInv'
  <2>1. ASSUME NEW x \in Sockets \ {s}
        PROVE  /\ Listed(x)' <=> Listed(x)
               /\ Tunnelled(x)' <=> Tunnelled(x)
               /\ home'[x] = home[x] /\ id'[x] = id[x] /\ ws'[x] = ws[x]
               /\ x \in lookup' <=> x \in lookup
               /\ x \in stranded' <=> x \in stranded
    BY <1>2, <1>5 DEF Listed, Tunnelled
  <2>2. i # NoId => wsrelays[v][i] = None
    <3> HAVE i # NoId
    <3>1. wsrelays[v][i].state # 1
      BY <1>1, <1>2, <1>3 DEF WaitingInv
    <3>2. wsrelays[v][i].state # 2
      BY <1>1, <1>2, <1>3 DEF PairedInv, Side
    <3> QED  BY <3>1, <3>2, <1>1, <1>2, Entries
  <2>3. s \in lookup'
    BY <1>2
  <2>4. PlacedInv'
    <3> SUFFICES ASSUME NEW x \in Sockets, id'[x] # NoId
                 PROVE  \/ Listed(x)'
                        \/ /\ wsrelays'[home'[x]][id'[x]] = None
                           /\ x \in lookup' \cup stranded' \/ Tunnelled(x)'
      BY DEF PlacedInv
    <3>1. CASE x = s
      BY <3>1, <2>2, <2>3, <1>2, <1>5
    <3>2. CASE x # s
      <4>1. Listed(x) \/ (wsrelays[home[x]][id[x]] = None /\ (x \in lookup \cup stranded \/ Tunnelled(x)))
        BY <3>2, <2>1, <1>1 DEF PlacedInv
      <4> QED  BY <3>2, <4>1, <2>1, <1>2
    <3> QED  BY <3>1, <3>2
  <2>5. OpenInv'
    BY <1>1, <2>1, <2>3 DEF OpenInv
  <2> QED  BY <2>4, <2>5
<1>g. SaidInv' /\ TunnelInv'
  <2>1. \A u \in Servers, j \in Ids : Held(u, j) => HeldThen(u, j)
    BY <1>5, <1>6 DEF Held, HeldThen
  <2>2. SaidInv'
    <3>1. /\ \A u \in Servers : u \notin peerServers[u]
          /\ \A m \in said :
                m.from # m.to /\ HeldThen(m.from, m.id) /\ m.from \in peerServers[m.to]
          /\ \A u \in Servers, j \in Ids : wsPeerRelays[u][j] # 0 =>
                wsPeerRelays[u][j] # u /\ HeldThen(wsPeerRelays[u][j], j)
      <4>1. /\ \A m \in said : m.from \in Servers /\ m.id \in Ids /\ m.to \in Servers
            /\ \A u \in Servers, j \in Ids : wsPeerRelays[u][j] \in Servers \cup {0}
        BY <1>1 DEF TypeOK, Messages
      <4> QED  BY <1>1, <2>1, <4>1 DEF SaidInv
    <3>2. UNCHANGED <<said, wsPeerRelays, peerServers>>
      BY <1>2
    <3> QED  BY <3>1, <3>2 DEF SaidInv, Held, HeldThen
  <2>3. ASSUME NEW t \in Tunnels, tun[t] # NoTunnel
        PROVE  /\ tun[t].from \in Ends \ lookup' /\ ws'[tun[t].from] # "none"
               /\ home'[tun[t].from] < tun[t].to
               /\ ws'[t] # "none" => home'[t] = tun[t].to
               /\ url'[tun[t].from] # NoId =>
                     /\ tun[t].from \in users'[url'[tun[t].from]]
                     /\ HeldThen(tun[t].to, url'[tun[t].from])
               /\ id'[tun[t].from] # NoId => HeldThen(tun[t].to, id'[tun[t].from])
    <3>1. /\ tun[t].from \in Ends \ lookup /\ ws[tun[t].from] # "none"
          /\ home[tun[t].from] < tun[t].to
          /\ ws[t] # "none" => home[t] = tun[t].to
          /\ url[tun[t].from] # NoId =>
                /\ tun[t].from \in users[url[tun[t].from]]
                /\ Held(tun[t].to, url[tun[t].from])
          /\ id[tun[t].from] # NoId => Held(tun[t].to, id[tun[t].from])
      BY <1>1, <2>3 DEF TunnelInv
    <3>2. /\ tun[t].to \in Servers /\ tun[t].from \in Sockets \ {s} /\ t \in Sockets \ {s}
          /\ url[tun[t].from] \in Ids \cup {NoId} /\ id[tun[t].from] \in Ids \cup {NoId}
      BY <1>1, <1>2, <1>4, <2>3, Consts DEF TypeOK
    <3>3. url'[tun[t].from] = url[tun[t].from] /\ home'[tun[t].from] = home[tun[t].from]
          /\ id'[tun[t].from] = id[tun[t].from] /\ ws'[tun[t].from] = ws[tun[t].from]
          /\ tun[t].from \notin lookup'
      BY <1>5, <3>1, <3>2
    <3>4. ws'[t] # "none" => home'[t] = tun[t].to
      BY <1>5, <3>1, <3>2
    <3> QED  BY <2>1, <3>1, <3>2, <3>3, <3>4, <1>6
  <2>4. \A t \in Tunnels : ws'[t] # "none" => tun[t] # NoTunnel
    BY <1>1, <1>2, <1>5, Consts DEF TunnelInv
  <2>5. \A j \in Ids : \A t \in users'[j] \cap Tunnels :
           tun[t] # NoTunnel /\ url'[tun[t].from] = j
    <3> SUFFICES ASSUME NEW j \in Ids, NEW t \in users'[j] \cap Tunnels
                 PROVE  tun[t] # NoTunnel /\ url'[tun[t].from] = j
      OBVIOUS
    <3>1. tun[t] # NoTunnel /\ url[tun[t].from] = j
      BY <1>1, <1>2, <1>7 DEF TunnelInv
    <3>2. tun[t].from \in Sockets \ {s}
      BY <3>1, <1>1, <1>4 DEF TypeOK
    <3> QED  BY <3>1, <3>2, <1>5
  <2>6. TunnelInv'
    <3>1. UNCHANGED tun
      BY <1>2
    <3> QED  BY <2>3, <2>4, <2>5, <3>1 DEF TunnelInv, Held, HeldThen
  <2> QED  BY <2>2, <2>6
<1>h. ToldInv'
  <2>1. ASSUME NEW j \in Ids, NEW x \in users[j], NEW u \in Servers, home[x] # u \/ x \notin lookup
        PROVE  x \in users'[j] /\ (home'[x] # u \/ x \notin lookup')
    BY <1>5, <1>6, <2>1
  <2> QED  BY <1>1, <1>2, <2>1 DEF ToldInv
<1>j. DeniedInv'
  BY <1>1, <1>2, <1>4, <1>5, Types DEF DeniedInv
<1>k. StrandedInv'
  <2> SUFFICES ASSUME NEW x \in stranded
               PROVE  /\ x \in Ends \ lookup' /\ ws'[x] # "none"
                      /\ id'[x] # NoId => \E u \in Servers : home'[x] < u /\ HeldThen(u, id'[x])
    BY <1>2 DEF StrandedInv, Held, HeldThen
  <2>1. /\ x \in Ends \ lookup /\ ws[x] # "none" /\ x \in Sockets \ {s}
        /\ id[x] # NoId => \E u \in Servers : home[x] < u /\ Held(u, id[x])
    BY <1>1, <1>2, Consts DEF StrandedInv
  <2>2. id[x] \in Ids \cup {NoId}
    BY <1>1, <2>1, Types
  <2>3. \A u \in Servers, j \in Ids : Held(u, j) => HeldThen(u, j)
    BY <1>5, <1>6 DEF Held, HeldThen
  <2> QED  BY <1>5, <2>1, <2>2, <2>3
<1>i. FreshInv' /\ RecordingEndsOnce' /\ MeetingUnderWay'
  <2>1. FreshInv'
    BY <1>1, <1>2, <1>4, <1>5 DEF FreshInv
  <2>2. MeetingUnderWay'
    BY <1>1, <1>2, <1>4 DEF MeetingUnderWay
  <2>3. /\ \A x \in Sockets : file[x] # "twice"
        /\ \A x \in Sockets : file[x] = "open" => home'[x] = home[x]
    BY <1>1, <1>4, <1>5 DEF RecordingEndsOnce
  <2>4. \A x \in Sockets : peer[x] # NoSock => id'[x] = id[x]
    BY <1>4, <1>5
  <2>5. RecordingEndsOnce'
    BY <1>2, <2>3, <2>4, EndsStay
  <2> QED  BY <2>1, <2>2, <2>5
<1> QED  BY <1>t, <1>a, <1>j, <1>b, <1>c, <1>d, <1>e, <1>f, <1>g, <1>h, <1>i, <1>k DEF IInv

-----------------------------------------------------------------------------
\* Who is listed first, alone or in a session, used the id on that server.
LEMMA FirstListed ==
    ASSUME TypeOK, WaitingInv, PairedInv, NEW v \in Servers, NEW i \in Ids,
           wsrelays[v][i] # None
    PROVE  /\ wsrelays[v][i].peer1 \in users[i] \ lookup
           /\ wsrelays[v][i].peer1 \in Sockets
           /\ home[wsrelays[v][i].peer1] = v
<1>1. CASE wsrelays[v][i].state = 1
  BY <1>1, Entries DEF WaitingInv
<1>2. CASE wsrelays[v][i].state = 2
  BY <1>2, Entries DEF PairedInv, Side
<1> QED  BY <1>1, <1>2, Entries

\* A session whose id was also held on a server with a larger id is not one of
\* two, and who is listed there is an end.
LEMMA AloneBefore ==
    ASSUME IInv, NEW v \in Servers, NEW w \in Servers, v < w, NEW i \in Ids,
           Held(w, i), wsrelays[v][i] # None
    PROVE  wsrelays[v][i].state = 1 /\ wsrelays[v][i].peer1 \in Ends
<1>1. TypeOK /\ CameInv /\ DeniedInv /\ WaitingInv /\ PairedInv /\ TwoHomes /\ TunnelInv
  BY DEF IInv
<1>2. PICK y \in (users[i] \cap Ends) \ lookup : home[y] = w
  BY DEF Held
<1>3. v \in Nat /\ w \in Nat /\ v # w
  BY Consts
<1>4. ASSUME NEW p \in users[i], home[p] = v  PROVE p \in Ends /\ users[i] \cap Ends = {p, y}
  <2>1. p \in Sockets /\ ws[p] # "none"
    BY <1>1, <1>4 DEF TypeOK, CameInv
  <2>2. p \in Ends
    <3> SUFFICES ASSUME p \in Tunnels  PROVE FALSE
      BY <2>1, Consts
    <3>1. tun[p] # NoTunnel /\ url[tun[p].from] = i /\ home[p] = tun[p].to
      BY <2>1, <1>1, <1>4 DEF TunnelInv
    <3>2. PICK z \in Ends \ lookup :
             /\ home[z] = v /\ home[tun[p].from] < v
             /\ users[i] \cap Ends = {tun[p].from, z}
      BY <3>1, <1>4, TunnelMeets, Consts
    <3>3. tun[p].from \in Sockets /\ home[tun[p].from] \in Nat
      BY <3>1, <1>1, Consts DEF TypeOK
    <3> QED  BY <3>2, <3>3, <1>2, <1>3
  <2> QED  BY <2>2, <1>1, <1>2, <1>3, <1>4 DEF TwoHomes
<1>5. wsrelays[v][i].state # 2
  <2> SUFFICES ASSUME NEW p, NEW q, p = wsrelays[v][i].peer1, q = wsrelays[v][i].peer2,
                      wsrelays[v][i].state = 2
               PROVE  FALSE
    OBVIOUS
  <2>1. p # q /\ p \in users[i] /\ q \in users[i] /\ home[p] = v /\ home[q] = v
    BY <1>1 DEF PairedInv, Side
  <2> QED  BY <2>1, <1>2, <1>3, <1>4
<1>6. wsrelays[v][i].state = 1
  BY <1>1, <1>5, Entries
<1> QED  BY <1>1, <1>4, <1>6, FirstListed

\* What is not about the words of the servers depends on nothing of them.
LEMMA WordsApart ==
    ASSUME IInv, UNCHANGED <<sockVars, objVars, askVars, timer, wsrelays, tunVars, recVars, users>>
    PROVE  /\ CameInv' /\ LookupInv' /\ DeniedInv' /\ WaitingInv' /\ PairedInv' /\ PeerInv'
           /\ PlacedInv' /\ TwoHomes' /\ StrandedInv' /\ TunnelInv' /\ FreshInv' /\ RecordedInv'
           /\ OpenInv' /\ RecordingEndsOnce'
<1>1. /\ CameInv /\ LookupInv /\ DeniedInv /\ WaitingInv /\ PairedInv /\ PeerInv
      /\ PlacedInv /\ TwoHomes /\ StrandedInv /\ TunnelInv /\ FreshInv /\ RecordedInv
      /\ OpenInv /\ RecordingEndsOnce
  BY DEF IInv
<1>2. UNCHANGED <<home, origin, url, ws, id, here, peer, lookup, denied, timer, wsrelays,
                  tun, stranded, log, file, users>>
  BY DEF sockVars, objVars, askVars, tunVars, recVars
<1>3. CameInv' /\ LookupInv' /\ DeniedInv' /\ TwoHomes' /\ FreshInv' /\ RecordingEndsOnce'
  BY <1>1, <1>2 DEF CameInv, LookupInv, DeniedInv, TwoHomes, FreshInv, RecordingEndsOnce
<1>4. WaitingInv' /\ PairedInv' /\ PeerInv' /\ RecordedInv'
  BY <1>1, <1>2 DEF WaitingInv, PairedInv, PeerInv, RecordedInv, Side, Tunnelled
<1>5. PlacedInv' /\ OpenInv' /\ TunnelInv' /\ StrandedInv'
  BY <1>1, <1>2 DEF PlacedInv, OpenInv, TunnelInv, StrandedInv, Listed, Tunnelled, Held
<1> QED  BY <1>3, <1>4, <1>5

\* Nor do the types depend on more than the types of the words.
LEMMA WordTypes ==
    ASSUME TypeOK, UNCHANGED <<sockVars, objVars, askVars, timer, wsrelays, tunVars, cut, recVars,
                               users>>,
           wsPeerRelays' \in [Servers -> [Ids -> Servers \cup {0}]],
           peerServers' \in [Servers -> SUBSET Servers],
           said' \subseteq Messages, missed' \subseteq Messages
    PROVE  TypeOK'
<1>1. UNCHANGED <<home, origin, url, ws, id, here, peer, lookup, denied, timer, wsrelays,
                  tun, stranded, cut, log, file, users>>
  BY DEF sockVars, objVars, askVars, tunVars, recVars
<1>2. /\ ws' \in [Sockets -> WsStates] /\ home' \in [Sockets -> Servers \cup {0}]
      /\ origin' \in [Sockets -> Ends \cup {NoSock}]
      /\ url' \in [Sockets -> Ids \cup {NoId}] /\ id' \in [Sockets -> Ids \cup {NoId}]
      /\ here' \subseteq Sockets /\ lookup' \subseteq Routed /\ denied' \subseteq Sockets
      /\ timer' \subseteq Sockets /\ peer' \in [Sockets -> Sockets \cup {NoSock}]
  BY <1>1 DEF TypeOK
<1>3. wsrelays' \in RelayTable
  BY <1>1, Table
<1>4. /\ tun' \in [Tunnels -> {NoTunnel} \cup [from : Sockets, to : Servers, user : BOOLEAN]]
      /\ stranded' \subseteq Sockets /\ cut' \subseteq Tunnels
      /\ log' \in [Sockets -> Sockets \cup {NoSock}]
      /\ file' \in [Sockets -> FileStates] /\ users' \in [Ids -> SUBSET Sockets]
  BY <1>1 DEF TypeOK
<1> QED  BY <1>2, <1>3, <1>4, TypedThen

\* A server hears of an id that it does not hold, and remembers who holds it.
LEMMA HeardKeeps ==
    ASSUME IInv, NEW m \in said, said' = said \ {m}, wsrelays[m.to][m.id] = None,
           NEW old, wsPeerRelays' = [wsPeerRelays EXCEPT ![m.to] =
                       [j \in Ids |-> CASE j = m.id -> m.from
                                        [] j \in old -> 0
                                        [] OTHER -> wsPeerRelays[m.to][j]]],
           old \in SUBSET {j \in Ids \ {m.id} :
                \A s \in Sockets : id[s] = j => home[s] # wsPeerRelays[m.to][j]},
           UNCHANGED <<sockVars, objVars, askVars, timer, wsrelays, peerServers, missed, tunVars,
                       cut, recVars, users>>
    PROVE  TypeOK' /\ SaidInv' /\ ToldInv' /\ MeetingUnderWay'
<1>1. TypeOK /\ CameInv /\ DeniedInv /\ WaitingInv /\ TwoHomes /\ SaidInv /\ ToldInv /\ MeetingUnderWay
  BY DEF IInv
<1> DEFINE v == m.to
           i == m.id
<1>2. m \in [from : Servers, to : Servers, id : Ids]
  BY <1>1 DEF TypeOK, Messages
<1>3. v \in Servers /\ i \in Ids /\ m.from \in Servers /\ m = [from |-> m.from, to |-> v, id |-> i]
  BY <1>2
<1>4. wsPeerRelays \in [Servers -> [Ids -> Servers \cup {0}]]
  BY <1>1 DEF TypeOK
<1>5. UNCHANGED <<home, origin, url, ws, id, here, peer, lookup, denied, timer, wsrelays, tun,
                  peerServers, missed, stranded, cut, log, file, users>>
  BY DEF sockVars, objVars, askVars, tunVars, recVars
<1>6. \A u \in Servers, j \in Ids : u # v => wsPeerRelays'[u][j] = wsPeerRelays[u][j]
  BY <1>3, <1>4
<1>7. wsPeerRelays'[v] = [j \in Ids |-> CASE j = i -> m.from
                                          [] j \in old -> 0
                                          [] OTHER -> wsPeerRelays[v][j]]
  BY <1>3, <1>4
<1>8. ASSUME NEW j \in Ids
      PROVE  /\ j = i => wsPeerRelays'[v][j] = m.from
             /\ j # i /\ j \in old => wsPeerRelays'[v][j] = 0
             /\ j # i /\ j \notin old => wsPeerRelays'[v][j] = wsPeerRelays[v][j]
  <2>1. wsPeerRelays'[v][j] = CASE j = i -> m.from
                                [] j \in old -> 0
                                [] OTHER -> wsPeerRelays[v][j]
    BY <1>7
  <2>2. i \notin old
    OBVIOUS
  <2> QED  BY <2>1, <2>2
<1> HIDE DEF v, i
<1>9. SaidInv'
  <2>1. \A u \in Servers, j \in Ids : Held(u, j) => HeldThen(u, j)
    BY <1>5 DEF Held, HeldThen
  <2>2. /\ \A u \in Servers : u \notin peerServers'[u]
        /\ \A n \in said' :
              n.from # n.to /\ HeldThen(n.from, n.id) /\ n.from \in peerServers'[n.to]
    <3>1. \A n \in said : n.from \in Servers /\ n.id \in Ids
      BY <1>1 DEF TypeOK, Messages
    <3> QED  BY <2>1, <3>1, <1>1, <1>5 DEF SaidInv
  <2>3. ASSUME NEW u \in Servers, NEW j \in Ids, wsPeerRelays'[u][j] # 0
        PROVE  wsPeerRelays'[u][j] # u /\ HeldThen(wsPeerRelays'[u][j], j)
    <3>1. CASE u = v /\ j = i
      BY <3>1, <2>1, <1>1, <1>3, <1>8 DEF SaidInv, v, i
    <3>2. CASE ~(u = v /\ j = i)
      BY <3>2, <2>1, <2>3, <1>1, <1>4, <1>6, <1>8 DEF SaidInv
    <3> QED  BY <3>1, <3>2
  <2> QED  BY <2>2, <2>3 DEF SaidInv, Held, HeldThen
<1>10. ToldInv'
  <2> SUFFICES ASSUME NEW u \in Servers, NEW w \in Servers, NEW j \in Ids, u < w,
                      wsrelays[w][j].state = 1
               PROVE  \/ [from |-> w, to |-> u, id |-> j] \in said' \cup missed
                      \/ wsPeerRelays'[u][j] = w \/ wsrelays[w][j].peer1 \in denied
                      \/ \E x \in users[j] \ {wsrelays[w][j].peer1} :
                            home[x] # u \/ x \notin lookup
    BY <1>5 DEF ToldInv
  <2> DEFINE p == wsrelays[w][j].peer1
  <2>1. /\ p \in users[j] \ lookup /\ home[p] = w
        /\ id[p] = j \/ p \in denied \/ \E z \in users[j] \ {p} : home[z] = w
        /\ u # w
    BY <1>1, Consts DEF WaitingInv
  <2>2. CASE [from |-> w, to |-> u, id |-> j] \in said \cup missed
    <3>1. CASE [from |-> w, to |-> u, id |-> j] = m
      <4>1. u = v /\ j = i /\ m.from = w
        BY <3>1 DEF v, i
      <4> QED  BY <4>1, <1>8
    <3>2. CASE [from |-> w, to |-> u, id |-> j] # m
      BY <2>2, <3>2
    <3> QED  BY <3>1, <3>2
  <2>3. CASE wsPeerRelays[u][j] = w
    <3>1. CASE u = v /\ j = i /\ m.from # w
      <4>1. PICK y \in (users[i] \cap Ends) \ lookup : home[y] = m.from
        BY <1>1 DEF SaidInv, Held, i
      <4> QED  BY <3>1, <4>1, <2>1
    <3>2. CASE u = v /\ j # i /\ j \in old
      <4>1. p \in Sockets
        BY <1>1, Entries
      <4>2. id[p] # j
        BY <3>2, <4>1, <2>1, <2>3 DEF v
      <4> QED  BY <4>2, <2>1
    <3> QED  BY <3>1, <3>2, <2>3, <1>6, <1>8
  <2>4. CASE p \in denied \/ \E x \in users[j] \ {p} : home[x] # u \/ x \notin lookup
    BY <2>4
  <2> QED  BY <2>2, <2>3, <2>4, <1>1 DEF ToldInv
<1>11. MeetingUnderWay'
  <2> SUFFICES ASSUME NEW u \in Servers, NEW w \in Servers, NEW j \in Ids, u < w,
                      wsrelays[u][j].state = 1, wsrelays[w][j].state = 1,
                      wsrelays[u][j].peer1 \in here, wsrelays[w][j].peer1 \notin denied
               PROVE  [from |-> w, to |-> u, id |-> j] \in said' \cup missed
    BY <1>5 DEF MeetingUnderWay
  <2>1. ~(u = v /\ j = i)
    BY DEF None, v, i
  <2>2. [from |-> w, to |-> u, id |-> j] # m
    BY <2>1 DEF v, i
  <2> QED  BY <2>2, <1>1 DEF MeetingUnderWay
<1>12. TypeOK'
  <2>1. wsPeerRelays' \in [Servers -> [Ids -> Servers \cup {0}]]
    <3>1. wsPeerRelays' = [wsPeerRelays EXCEPT ![v] = wsPeerRelays'[v]]
      BY <1>7, <1>3, <1>4 DEF v, i
    <3>2. \A j \in Ids : wsPeerRelays'[v][j] \in Servers \cup {0}
      BY <1>3, <1>4, <1>8
    <3>3. wsPeerRelays'[v] \in [Ids -> Servers \cup {0}]
      BY <1>7, <3>2
    <3> QED  BY <3>1, <3>3, <1>3, <1>4
  <2>2. said' \subseteq Messages /\ missed' \subseteq Messages
    BY <1>1, <1>5 DEF TypeOK
  <2>3. peerServers' \in [Servers -> SUBSET Servers]
    BY <1>1, <1>5 DEF TypeOK
  <2> QED  BY <1>1, <2>1, <2>2, <2>3, WordTypes
<1> QED  BY <1>9, <1>10, <1>11, <1>12

\* A connection that waits goes on through a new tunnel: it leaves the list.
LEMMA OpensKeeps ==
    ASSUME IInv, NEW m \in said, said' = said \ {m}, wsrelays[m.to][m.id] # None,
           m.from > m.to, NEW p, p = wsrelays[m.to][m.id].peer1, p \in here,
           NEW a \in BOOLEAN, NEW t \in Tunnels \ {p}, tun[t] = NoTunnel,
           tun' = [tun EXCEPT ![t] = [from |-> p, to |-> m.from, user |-> a]],
           wsrelays' = [wsrelays EXCEPT ![m.to][m.id] = None],
           UNCHANGED <<sockVars, objVars, askVars, timer, wsPeerRelays, peerServers, missed,
                       stranded, cut, recVars, users>>
    PROVE  IInv'
<1>1. /\ TypeOK /\ CameInv /\ LookupInv /\ DeniedInv /\ StrandedInv /\ WaitingInv /\ PairedInv /\ PeerInv /\ PlacedInv
      /\ TwoHomes /\ SaidInv /\ TunnelInv /\ ToldInv /\ FreshInv /\ RecordedInv
      /\ OpenInv /\ MeetingUnderWay /\ RecordingEndsOnce
  BY DEF IInv
<1> DEFINE v == m.to
           i == m.id
           w == m.from
<1>2. m \in [from : Servers, to : Servers, id : Ids]
  BY <1>1 DEF TypeOK, Messages
<1>3. v \in Servers /\ i \in Ids /\ w \in Servers /\ m = [from |-> w, to |-> v, id |-> i]
  BY <1>2
<1>4. Held(w, i) /\ v < w /\ v \in Nat /\ w \in Nat
  BY <1>1, <1>3, Consts DEF SaidInv
<1>5. UNCHANGED <<home, origin, url, ws, id, here, peer, lookup, denied, timer, wsPeerRelays,
                  peerServers, missed, stranded, cut, log, file, users>>
  BY DEF sockVars, objVars, askVars, recVars
<1> HIDE DEF v, i, w
<1>6. /\ wsrelays[v][i].state = 1 /\ p = wsrelays[v][i].peer1 /\ p \in Ends
      /\ wsrelays[v][i] = Waiting(p)
  <2>1. wsrelays[v][i] # None /\ p = wsrelays[v][i].peer1
    BY DEF v, i
  <2>2. wsrelays[v][i].state = 1 /\ p \in Ends
    BY <2>1, <1>3, <1>4, AloneBefore
  <2> QED  BY <2>1, <2>2, <1>1, <1>3, Entries
<1>7. /\ p \in users[i] \ lookup /\ p \in Sockets /\ home[p] = v /\ peer[p] = NoSock
      /\ id[p] = i /\ ~Tunnelled(p) /\ ws[p] # "none" /\ url[p] \in {i, NoId}
  BY <1>1, <1>3, <1>6, Consts DEF WaitingInv, CameInv
<1>8. /\ tun'[t] = [from |-> p, to |-> w, user |-> a] /\ t \in Sockets /\ ws[t] = "none"
      /\ \A k \in Tunnels \ {t} : tun'[k] = tun[k]
      /\ tun' \in [Tunnels -> {NoTunnel} \cup [from : Sockets, to : Servers, user : BOOLEAN]]
  <2>1. tun \in [Tunnels -> {NoTunnel} \cup [from : Sockets, to : Servers, user : BOOLEAN]]
    BY <1>1 DEF TypeOK
  <2>2. tun' = [tun EXCEPT ![t] = [from |-> p, to |-> w, user |-> a]]
    BY DEF w
  <2>3. [from |-> p, to |-> w, user |-> a] \in [from : Sockets, to : Servers, user : BOOLEAN]
    BY <1>3, <1>7
  <2> QED  BY <2>1, <2>2, <2>3, <1>1, Consts DEF TunnelInv
<1>9. /\ \A u \in Servers, j \in Ids : ~(u = v /\ j = i) => wsrelays'[u][j] = wsrelays[u][j]
      /\ wsrelays'[v][i] = None /\ wsrelays' \in RelayTable
  <2> DEFINE R == {None} \cup {Waiting(x) : x \in Sockets}
                         \cup {Paired(y, x) : y, x \in Sockets}
  <2>1. None \in R /\ wsrelays \in [Servers -> [Ids -> R]]
    <3>1. None \in R
      OBVIOUS
    <3>2. wsrelays \in RelayTable
      BY <1>1, Table
    <3>3. RelayTable = [Servers -> [Ids -> R]]
      BY DEF RelayTable
    <3> QED  BY <3>1, <3>2, <3>3
  <2> HIDE DEF R
  <2>2. wsrelays' = [wsrelays EXCEPT ![v][i] = None]
    BY DEF v, i
  <2>3. wsrelays' \in [Servers -> [Ids -> R]]
    BY <1>3, <2>1, <2>2
  <2>4. /\ \A u \in Servers, j \in Ids : ~(u = v /\ j = i) => wsrelays'[u][j] = wsrelays[u][j]
        /\ wsrelays'[v][i] = None
    BY <1>3, <2>1, <2>2
  <2> QED  BY <2>3, <2>4 DEF RelayTable, R
<1>10. /\ Tunnelled(p)' /\ \A x \in Sockets \ {p} : Tunnelled(x)' <=> Tunnelled(x)
  <2>1. tun'[t].from = p /\ tun[t].from = NoSock
    BY <1>8 DEF NoTunnel
  <2> QED  BY <2>1, <1>8, Consts DEF Tunnelled
<1>11. \A u \in Servers, j \in Ids : Held(u, j) <=> HeldThen(u, j)
  BY <1>5 DEF Held, HeldThen
<1>t. TypeOK'
  <2>1. /\ ws' \in [Sockets -> WsStates] /\ home' \in [Sockets -> Servers \cup {0}]
        /\ origin' \in [Sockets -> Ends \cup {NoSock}]
        /\ url' \in [Sockets -> Ids \cup {NoId}] /\ id' \in [Sockets -> Ids \cup {NoId}]
        /\ here' \subseteq Sockets /\ lookup' \subseteq Routed /\ timer' \subseteq Sockets
        /\ denied' \subseteq Sockets /\ peer' \in [Sockets -> Sockets \cup {NoSock}]
    BY <1>1, <1>5 DEF TypeOK
  <2>2. said' \subseteq Messages /\ missed' \subseteq Messages
    BY <1>1, <1>5 DEF TypeOK
  <2>3. /\ wsPeerRelays' \in [Servers -> [Ids -> Servers \cup {0}]]
        /\ peerServers' \in [Servers -> SUBSET Servers]
        /\ stranded' \subseteq Sockets /\ cut' \subseteq Tunnels
        /\ log' \in [Sockets -> Sockets \cup {NoSock}]
        /\ file' \in [Sockets -> FileStates] /\ users' \in [Ids -> SUBSET Sockets]
    BY <1>1, <1>5 DEF TypeOK
  <2> QED  BY <1>8, <1>9, <2>1, <2>2, <2>3, TypedThen
<1>a. CameInv' /\ LookupInv' /\ DeniedInv' /\ TwoHomes' /\ FreshInv'
  BY <1>1, <1>5 DEF CameInv, LookupInv, DeniedInv, TwoHomes, FreshInv
<1>i. StrandedInv' /\ RecordingEndsOnce'
  <2>1. StrandedInv'
    BY <1>1, <1>5 DEF StrandedInv, Held
  <2>2. \A u \in Servers, j \in Ids :
           wsrelays[u][j].state = 2 => wsrelays'[u][j] = wsrelays[u][j]
    <3> SUFFICES ASSUME NEW u \in Servers, NEW j \in Ids, wsrelays[u][j].state = 2
                 PROVE  ~(u = v /\ j = i)
      BY <1>9
    <3>1. wsrelays[v][i].state = 1
      BY <1>6
    <3> QED  BY <3>1
  <2>3. RecordingEndsOnce'
    BY <1>1, <1>5, <2>2, EndsStay DEF RecordingEndsOnce
  <2> QED  BY <2>1, <2>3
<1>b. WaitingInv'
  <2> SUFFICES ASSUME NEW u \in Servers, NEW j \in Ids, wsrelays'[u][j].state = 1,
                      NEW x, x = wsrelays'[u][j].peer1
               PROVE  /\ x \in users'[j] \ lookup' /\ home'[x] = u /\ peer'[x] = NoSock
                      /\ x \in here' => id'[x] = j /\ ~Tunnelled(x)'
                      /\ id'[x] \in {j, NoId}
                      /\ id'[x] = j \/ x \in denied \/ \E z \in users'[j] \ {x} : home'[z] = u
    BY <1>5 DEF WaitingInv, Tunnelled
  <2>1. ~(u = v /\ j = i) /\ wsrelays'[u][j] = wsrelays[u][j]
    BY <1>9 DEF None
  <2>2. /\ x \in users[j] \ lookup /\ home[x] = u /\ peer[x] = NoSock
        /\ x \in here => id[x] = j /\ ~Tunnelled(x)
        /\ id[x] \in {j, NoId}
        /\ id[x] = j \/ x \in denied \/ \E z \in users[j] \ {x} : home[z] = u
    BY <1>1, <2>1 DEF WaitingInv
  <2>3. x \in Sockets /\ x # p
    BY <1>1, <1>7, <2>1, <2>2, Entries
  <2> QED  BY <1>5, <1>10, <2>2, <2>3
<1>c. PairedInv'
  <2> SUFFICES ASSUME NEW u \in Servers, NEW j \in Ids, NEW x, NEW y, wsrelays'[u][j].state = 2,
                      x = wsrelays'[u][j].peer1, y = wsrelays'[u][j].peer2
               PROVE  x # y /\ Side(x, y, u, j)' /\ Side(y, x, u, j)'
    BY DEF PairedInv, Side, Tunnelled
  <2>1. wsrelays'[u][j] = wsrelays[u][j]
    BY <1>9 DEF None
  <2>2. x # y /\ Side(x, y, u, j) /\ Side(y, x, u, j) /\ x \in Sockets /\ y \in Sockets
    BY <1>1, <2>1, Entries DEF PairedInv
  <2>3. ASSUME NEW z \in Sockets, NEW q \in Sockets, Side(z, q, u, j)  PROVE Side(z, q, u, j)'
    <3>1. z # p
      <4>1. p \notin denied
        BY <1>1 DEF DeniedInv
      <4> QED  BY <2>3, <4>1, <1>7, Consts DEF Side
    <3>2. Tunnelled(z)' <=> Tunnelled(z)
      BY <3>1, <1>10
    <3> QED  BY <2>3, <3>2, <1>5 DEF Side
  <2> QED  BY <2>2, <2>3
<1>d. PeerInv' /\ RecordedInv'
  <2>1. ASSUME NEW x \in Sockets, peer[x] # NoSock
        PROVE  wsrelays'[home[x]][id[x]] = wsrelays[home[x]][id[x]]
    <3>1. home[x] \in Servers /\ id[x] \in Ids /\ wsrelays[home[x]][id[x]].state = 2
      BY <1>1, <2>1, Partners
    <3>2. ~(home[x] = v /\ id[x] = i)
      <4>1. wsrelays[v][i].state = 1
        BY <1>6
      <4> QED  BY <3>1, <4>1
    <3> QED  BY <3>1, <3>2, <1>9
  <2> QED  BY <1>1, <1>5, <2>1 DEF PeerInv, RecordedInv
<1>e. PlacedInv' /\ OpenInv'
  <2>1. ASSUME NEW x \in Sockets \ {p}, id[x] # NoId
        PROVE  /\ home[x] \in Servers /\ id[x] \in Ids /\ ~(home[x] = v /\ id[x] = i)
               /\ wsrelays'[home[x]][id[x]] = wsrelays[home[x]][id[x]]
    <3>1. id[x] \in Ids /\ home[x] \in Servers
      BY <1>1, <2>1, Types, Consts DEF CameInv
    <3>2. ~(home[x] = v /\ id[x] = i)
      <4> SUFFICES ASSUME home[x] = v, id[x] = i  PROVE FALSE
        OBVIOUS
      <4>1. x \in {p, Waiting(p).peer2}
        <5>1. Listed(x)
          <6>1. wsrelays[v][i] # None
            BY <1>6 DEF None
          <6> QED  BY <2>1, <6>1, <1>1 DEF PlacedInv
        <5>2. x \in {wsrelays[v][i].peer1, wsrelays[v][i].peer2}
          BY <5>1 DEF Listed
        <5>3. wsrelays[v][i].peer1 = p /\ wsrelays[v][i].peer2 = Waiting(p).peer2
          BY <1>6
        <5> QED  BY <5>2, <5>3
      <4> QED  BY <4>1, <2>1, Consts DEF Waiting
    <3> QED  BY <3>1, <3>2, <1>9
  <2>2. ASSUME NEW x \in Sockets \ {p}, Listed(x)  PROVE Listed(x)'
    <3>1. id[x] # NoId
      BY <2>2 DEF Listed
    <3> QED  BY <2>1, <2>2, <3>1, <1>5 DEF Listed
  <2>3. PlacedInv'
    <3> SUFFICES ASSUME NEW x \in Sockets, id'[x] # NoId
                 PROVE  \/ Listed(x)'
                        \/ /\ wsrelays'[home'[x]][id'[x]] = None
                           /\ x \in lookup' \cup stranded' \/ Tunnelled(x)'
      BY DEF PlacedInv
    <3>1. CASE x = p
      BY <3>1, <1>5, <1>7, <1>9, <1>10
    <3>2. CASE x # p
      <4>1. Listed(x) \/ (wsrelays[home[x]][id[x]] = None /\ (x \in lookup \cup stranded \/ Tunnelled(x)))
        BY <1>1, <1>5 DEF PlacedInv
      <4> QED  BY <3>2, <4>1, <2>1, <2>2, <1>5, <1>10
    <3> QED  BY <3>1, <3>2
  <2>4. OpenInv'
    <3> SUFFICES ASSUME NEW x \in Sockets, ws'[x] = "open"
                 PROVE  x \in lookup' \cup stranded' \/ Listed(x)' \/ Tunnelled(x)'
      BY DEF OpenInv
    <3>1. x \in lookup \cup stranded \/ Listed(x) \/ Tunnelled(x)
      BY <1>1, <1>5 DEF OpenInv
    <3> QED  BY <3>1, <2>2, <1>5, <1>10
  <2> QED  BY <2>3, <2>4
<1>f. SaidInv'
  <2>1. /\ \A u \in Servers : u \notin peerServers[u]
        /\ \A n \in said :
              n.from # n.to /\ HeldThen(n.from, n.id) /\ n.from \in peerServers[n.to]
        /\ \A u \in Servers, j \in Ids : wsPeerRelays[u][j] # 0 =>
              wsPeerRelays[u][j] # u /\ HeldThen(wsPeerRelays[u][j], j)
    <3>1. /\ \A n \in said : n.from \in Servers /\ n.id \in Ids
          /\ \A u \in Servers, j \in Ids : wsPeerRelays[u][j] \in Servers \cup {0}
      BY <1>1 DEF TypeOK, Messages
    <3> QED  BY <1>1, <1>11, <3>1 DEF SaidInv
  <2> QED  BY <1>5, <2>1 DEF SaidInv, Held, HeldThen
<1>g. TunnelInv'
  <2>1. ASSUME NEW k \in Tunnels, tun'[k] # NoTunnel
        PROVE  /\ tun'[k].from \in Ends \ lookup' /\ ws'[tun'[k].from] # "none"
               /\ home'[tun'[k].from] < tun'[k].to
               /\ ws'[k] # "none" => home'[k] = tun'[k].to
               /\ url'[tun'[k].from] # NoId =>
                     /\ tun'[k].from \in users'[url'[tun'[k].from]]
                     /\ HeldThen(tun'[k].to, url'[tun'[k].from])
               /\ id'[tun'[k].from] # NoId => HeldThen(tun'[k].to, id'[tun'[k].from])
    <3>1. CASE k = t
      <4>1. tun'[k].from = p /\ tun'[k].to = w
        BY <3>1, <1>8
      <4>2. HeldThen(w, i)
        BY <1>3, <1>4, <1>11
      <4> QED  BY <3>1, <4>1, <4>2, <1>4, <1>5, <1>6, <1>7, <1>8
    <3>2. CASE k # t
      <4>1. tun'[k] = tun[k] /\ tun[k] # NoTunnel
        BY <3>2, <2>1, <1>8
      <4>2. /\ tun[k].from \in Ends \ lookup /\ ws[tun[k].from] # "none"
            /\ home[tun[k].from] < tun[k].to
            /\ ws[k] # "none" => home[k] = tun[k].to
            /\ url[tun[k].from] # NoId =>
                  /\ tun[k].from \in users[url[tun[k].from]]
                  /\ Held(tun[k].to, url[tun[k].from])
            /\ id[tun[k].from] # NoId => Held(tun[k].to, id[tun[k].from])
        BY <4>1, <1>1 DEF TunnelInv
      <4>3. /\ tun[k].to \in Servers /\ tun[k].from \in Sockets
            /\ url[tun[k].from] \in Ids \cup {NoId} /\ id[tun[k].from] \in Ids \cup {NoId}
        BY <4>1, <1>1 DEF TypeOK
      <4> QED  BY <4>1, <4>2, <4>3, <1>5, <1>11
    <3> QED  BY <3>1, <3>2
  <2>2. \A k \in Tunnels : ws'[k] # "none" => tun'[k] # NoTunnel
    BY <1>1, <1>5, <1>8 DEF TunnelInv
  <2>3. \A j \in Ids : \A k \in users'[j] \cap Tunnels :
           tun'[k] # NoTunnel /\ url'[tun'[k].from] = j
    BY <1>1, <1>5, <1>8 DEF TunnelInv
  <2> QED  BY <2>1, <2>2, <2>3 DEF TunnelInv, Held, HeldThen
<1>h. ToldInv' /\ MeetingUnderWay'
  <2>1. \A u \in Servers, j \in Ids :
           wsrelays'[u][j].state = 1 => ~(u = v /\ j = i) /\ wsrelays'[u][j] = wsrelays[u][j]
    BY <1>9 DEF None
  <2>2. ToldInv'
    <3> SUFFICES ASSUME NEW u \in Servers, NEW y \in Servers, NEW j \in Ids, u < y,
                        wsrelays'[y][j].state = 1
                 PROVE  \/ [from |-> y, to |-> u, id |-> j] \in said' \cup missed
                        \/ wsPeerRelays[u][j] = y \/ wsrelays'[y][j].peer1 \in denied
                        \/ \E x \in users[j] \ {wsrelays'[y][j].peer1} :
                              home[x] # u \/ x \notin lookup
      BY <1>5 DEF ToldInv
    <3>1. wsrelays'[y][j] = wsrelays[y][j] /\ home[wsrelays[y][j].peer1] = y
      BY <2>1, <1>1 DEF WaitingInv
    <3>2. CASE [from |-> y, to |-> u, id |-> j] = m
      <4>1. u = v /\ y = w /\ j = i
        BY <3>2 DEF w, i, v
      <4> QED  BY <3>1, <4>1, <1>4, <1>7
    <3>3. CASE [from |-> y, to |-> u, id |-> j] # m
      BY <3>1, <3>3, <1>1 DEF ToldInv
    <3> QED  BY <3>2, <3>3
  <2>3. MeetingUnderWay'
    <3> SUFFICES ASSUME NEW u \in Servers, NEW y \in Servers, NEW j \in Ids, u < y,
                        wsrelays'[u][j].state = 1, wsrelays'[y][j].state = 1,
                        wsrelays'[u][j].peer1 \in here, wsrelays'[y][j].peer1 \notin denied
                 PROVE  [from |-> y, to |-> u, id |-> j] \in said' \cup missed
      BY <1>5 DEF MeetingUnderWay
    <3>1. ~(u = v /\ j = i) /\ [from |-> y, to |-> u, id |-> j] \in said \cup missed
      BY <2>1, <1>1 DEF MeetingUnderWay
    <3>2. [from |-> y, to |-> u, id |-> j] # m
      BY <3>1 DEF v, i
    <3> QED  BY <3>1, <3>2
  <2> QED  BY <2>2, <2>3
<1> QED  BY <1>t, <1>a, <1>b, <1>c, <1>d, <1>e, <1>f, <1>g, <1>h, <1>i DEF IInv

\* What a server hears of an id that it holds, when it opens no tunnel.
LEMMA UnsaidKeeps ==
    ASSUME IInv, NEW m \in said, said' = said \ {m}, wsrelays[m.to][m.id] # None,
           ~(m.from > m.to /\ wsrelays[m.to][m.id].peer1 \in here),
           UNCHANGED <<sockVars, objVars, askVars, timer, wsrelays, wsPeerRelays, peerServers,
                       missed, tunVars, cut, recVars, users>>
    PROVE  IInv'
<1>1. /\ TypeOK /\ WaitingInv /\ PairedInv /\ SaidInv /\ ToldInv /\ MeetingUnderWay
  BY DEF IInv
<1>2. m \in [from : Servers, to : Servers, id : Ids]
  BY <1>1 DEF TypeOK, Messages
<1>3. m.to \in Servers /\ m.id \in Ids /\ m.from \in Servers
  BY <1>2
<1>5. UNCHANGED <<home, here, lookup, denied, wsrelays, wsPeerRelays, peerServers, missed, users>>
  BY DEF sockVars, objVars, askVars
<1>6. TypeOK'
  <2>1. /\ said' \subseteq Messages /\ missed' \subseteq Messages
        /\ wsPeerRelays' \in [Servers -> [Ids -> Servers \cup {0}]]
        /\ peerServers' \in [Servers -> SUBSET Servers]
    BY <1>1, <1>5 DEF TypeOK
  <2> QED  BY <1>1, <2>1, WordTypes
<1>7. SaidInv'
  BY <1>1, <1>5 DEF SaidInv, Held
<1>10. ToldInv'
  <2> SUFFICES ASSUME NEW u \in Servers, NEW w \in Servers, NEW j \in Ids, u < w,
                      wsrelays[w][j].state = 1
               PROVE  \/ [from |-> w, to |-> u, id |-> j] \in said' \cup missed
                      \/ wsPeerRelays[u][j] = w \/ wsrelays[w][j].peer1 \in denied
                      \/ \E x \in users[j] \ {wsrelays[w][j].peer1} :
                            home[x] # u \/ x \notin lookup
    BY <1>5 DEF ToldInv
  <2>1. CASE [from |-> w, to |-> u, id |-> j] = m
    <3>1. m.to = u /\ m.id = j
      BY <2>1
    <3>2. wsrelays[u][j].peer1 \in users[j] \ lookup /\ home[wsrelays[u][j].peer1] = u
      BY <1>1, <3>1, FirstListed
    <3>3. home[wsrelays[w][j].peer1] = w /\ u # w
      BY <1>1, Consts DEF WaitingInv
    <3> QED  BY <3>2, <3>3
  <2>2. CASE [from |-> w, to |-> u, id |-> j] # m
    BY <2>2, <1>1 DEF ToldInv
  <2> QED  BY <2>1, <2>2
<1>11. MeetingUnderWay'
  <2> SUFFICES ASSUME NEW u \in Servers, NEW w \in Servers, NEW j \in Ids, u < w,
                      wsrelays[u][j].state = 1, wsrelays[w][j].state = 1,
                      wsrelays[u][j].peer1 \in here, wsrelays[w][j].peer1 \notin denied
               PROVE  [from |-> w, to |-> u, id |-> j] \in said' \cup missed
    BY <1>5 DEF MeetingUnderWay
  <2>1. [from |-> w, to |-> u, id |-> j] \in said \cup missed
    BY <1>1 DEF MeetingUnderWay
  <2>2. ASSUME [from |-> w, to |-> u, id |-> j] = m  PROVE FALSE
    <3>1. m.to = u /\ m.id = j /\ m.from = w
      BY <2>2
    <3> QED  BY <3>1, Consts
  <2> QED  BY <2>1, <2>2
<1> QED  BY <1>6, <1>7, <1>10, <1>11, WordsApart DEF IInv

\* What a server hears from a peer.
LEMMA HearsKeeps ==
    ASSUME IInv, NEW m \in said, HearsRelay(m)
    PROVE  IInv'
<1>1. /\ said' = said \ {m}
      /\ UNCHANGED <<sockVars, objVars, askVars, timer, peerServers, missed, stranded, cut,
                     recVars, users>>
  BY DEF HearsRelay
<1>2. CASE wsrelays[m.to][m.id] = None
  <2>1. UNCHANGED <<tunVars, wsrelays>>
    BY <1>1, <1>2 DEF HearsRelay, tunVars
  <2>2. TypeOK' /\ SaidInv' /\ ToldInv' /\ MeetingUnderWay'
    <3>1. PICK old \in SUBSET {j \in Ids \ {m.id} :
                        \A s \in Sockets : id[s] = j => home[s] # wsPeerRelays[m.to][j]} :
                      wsPeerRelays' = [wsPeerRelays EXCEPT ![m.to] =
                          [j \in Ids |-> CASE j = m.id -> m.from
                                           [] j \in old -> 0
                                           [] OTHER -> wsPeerRelays[m.to][j]]]
      BY <1>2, Zenon DEF HearsRelay
    <3> QED  BY <3>1, <1>1, <1>2, <2>1, HeardKeeps, Zenon
  <2> QED  BY <1>1, <2>1, <2>2, WordsApart DEF IInv
<1>3. CASE wsrelays[m.to][m.id] # None
  <2>1. UNCHANGED wsPeerRelays
    BY <1>3 DEF HearsRelay
  <2>2. CASE m.from > m.to /\ wsrelays[m.to][m.id].peer1 \in here
    <3> SUFFICES ASSUME NEW p, p = wsrelays[m.to][m.id].peer1  PROVE IInv'
      OBVIOUS
    <3>1. /\ OpenTunnel(p, m.from, HasUser(p, origin[p]))
          /\ wsrelays' = [wsrelays EXCEPT ![m.to][m.id] = None]
      BY <1>3, <2>2 DEF HearsRelay
    <3>2. PICK t \in Tunnels \ {p} :
             /\ tun[t] = NoTunnel
             /\ tun' = [tun EXCEPT ![t] =
                          [from |-> p, to |-> m.from, user |-> HasUser(p, origin[p])]]
      BY <3>1 DEF OpenTunnel
    <3>3. HasUser(p, origin[p]) \in BOOLEAN
      <4>1. ASSUME p \in Tunnels  PROVE tun[p].user \in BOOLEAN
        <5>1. tun[p] \in {NoTunnel} \cup [from : Sockets, to : Servers, user : BOOLEAN]
          BY <4>1 DEF IInv, TypeOK
        <5>2. NoTunnel.user \in BOOLEAN
          BY DEF NoTunnel
        <5>3. ASSUME NEW r \in [from : Sockets, to : Servers, user : BOOLEAN]
              PROVE  r.user \in BOOLEAN
          OBVIOUS
        <5> QED  BY <5>1, <5>2, <5>3, Zenon
      <4>2. p \in Tunnels => HasUser(p, origin[p]) \in BOOLEAN
        BY <4>1, Zenon DEF HasUser
      <4>3. p \notin Tunnels => HasUser(p, origin[p]) \in BOOLEAN
        BY DEF HasUser
      <4> QED  BY <4>2, <4>3, Zenon
    <3> QED  BY <1>1, <1>3, <2>1, <2>2, <3>1, <3>2, <3>3, OpensKeeps
  <2>3. CASE ~(m.from > m.to /\ wsrelays[m.to][m.id].peer1 \in here)
    <3>1. UNCHANGED <<tunVars, wsrelays>>
      BY <1>1, <1>3, <2>3 DEF HearsRelay, tunVars
    <3> QED  BY <1>1, <1>3, <2>1, <2>3, <3>1, UnsaidKeeps
  <2> QED  BY <2>2, <2>3
<1> QED  BY <1>2, <1>3

-----------------------------------------------------------------------------
\* A tunnel that ends closes the connection it goes on for.
LEMMA TunnelEndsKeeps ==
    ASSUME IInv, NEW t \in Tunnels, TunnelEnds(t)
    PROVE  IInv'
<1>1. /\ TypeOK /\ CameInv /\ LookupInv /\ DeniedInv /\ StrandedInv /\ WaitingInv /\ PairedInv /\ PeerInv /\ PlacedInv
      /\ TwoHomes /\ SaidInv /\ TunnelInv /\ ToldInv /\ FreshInv /\ RecordedInv
      /\ OpenInv /\ MeetingUnderWay /\ RecordingEndsOnce
  BY DEF IInv
<1>2. UNCHANGED <<home, origin, url, id, here, peer, lookup, denied, timer, wsrelays,
                  wsPeerRelays, peerServers, said, missed, tun, stranded, log, file, users>>
  BY DEF TunnelEnds, sockVars, askVars, msgVars, tunVars, recVars
<1>3. tun[t].from \in Sockets
  BY <1>1, Consts DEF TunnelEnds, TunnelInv
<1>4. /\ ws' \in [Sockets -> WsStates]
      /\ \A x \in Sockets : /\ ws'[x] = "none" <=> ws[x] = "none"
                            /\ ws'[x] = "open" => ws[x] = "open"
                            /\ ws[x] \in {"closing", "closed"} => ws'[x] = ws[x]
  BY <1>1, <1>3 DEF TypeOK, TunnelEnds, Shut, WsStates
<1>5. TypeOK'
  <2>1. cut' \subseteq Tunnels
    BY <1>1 DEF TunnelEnds, TypeOK
  <2>2. /\ home' \in [Sockets -> Servers \cup {0}]
        /\ origin' \in [Sockets -> Ends \cup {NoSock}]
        /\ url' \in [Sockets -> Ids \cup {NoId}] /\ id' \in [Sockets -> Ids \cup {NoId}]
        /\ here' \subseteq Sockets /\ lookup' \subseteq Routed /\ timer' \subseteq Sockets
        /\ denied' \subseteq Sockets /\ peer' \in [Sockets -> Sockets \cup {NoSock}]
    BY <1>1, <1>2 DEF TypeOK
  <2>3. wsrelays' \in RelayTable
    BY <1>1, <1>2, Table
  <2>4. said' \subseteq Messages /\ missed' \subseteq Messages
    BY <1>1, <1>2 DEF TypeOK
  <2>5. /\ log' \in [Sockets -> Sockets \cup {NoSock}]
        /\ peerServers' \in [Servers -> SUBSET Servers] /\ stranded' \subseteq Sockets
        /\ wsPeerRelays' \in [Servers -> [Ids -> Servers \cup {0}]]
        /\ tun' \in [Tunnels -> {NoTunnel} \cup [from : Sockets, to : Servers, user : BOOLEAN]]
        /\ file' \in [Sockets -> FileStates] /\ users' \in [Ids -> SUBSET Sockets]
    BY <1>1, <1>2 DEF TypeOK
  <2> QED  BY <1>4, <2>1, <2>2, <2>3, <2>4, <2>5, TypedThen
<1>u. /\ here \cup lookup \cup timer \subseteq Sockets
      /\ \A i \in Ids : users[i] \subseteq Sockets
  BY <1>1, Consts DEF TypeOK
<1>6. CameInv' /\ FreshInv'
  BY <1>1, <1>2, <1>4, <1>u DEF CameInv, FreshInv
<1>11. DeniedInv' /\ StrandedInv'
  <2>1. denied \subseteq Sockets /\ stranded \subseteq Sockets
    BY <1>1 DEF TypeOK
  <2> QED  BY <1>1, <1>2, <1>4, <2>1 DEF DeniedInv, StrandedInv, Held
<1>7. LookupInv' /\ TwoHomes' /\ RecordingEndsOnce' /\ ToldInv' /\ MeetingUnderWay'
  BY <1>1, <1>2 DEF LookupInv, TwoHomes, RecordingEndsOnce, ToldInv, MeetingUnderWay
<1>8. WaitingInv' /\ PairedInv' /\ PeerInv' /\ RecordedInv'
  BY <1>1, <1>2 DEF WaitingInv, PairedInv, PeerInv, RecordedInv, Side, Tunnelled
<1>9. PlacedInv' /\ OpenInv' /\ SaidInv'
  BY <1>1, <1>2, <1>4 DEF PlacedInv, OpenInv, SaidInv, Listed, Tunnelled, Held
<1>10. TunnelInv'
  <2>1. \A k \in Tunnels : tun[k] # NoTunnel => tun[k].from \in Sockets
    BY <1>1, Consts DEF TunnelInv
  <2>2. \A k \in Tunnels : k \in Sockets
    BY Consts
  <2> QED  BY <1>1, <1>2, <1>4, <2>1, <2>2 DEF TunnelInv, Held
<1> QED  BY <1>5, <1>6, <1>7, <1>8, <1>9, <1>10, <1>11 DEF IInv

\* The end of the connection with a peer, and a new one.
LEMMA PeersKeep ==
    ASSUME IInv, NEW v \in Servers, NEW w \in Servers, PeerLost(v, w) \/ PeerFound(v, w)
    PROVE  IInv'
<1>1. /\ TypeOK /\ SaidInv /\ ToldInv /\ MeetingUnderWay
  BY DEF IInv
<1>2. /\ UNCHANGED <<sockVars, objVars, askVars, timer, wsrelays, wsPeerRelays, tunVars, cut,
                     recVars, users>>
      /\ UNCHANGED <<home, here, lookup, denied>>
  BY DEF PeerLost, PeerFound, sockVars, objVars, askVars
<1>3. /\ said' \subseteq said /\ missed' \subseteq said \cup missed
      /\ said \cup missed \subseteq said' \cup missed'
  BY DEF PeerLost, PeerFound, msgVars
<1>4. peerServers \in [Servers -> SUBSET Servers] /\ peerServers' \in [Servers -> SUBSET Servers]
  <2>1. peerServers \in [Servers -> SUBSET Servers]
    BY <1>1 DEF TypeOK
  <2> QED  BY <2>1 DEF PeerLost, PeerFound
<1>5. TypeOK'
  <2>1. said' \subseteq Messages /\ missed' \subseteq Messages
    BY <1>1, <1>3 DEF TypeOK
  <2>2. wsPeerRelays' \in [Servers -> [Ids -> Servers \cup {0}]]
    BY <1>1, <1>2 DEF TypeOK
  <2> QED  BY <1>1, <1>2, <1>4, <2>1, <2>2, WordTypes
<1>6. SaidInv'
  <2>1. \A u \in Servers : u \notin peerServers'[u]
    BY <1>1, <1>4 DEF PeerLost, PeerFound, SaidInv
  <2>2. \A m \in said' : m \in said /\ m \in [from : Servers, to : Servers, id : Ids]
    BY <1>1, <1>3 DEF TypeOK, Messages
  <2>3. ASSUME NEW m \in said'  PROVE m.from \in peerServers'[m.to]
    <3>1. m.from \in peerServers[m.to] /\ m.to \in Servers
      BY <2>2, <1>1 DEF SaidInv
    <3>2. CASE PeerLost(v, w)
      <4>1. ~(m.from = w /\ m.to = v)
        BY <2>2, <3>2 DEF PeerLost
      <4> QED  BY <3>1, <3>2, <4>1, <1>4 DEF PeerLost
    <3>3. CASE PeerFound(v, w)
      BY <3>1, <3>3, <1>4 DEF PeerFound
    <3> QED  BY <3>2, <3>3
  <2>4. UNCHANGED <<home, lookup, wsPeerRelays, users>>
    BY <1>2
  <2> QED  BY <1>1, <2>1, <2>2, <2>3, <2>4 DEF SaidInv, Held
<1>7. ToldInv' /\ MeetingUnderWay'
  BY <1>1, <1>2, <1>3 DEF ToldInv, MeetingUnderWay
<1> QED  BY <1>2, <1>5, <1>6, <1>7, WordsApart DEF IInv

\* A user is refused its rights: it is cleaned, and nothing else.
LEMMA AccessDeniedKeeps ==
    ASSUME IInv, NEW s \in Sockets, AccessDenied(s)
    PROVE  IInv'
<1>1. /\ TypeOK /\ CameInv /\ LookupInv /\ DeniedInv /\ StrandedInv /\ WaitingInv /\ PairedInv
      /\ PeerInv /\ PlacedInv /\ TwoHomes /\ SaidInv /\ TunnelInv /\ ToldInv /\ FreshInv
      /\ RecordedInv /\ OpenInv /\ MeetingUnderWay /\ RecordingEndsOnce
  BY DEF IInv
<1>2. /\ s \in here /\ ws' = [ws EXCEPT ![s] = Shut(@)] /\ id' = [id EXCEPT ![s] = NoId]
      /\ peer' = [peer EXCEPT ![s] = NoSock]
      /\ here' = here \ {s} /\ timer' = timer \ {s} /\ denied' = denied \cup {s}
      /\ UNCHANGED <<home, origin, url, lookup, wsrelays, wsPeerRelays, peerServers, said,
                     missed, tun, stranded, cut, log, file, users>>
  BY DEF AccessDenied, sockVars, peerVars, msgVars, tunVars, recVars
<1>3. s \notin lookup /\ ws[s] # "none"
  <2>1. s \in lookup => s \in Ends /\ origin[s] = s /\ s \in Routed
    BY <1>1, Types DEF TypeOK, CameInv
  <2>2. origin[s] \notin Routed
    BY RelayAssumption DEF AccessDenied
  <2> QED  BY <2>1, <2>2, <1>1, <1>2 DEF CameInv
<1>4. /\ id'[s] = NoId /\ peer'[s] = NoSock /\ ws'[s] \in {"closing", "closed"}
      /\ \A x \in Sockets \ {s} : id'[x] = id[x] /\ peer'[x] = peer[x] /\ ws'[x] = ws[x]
      /\ \A x \in Sockets : ws'[x] = "none" <=> ws[x] = "none"
      /\ ws' \in [Sockets -> WsStates] /\ id' \in [Sockets -> Ids \cup {NoId}]
      /\ peer' \in [Sockets -> Sockets \cup {NoSock}]
  BY <1>1, <1>2, <1>3, Types DEF Shut, WsStates
<1>5. TypeOK'
  <2>1. /\ here' \subseteq Sockets /\ timer' \subseteq Sockets /\ denied' \subseteq Sockets
    BY <1>1, <1>2, Types
  <2>2. /\ home' \in [Sockets -> Servers \cup {0}]
        /\ origin' \in [Sockets -> Ends \cup {NoSock}]
        /\ url' \in [Sockets -> Ids \cup {NoId}] /\ lookup' \subseteq Routed
        /\ said' \subseteq Messages /\ missed' \subseteq Messages
    BY <1>1, <1>2 DEF TypeOK
  <2>3. wsrelays' \in RelayTable
    BY <1>1, <1>2, Table
  <2>4. /\ wsPeerRelays' \in [Servers -> [Ids -> Servers \cup {0}]]
        /\ peerServers' \in [Servers -> SUBSET Servers]
        /\ tun' \in [Tunnels -> {NoTunnel} \cup [from : Sockets, to : Servers, user : BOOLEAN]]
        /\ stranded' \subseteq Sockets /\ cut' \subseteq Tunnels
        /\ log' \in [Sockets -> Sockets \cup {NoSock}]
        /\ file' \in [Sockets -> FileStates] /\ users' \in [Ids -> SUBSET Sockets]
    BY <1>1, <1>2 DEF TypeOK
  <2> QED  BY <1>4, <2>1, <2>2, <2>3, <2>4, TypedThen
<1>u. /\ here \cup lookup \cup timer \cup denied \cup stranded \subseteq Sockets
      /\ \A i \in Ids : users[i] \subseteq Sockets
  BY <1>1, Consts DEF TypeOK
<1>6. CameInv'
  BY <1>1, <1>2, <1>4, <1>u DEF CameInv
<1>7. LookupInv' /\ DeniedInv' /\ TwoHomes'
  <2>1. LookupInv'
    BY <1>1, <1>2, <1>3, <1>4, <1>u DEF LookupInv
  <2>2. DeniedInv'
    BY <1>1, <1>2, <1>3, <1>4, <1>u DEF DeniedInv
  <2> QED  BY <1>1, <1>2, <2>1, <2>2 DEF TwoHomes
<1>8. \A x \in Sockets : Tunnelled(x)' <=> Tunnelled(x)
  BY <1>2 DEF Tunnelled
<1>9. WaitingInv'
  <2> SUFFICES ASSUME NEW u \in Servers, NEW j \in Ids, wsrelays[u][j].state = 1,
                      NEW p, p = wsrelays[u][j].peer1
               PROVE  /\ p \in users[j] \ lookup /\ home[p] = u /\ peer'[p] = NoSock
                      /\ p \in here' => id'[p] = j /\ ~Tunnelled(p)'
                      /\ id'[p] \in {j, NoId}
                      /\ id'[p] = j \/ p \in denied' \/ \E z \in users[j] \ {p} : home[z] = u
    BY <1>2 DEF WaitingInv, Tunnelled
  <2>1. /\ p \in users[j] \ lookup /\ home[p] = u /\ peer[p] = NoSock
        /\ p \in here => id[p] = j /\ ~Tunnelled(p)
        /\ id[p] \in {j, NoId}
        /\ id[p] = j \/ p \in denied \/ \E z \in users[j] \ {p} : home[z] = u
    BY <1>1 DEF WaitingInv
  <2>2. p \in Sockets
    BY <2>1, <1>u
  <2>3. CASE p = s
    BY <2>1, <2>3, <1>2, <1>4
  <2>4. CASE p # s
    BY <2>1, <2>2, <2>4, <1>2, <1>4, <1>8
  <2> QED  BY <2>3, <2>4
<1>10. PairedInv'
  <2> SUFFICES ASSUME NEW u \in Servers, NEW j \in Ids, NEW p, NEW q, wsrelays[u][j].state = 2,
                      p = wsrelays[u][j].peer1, q = wsrelays[u][j].peer2
               PROVE  p # q /\ Side(p, q, u, j)' /\ Side(q, p, u, j)'
    BY <1>2 DEF PairedInv, Side, Tunnelled
  <2>1. p # q /\ Side(p, q, u, j) /\ Side(q, p, u, j) /\ p \in Sockets /\ q \in Sockets
    BY <1>1, Entries DEF PairedInv
  <2>2. ASSUME NEW z \in Sockets, NEW x, Side(z, x, u, j)  PROVE Side(z, x, u, j)'
    BY <2>2, <1>2, <1>4, <1>8 DEF Side
  <2> QED  BY <2>1, <2>2
<1>11. PeerInv' /\ RecordedInv'
  BY <1>1, <1>2, <1>4 DEF PeerInv, RecordedInv
<1>12. PlacedInv' /\ OpenInv'
  <2>1. ASSUME NEW x \in Sockets \ {s}  PROVE Listed(x)' <=> Listed(x)
    BY <1>2, <1>4 DEF Listed
  <2>2. PlacedInv'
    BY <2>1, <1>1, <1>2, <1>4, <1>8 DEF PlacedInv
  <2>3. OpenInv'
    BY <2>1, <1>1, <1>2, <1>4, <1>8 DEF OpenInv
  <2> QED  BY <2>2, <2>3
<1>13. StrandedInv' /\ SaidInv' /\ ToldInv'
  <2>1. StrandedInv'
    BY <1>1, <1>2, <1>4, <1>u DEF StrandedInv, Held
  <2>2. SaidInv'
    BY <1>1, <1>2 DEF SaidInv, Held
  <2>3. ToldInv'
    BY <1>1, <1>2 DEF ToldInv
  <2> QED  BY <2>1, <2>2, <2>3
<1>14. TunnelInv'
  <2>1. \A t \in Tunnels : tun[t] # NoTunnel => tun[t].from \in Sockets
    BY <1>1, Consts DEF TunnelInv
  <2>2. \A t \in Tunnels : t \in Sockets
    BY Consts
  <2>3. \A x \in Sockets : id'[x] \in {id[x], NoId}
    BY <1>4
  <2>4. UNCHANGED <<home, url, lookup, tun, users>>
    BY <1>2
  <2> QED  BY <1>1, <1>4, <2>1, <2>2, <2>3, <2>4 DEF TunnelInv, Held
<1>15. FreshInv' /\ MeetingUnderWay'
  BY <1>1, <1>2, <1>4 DEF FreshInv, MeetingUnderWay
<1>16. RecordingEndsOnce'
  <2>1. \A x \in Sockets : file[x] # "twice"
    BY <1>1 DEF RecordingEndsOnce
  <2> QED  BY <2>1, <1>2, <1>4, EndsStay
<1> QED  BY <1>5, <1>6, <1>7, <1>9, <1>10, <1>11, <1>12, <1>13, <1>14, <1>15, <1>16 DEF IInv

-----------------------------------------------------------------------------
\* What the steps of a recording leave alone.
LEMMA RecordKeeps ==
    ASSUME IInv, log' \in [Sockets -> Sockets \cup {NoSock}],
           file' \in [Sockets -> FileStates],
           UNCHANGED <<sockVars, objVars, askVars, timer, wsrelays, peerVars, users>>,
           FreshInv', RecordedInv', RecordingEndsOnce'
    PROVE  IInv'
<1>1. /\ TypeOK /\ CameInv /\ LookupInv /\ DeniedInv /\ WaitingInv /\ PairedInv /\ PeerInv
      /\ PlacedInv /\ TwoHomes /\ StrandedInv /\ SaidInv /\ TunnelInv /\ ToldInv /\ OpenInv
      /\ MeetingUnderWay
  BY DEF IInv
<1>2. UNCHANGED <<ws, home, origin, url, id, here, peer, lookup, denied, timer, wsrelays,
                  wsPeerRelays, peerServers, said, missed, tun, stranded, cut, users>>
  BY DEF sockVars, objVars, askVars, peerVars, msgVars, tunVars
<1>3. TypeOK'
  BY <1>1, <1>2 DEF TypeOK
<1>4. CameInv' /\ LookupInv' /\ DeniedInv' /\ TwoHomes' /\ ToldInv' /\ MeetingUnderWay'
  BY <1>1, <1>2 DEF CameInv, LookupInv, DeniedInv, TwoHomes, ToldInv, MeetingUnderWay
<1>5. WaitingInv' /\ PairedInv' /\ PeerInv'
  BY <1>1, <1>2 DEF WaitingInv, PairedInv, PeerInv, Side, Tunnelled
<1>6. PlacedInv' /\ OpenInv' /\ SaidInv' /\ TunnelInv' /\ StrandedInv'
  BY <1>1, <1>2 DEF PlacedInv, OpenInv, SaidInv, TunnelInv, StrandedInv, Listed, Tunnelled, Held
<1> QED  BY <1>3, <1>4, <1>5, <1>6 DEF IInv

\* A recording starts: the connections that are given the file had none, and the
\* session is listed with its name.
LEMMA StartsKeeps ==
    ASSUME IInv, NEW s \in Sockets, RecordingStarts(s)
    PROVE  IInv'
<1> DEFINE first == {p \in here : peer[p] = s}
<1>1. /\ TypeOK /\ CameInv /\ DeniedInv /\ PairedInv /\ PeerInv /\ FreshInv /\ RecordedInv
      /\ RecordingEndsOnce
  BY DEF IInv
<1>2. UNCHANGED <<sockVars, objVars, askVars, timer, wsrelays, peerVars, users>>
  BY DEF RecordingStarts
<1>3. /\ log \in [Sockets -> Sockets \cup {NoSock}] /\ file \in [Sockets -> FileStates]
      /\ peer \in [Sockets -> Sockets \cup {NoSock}] /\ here \subseteq Sockets
  BY <1>1, Types
<1>4. /\ file[s] = "opening" /\ ws[s] # "none" /\ s \notin lookup
      /\ s \in here => peer[s] # NoSock
  BY <1>1 DEF RecordingStarts, FreshInv
<1>5. UNCHANGED <<ws, home, id, here, peer, lookup, denied, wsrelays>>
  BY <1>2 DEF sockVars, objVars, askVars
<1>6. /\ first \subseteq Sockets
      /\ log' = [x \in Sockets |-> IF x \in first \cup {s} THEN s ELSE log[x]]
      /\ file' = [file EXCEPT ![s] = IF first = {} /\ peer[s] = NoSock THEN "lost" ELSE "open"]
  BY <1>3 DEF RecordingStarts
<1>7. /\ log' \in [Sockets -> Sockets \cup {NoSock}] /\ file' \in [Sockets -> FileStates]
      /\ \A x \in Sockets : log'[x] = IF x \in first \cup {s} THEN s ELSE log[x]
      /\ \A x \in Sockets \ {s} : file'[x] = file[x]
      /\ file'[s] \in {"lost", "open"}
      /\ first # {} \/ peer[s] # NoSock => file'[s] = "open"
      /\ file'[s] = "open" => first # {} \/ peer[s] # NoSock
  BY <1>3, <1>6 DEF FileStates
\* Who is given the file and is in the session had none.
<1>8. ASSUME NEW y \in first \cup {s}, peer[y] # NoSock
      PROVE  /\ log[y] = NoSock /\ file'[s] = "open" /\ home[y] = home[s]
             /\ wsrelays[home[y]][id[y]].state = 2 /\ wsrelays[home[y]][id[y]].peer2 = s
             /\ id[y] \in Ids /\ y \in Sockets
  <2>1. y \in Sockets /\ s \in {y, peer[y]}
    BY <1>3
  <2>2. wsrelays[home[y]][id[y]].peer2 = s
    BY <2>1, <1>1, <1>4, <1>8 DEF RecordedInv
  <2>3. log[y] = NoSock
    BY <2>1, <2>2, <1>1, <1>4, <1>8 DEF RecordedInv
  <2>4. file'[s] = "open"
    BY <1>7, <1>8
  <2>5. /\ home[peer[y]] = home[y] /\ wsrelays[home[y]][id[y]].state = 2 /\ id[y] \in Ids
    BY <2>1, <1>1, <1>8, Partners
  <2> QED  BY <2>1, <2>2, <2>3, <2>4, <2>5
<1>9. \A y \in first : y \in here /\ y \in Sockets /\ peer[y] = s /\ peer[y] # NoSock
  BY <1>3, Consts
<1> HIDE DEF first
<1>10. FreshInv'
  <2>1. \A y \in first : ws[y] # "none" /\ y \notin lookup
    BY <1>1, <1>9, Partners DEF CameInv
  <2> QED  BY <2>1, <1>1, <1>4, <1>5, <1>7, <1>9 DEF FreshInv
<1>11. RecordedInv'
  <2> SUFFICES ASSUME NEW x \in Sockets, peer[x] # NoSock
               PROVE  /\ log'[x] # NoSock => /\ log'[x] = wsrelays[home[x]][id[x]].peer2
                                             /\ file'[log'[x]] = "open"
                      /\ \A y \in {x, peer[x]} :
                            file'[y] # "none" => wsrelays[home[x]][id[x]].peer2 = y
    BY <1>5 DEF RecordedInv
  <2>1. /\ log[x] # NoSock =>
              log[x] = wsrelays[home[x]][id[x]].peer2 /\ file[log[x]] = "open"
        /\ \A y \in {x, peer[x]} :
              file[y] # "none" => wsrelays[home[x]][id[x]].peer2 = y
    BY <1>1 DEF RecordedInv
  <2>2. \A y \in {x, peer[x]} : y \in Sockets /\ (file'[y] # "none" => file[y] # "none")
    BY <1>3, <1>4, <1>7
  <2>3. CASE x \in first \cup {s}
    BY <2>1, <2>2, <2>3, <1>7, <1>8
  <2>4. CASE x \notin first \cup {s}
    <3>1. log'[x] = log[x] /\ (log[x] # NoSock => log[x] # s /\ log[x] \in Sockets)
      BY <2>1, <2>4, <1>3, <1>4, <1>7
    <3> QED  BY <2>1, <2>2, <3>1, <1>7
  <2> QED  BY <2>3, <2>4
<1>12. RecordingEndsOnce'
  <2> SUFFICES ASSUME NEW x \in Sockets
               PROVE  /\ file'[x] # "twice"
                      /\ file'[x] = "open" => \E i \in Ids :
                            /\ wsrelays[home[x]][i].state = 2 /\ wsrelays[home[x]][i].peer2 = x
                            /\ \A y \in {wsrelays[home[x]][i].peer1, x} \ denied :
                                  log'[y] = x /\ id[y] = i
    BY <1>5 DEF RecordingEndsOnce
  <2>1. CASE x = s
    <3>1. file'[x] # "twice"
      BY <2>1, <1>7
    <3> SUFFICES ASSUME file'[s] = "open"
                 PROVE  \E i \in Ids :
                           /\ wsrelays[home[s]][i].state = 2 /\ wsrelays[home[s]][i].peer2 = s
                           /\ \A y \in {wsrelays[home[s]][i].peer1, s} \ denied :
                                 log'[y] = s /\ id[y] = i
      BY <2>1, <3>1
    <3>2. PICK y \in first \cup {s} : peer[y] # NoSock
      BY <1>7, <1>9
    <3> DEFINE i == id[y]
               q == wsrelays[home[s]][i].peer1
    <3>3. /\ i \in Ids /\ wsrelays[home[s]][i].state = 2 /\ wsrelays[home[s]][i].peer2 = s
          /\ home[s] \in Servers
      BY <3>2, <1>1, <1>4, <1>8 DEF CameInv
    <3>4. Side(q, s, home[s], i) /\ Side(s, q, home[s], i) /\ q \in Sockets
      BY <3>3, <1>1, Entries DEF PairedInv
    <3> HIDE DEF q
    <3>5. \A z \in {q, s} \ denied : z \in first \cup {s} /\ z \in Sockets /\ id[z] = i
      BY <3>4 DEF Side, first
    <3>6. \A z \in {q, s} \ denied : log'[z] = s
      BY <3>5, <1>7
    <3> QED  BY <3>3, <3>5, <3>6 DEF q
  <2>2. CASE x # s
    <3>1. file'[x] = file[x] /\ file[x] # "twice"
      BY <2>2, <1>1, <1>7 DEF RecordingEndsOnce
    <3> SUFFICES ASSUME file[x] = "open"
                 PROVE  \E i \in Ids :
                           /\ wsrelays[home[x]][i].state = 2 /\ wsrelays[home[x]][i].peer2 = x
                           /\ \A y \in {wsrelays[home[x]][i].peer1, x} \ denied :
                                 log'[y] = x /\ id[y] = i
      BY <3>1
    <3>2. PICK i \in Ids : /\ wsrelays[home[x]][i].state = 2 /\ wsrelays[home[x]][i].peer2 = x
                           /\ \A y \in {wsrelays[home[x]][i].peer1, x} \ denied :
                                 log[y] = x /\ id[y] = i
      BY <1>1 DEF RecordingEndsOnce
    <3> DEFINE q == wsrelays[home[x]][i].peer1
    <3>3. home[x] \in Servers
      BY <1>1 DEF FreshInv, CameInv
    <3>4. Side(q, x, home[x], i) /\ Side(x, q, home[x], i) /\ q \in Sockets
      BY <3>2, <3>3, <1>1, Entries DEF PairedInv
    <3> HIDE DEF q
    <3>5. ASSUME NEW y \in {q, x} \ denied  PROVE log'[y] = x
      <4>1. y \in Sockets /\ peer[y] # NoSock /\ log[y] = x
        BY <3>2, <3>4, Consts DEF Side, q
      <4>2. y \notin first \cup {s}
        BY <4>1, <1>8, Consts
      <4> QED  BY <4>1, <4>2, <1>7
    <3> QED  BY <3>2, <3>5 DEF q
  <2> QED  BY <2>1, <2>2
<1> QED  BY <1>2, <1>7, <1>10, <1>11, <1>12, RecordKeeps

\* A recording that is not made, and one that is closed at the end.
LEMMA EndsKeeps ==
    ASSUME IInv, NEW s \in Sockets, NotRecorded(s) \/ RecordingCloses(s)
    PROVE  IInv'
<1>1. TypeOK /\ FreshInv /\ RecordedInv /\ RecordingEndsOnce
  BY DEF IInv
<1>2. /\ UNCHANGED <<sockVars, objVars, askVars, timer, wsrelays, peerVars, users>>
      /\ log' = log /\ file[s] \in {"opening", "ending"}
  BY DEF NotRecorded, RecordingCloses
<1>3. log \in [Sockets -> Sockets \cup {NoSock}] /\ file \in [Sockets -> FileStates]
  BY <1>1 DEF TypeOK
<1>4. UNCHANGED <<ws, home, id, here, peer, lookup, denied, wsrelays>>
  BY <1>2 DEF sockVars, objVars, askVars
<1>5. /\ file' \in [Sockets -> FileStates] /\ file'[s] \in {"none", "closed"}
      /\ \A x \in Sockets \ {s} : file'[x] = file[x]
  BY <1>3 DEF NotRecorded, RecordingCloses, FileStates
<1>6. FreshInv'
  BY <1>1, <1>2, <1>4, <1>5 DEF FreshInv
<1>7. RecordedInv'
  <2> SUFFICES ASSUME NEW x \in Sockets, peer[x] # NoSock
               PROVE  /\ log[x] # NoSock => /\ log[x] = wsrelays[home[x]][id[x]].peer2
                                            /\ file'[log[x]] = "open"
                      /\ \A y \in {x, peer[x]} :
                            file'[y] # "none" => wsrelays[home[x]][id[x]].peer2 = y
    BY <1>2, <1>4 DEF RecordedInv
  <2>1. /\ log[x] # NoSock =>
              log[x] = wsrelays[home[x]][id[x]].peer2 /\ file[log[x]] = "open"
        /\ \A y \in {x, peer[x]} :
              file[y] # "none" => wsrelays[home[x]][id[x]].peer2 = y
    BY <1>1 DEF RecordedInv
  <2>2. \A y \in {x, peer[x]} : y \in Sockets /\ (file'[y] # "none" => file[y] # "none")
    BY <1>1, <1>2, <1>5, Types
  <2>3. log[x] # NoSock => log[x] \in Sockets \ {s}
    BY <2>1, <1>2, <1>3
  <2> QED  BY <2>1, <2>2, <2>3, <1>5
<1>8. RecordingEndsOnce'
  <2>1. \A x \in Sockets : file'[x] # "twice" /\ (file'[x] = "open" => file[x] = "open")
    BY <1>1, <1>5 DEF RecordingEndsOnce
  <2> QED  BY <2>1, <1>2, <1>4, EndsStay
<1> QED  BY <1>2, <1>3, <1>5, <1>6, <1>7, <1>8, RecordKeeps

-----------------------------------------------------------------------------
\* A close event, an error, the timer, or the end of a cookie's time.
LEMMA EndKeeps ==
    ASSUME IInv, NEW s \in Sockets,
           Closed(s) \/ Fails(s) \/ TimesOut(s) \/ (s \in Ends /\ Expires(s))
    PROVE  IInv'
<1>1. TypeOK /\ CameInv
  BY DEF IInv
<1>2. cut \subseteq Tunnels /\ ws[s] \in WsStates
  BY <1>1 DEF TypeOK
<1>3. CASE Closed(s)
  BY <1>2, <1>3, CloseKeeps DEF Closed, CutTunnelsOf, WsStates
<1>4. CASE Fails(s)
  BY <1>2, <1>4, CloseKeeps DEF Fails, CutTunnelsOf, WsStates
<1>5. CASE TimesOut(s)
  BY <1>1, <1>2, <1>5, CloseKeeps DEF TimesOut, CameInv
<1>6. CASE Expires(s)
  BY <1>2, <1>6, CloseKeeps DEF Expires
<1> QED  BY <1>3, <1>4, <1>5, <1>6

\* What waited for the database and may not go on.
LEMMA NotRoutedKeeps ==
    ASSUME IInv, NEW s \in Ends, NotRouted(s)
    PROVE  IInv'
<1>1. TypeOK /\ CameInv
  BY DEF IInv
<1>2. s \in Sockets /\ s \notin Tunnels /\ s \in lookup /\ ws[s] \in WsStates \ {"none"}
  BY <1>1, Consts DEF NotRouted, CameInv, TypeOK
<1>3. TurnedAway(s, ws[s]) /\ lookup' = lookup \ {s} /\ denied' = denied
  BY DEF NotRouted
<1>4. home' = home /\ origin' = origin /\ url' = url /\ users' = users
  BY DEF NotRouted, sockVars
<1>5. /\ home' \in [Sockets -> Servers \cup {0}] /\ origin' \in [Sockets -> Ends \cup {NoSock}]
      /\ url' \in [Sockets -> Ids \cup {NoId}]
  BY <1>1, <1>4 DEF TypeOK
<1>6. home[s] \in Servers /\ origin[s] \in Ends /\ origin[s] = s
  BY <1>1, <1>2 DEF CameInv
<1> QED  BY <1>2, <1>3, <1>4, <1>5, <1>6, DropKeeps

\* A tunnel that brings no id is turned away.
LEMMA NoIdKeeps ==
    ASSUME IInv, NEW t \in Tunnels, TunnelComes(t), url[tun[t].from] = NoId
    PROVE  IInv'
<1>1. TypeOK /\ CameInv /\ TunnelInv
  BY DEF IInv
<1> DEFINE f == tun[t].from
           v == tun[t].to
<1>2. tun[t] # NoTunnel /\ Accepted(t, origin[f], v, NoId) /\ lookup' = lookup /\ denied' = denied
  BY DEF TunnelComes, askVars
<1>3. t \in Sockets /\ t \notin Ends /\ t \notin lookup /\ ws[t] = "none"
  BY <1>1, <1>2, Consts DEF Accepted, TypeOK
<1>4. f \in Ends /\ ws[f] # "none" /\ f \in Sockets
  BY <1>1, <1>2, Consts DEF TunnelInv
<1>5. v \in Servers /\ origin[f] \in Ends
  BY <1>1, <1>2, <1>4 DEF TypeOK, CameInv
<1>6. TurnedAway(t, "open")
  BY DEF TunnelComes, PerformRelay, Unwelcome
<1>7. users' = users
  <2>1. users \in [Ids -> SUBSET Sockets]
    BY <1>1 DEF TypeOK
  <2>2. users' = [j \in Ids |-> IF j = NoId THEN users[j] \cup {t} ELSE users[j]]
    BY <1>2 DEF Accepted
  <2>3. \A j \in Ids : users'[j] = users[j]
    BY <2>2, Consts
  <2> QED  BY <2>1, <2>2, <2>3
<1>8. /\ home' \in [Sockets -> Servers \cup {0}]
      /\ origin' \in [Sockets -> Ends \cup {NoSock}] /\ url' \in [Sockets -> Ids \cup {NoId}]
      /\ \A x \in Sockets \ {t} : home'[x] = home[x] /\ origin'[x] = origin[x] /\ url'[x] = url[x]
      /\ home'[t] = v /\ origin'[t] = origin[f]
  BY <1>1, <1>2, <1>3, <1>5 DEF Accepted, TypeOK
<1>9. lookup' = lookup \ {t} /\ "open" \in WsStates \ {"none"}
  BY <1>2, <1>3 DEF WsStates
<1> QED  BY <1>2, <1>3, <1>5, <1>6, <1>7, <1>8, <1>9, DropKeeps

\* What is not a step changes nothing.
LEMMA StutterKeeps ==
    ASSUME IInv, UNCHANGED vars
    PROVE  IInv'
<1>1. UNCHANGED <<home, origin, url, ws, id, here, peer, lookup, denied, timer, wsrelays,
                  wsPeerRelays, peerServers, said, missed, tun, stranded, cut, log, file, users>>
  BY DEF vars, sockVars, objVars, askVars, peerVars, msgVars, tunVars, recVars
<1>2. TypeOK' /\ FreshInv' /\ RecordedInv' /\ RecordingEndsOnce'
  BY <1>1 DEF IInv, TypeOK, FreshInv, RecordedInv, RecordingEndsOnce
<1>3. /\ log' \in [Sockets -> Sockets \cup {NoSock}] /\ file' \in [Sockets -> FileStates]
  BY <1>2 DEF TypeOK
<1>4. UNCHANGED <<sockVars, objVars, askVars, timer, wsrelays, peerVars, users>>
  BY DEF vars
<1> QED  BY <1>2, <1>3, <1>4, RecordKeeps

\* Every step keeps the invariant, if an id is not used by a third connection.
THEOREM NextInv ==
    ASSUME ~Reuse, IInv, [Next]_vars
    PROVE  IInv'
<1>1. ASSUME NEW s \in Ends, NEW v \in Servers, NEW i \in Ids, Comes(s, v, i)  PROVE IInv'
  <2>1. PerformRelay(s, s, v, i, "open", TRUE)
    BY <1>1 DEF Comes
  <2> QED  BY <1>1, <2>1, ComesArrives, PerformKeeps
<1>2. ASSUME NEW s \in Ends, NEW v \in Servers, NEW i \in Chosen \cup {NoId}, ComesRouted(s, v, i)
      PROVE IInv'
  BY <1>2, RoutedKeeps
<1>3. ASSUME NEW s \in Ends, IsRouted(s)  PROVE IInv'
  <2>1. PICK i \in Ids :
           /\ IF id[s] = NoId THEN i \notin Chosen /\ users[i] = {} ELSE i = id[s]
           /\ users' = [users EXCEPT ![i] = @ \cup {s}]
           /\ PerformRelay(s, s, home[s], i, ws[s], s \in here)
    BY <1>3 DEF IsRouted
  <2>2. s \in lookup /\ lookup' = lookup \ {s} /\ UNCHANGED <<sockVars, denied>>
    BY <1>3 DEF IsRouted
  <2>3. IF id[s] = NoId THEN users[i] = {} ELSE i = id[s]
    BY <2>1
  <2>4. /\ Arrival(s, s, home[s], i, ws[s], s \in here)
        /\ Entitled(s, home[s], i, s \in here)
    BY <2>1, <2>2, <2>3, RoutedArrives
  <2> QED  BY <2>1, <2>4, PerformKeeps
<1>4. ASSUME NEW t \in Tunnels, TunnelComes(t)  PROVE IInv'
  <2>1. CASE url[tun[t].from] = NoId
    BY <1>4, <2>1, NoIdKeeps
  <2>2. CASE url[tun[t].from] # NoId
    <3>1. PerformRelay(t, origin[tun[t].from], tun[t].to, url[tun[t].from], "open", TRUE)
      BY <1>4 DEF TunnelComes
    <3>2. /\ Arrival(t, origin[tun[t].from], tun[t].to, url[tun[t].from], "open", TRUE)
          /\ Entitled(t, tun[t].to, url[tun[t].from], TRUE)
      BY <1>4, <2>2, TunnelArrives
    <3> QED  BY <3>1, <3>2, PerformKeeps
  <2> QED  BY <2>1, <2>2
<1>5. ASSUME NEW s \in Sockets,
             Closed(s) \/ Fails(s) \/ TimesOut(s) \/ (s \in Ends /\ Expires(s))
      PROVE IInv'
  BY <1>5, EndKeeps
<1>6. ASSUME NEW s \in Sockets, RecordingStarts(s) \/ NotRecorded(s) \/ RecordingCloses(s)
      PROVE IInv'
  BY <1>6, StartsKeeps, EndsKeeps
<1>7. \A s \in Ends : s \in Sockets
  BY Consts
<1>8. CASE UNCHANGED vars
  BY <1>8, StutterKeeps
<1>10. ASSUME NEW s \in Sockets, AccessDenied(s)  PROVE IInv'
  BY <1>10, AccessDeniedKeeps
<1>11. ASSUME NEW v \in Servers, NEW w \in Servers, PeerLost(v, w) \/ PeerFound(v, w)
       PROVE  IInv'
  BY <1>11, PeersKeep
<1>9. CASE Next
  BY <1>9, <1>10, <1>11, <1>1, <1>2, <1>3, <1>4, <1>5, <1>6, <1>7, NotRoutedKeeps, HearsKeeps,
     TunnelEndsKeeps DEF Next
<1> QED  BY <1>8, <1>9

\* The invariant holds in every reachable state, unless ids are used again.
THEOREM Invariance == ASSUME ~Reuse  PROVE Spec => []IInv
<1>1. IInv /\ [Next]_vars => IInv'
  BY NextInv
<1> QED  BY InitInv, <1>1, PTL DEF Spec

\* Every variable keeps its type.
THEOREM TypeCorrect == ASSUME ~Reuse  PROVE Spec => []TypeOK
<1>1. IInv => TypeOK
  BY DEF IInv
<1> QED  BY Invariance, <1>1, PTL

\* closeBothSides leaves no web socket open that the relay gave up.
THEOREM EndedIsAlwaysClosed == ASSUME ~Reuse  PROVE Spec => []EndedIsClosed
<1>1. IInv => EndedIsClosed
  <2> SUFFICES ASSUME IInv  PROVE EndedIsClosed
    OBVIOUS
  <2>1. TypeOK /\ CameInv /\ DeniedInv /\ PairedInv /\ PeerInv /\ OpenInv
    BY DEF IInv
  <2>2. \A s \in Sockets : peer[s] # NoSock => peer[peer[s]] = s \/ peer[s] \in denied
    BY <2>1, Partners
  <2> QED  BY <2>1, <2>2 DEF EndedIsClosed, OpenInv
<1> QED  BY Invariance, <1>1, PTL

\* Two that wait for each other on different servers are on their way to meet.
THEOREM MeetingIsAlwaysUnderWay == ASSUME ~Reuse  PROVE Spec => []MeetingUnderWay
<1>1. IInv => MeetingUnderWay
  BY DEF IInv
<1> QED  BY Invariance, <1>1, PTL

\* A recording that both sides write is open while they are joined, and is finished
\* once.
THEOREM RecordingAlwaysEndsOnce == ASSUME ~Reuse  PROVE Spec => []RecordingEndsOnce
<1>1. IInv => RecordingEndsOnce
  BY DEF IInv
<1> QED  BY Invariance, <1>1, PTL

-----------------------------------------------------------------------------
\* The connections as Rendezvous sees them.
Phases == [s \in Sockets |-> Phase(s)]
AccountsOf == [s \in Sockets |-> AccountOf(s)]

\* The phases one by one.
LEMMA PhaseIs ==
    ASSUME NEW s \in Sockets
    PROVE  /\ Phase(s) = "absent" <=> ws[s] = "none"
           /\ Phase(s) = "joined" <=> ws[s] # "none" /\ peer[s] # NoSock
           /\ Phase(s) = "alone" <=> /\ ws[s] # "none" /\ peer[s] = NoSock
                                     /\ s \in here /\ ~Tunnelled(s)
           /\ Phase(s) = "over" <=> /\ ws[s] # "none" /\ peer[s] = NoSock
                                    /\ ~(s \in here /\ ~Tunnelled(s))
<1>1. ws[s] = "none" => Phase(s) = "absent"
  BY Zenon DEF Phase
<1>2. ws[s] # "none" /\ peer[s] # NoSock => Phase(s) = "joined"
  BY Zenon DEF Phase
<1>3. ws[s] # "none" /\ peer[s] = NoSock /\ s \in here /\ ~Tunnelled(s) => Phase(s) = "alone"
  BY Zenon DEF Phase
<1>4. ws[s] # "none" /\ peer[s] = NoSock /\ ~(s \in here /\ ~Tunnelled(s)) => Phase(s) = "over"
  BY Zenon DEF Phase
<1> QED  BY <1>1, <1>2, <1>3, <1>4

\* The same after a step.
LEMMA PhaseThen ==
    ASSUME NEW s \in Sockets
    PROVE  /\ Phase(s)' = "absent" <=> ws'[s] = "none"
           /\ Phase(s)' = "joined" <=> ws'[s] # "none" /\ peer'[s] # NoSock
           /\ Phase(s)' = "alone" <=> /\ ws'[s] # "none" /\ peer'[s] = NoSock
                                      /\ s \in here' /\ ~Tunnelled(s)'
           /\ Phase(s)' = "over" <=> /\ ws'[s] # "none" /\ peer'[s] = NoSock
                                     /\ ~(s \in here' /\ ~Tunnelled(s)')
<1>1. ws'[s] = "none" => Phase(s)' = "absent"
  BY Zenon DEF Phase
<1>2. ws'[s] # "none" /\ peer'[s] # NoSock => Phase(s)' = "joined"
  BY Zenon DEF Phase
<1>3. ws'[s] # "none" /\ peer'[s] = NoSock /\ s \in here' /\ ~Tunnelled(s)' => Phase(s)' = "alone"
  BY Zenon DEF Phase
<1>4. ws'[s] # "none" /\ peer'[s] = NoSock /\ ~(s \in here' /\ ~Tunnelled(s)') => Phase(s)' = "over"
  BY Zenon DEF Phase
<1> QED  BY <1>1, <1>2, <1>3, <1>4

\* What is Rendezvous about the initial state.
LEMMA InitMaps == Init => Rendezvous!Init
<1> SUFFICES ASSUME Init  PROVE Rendezvous!Init
  OBVIOUS
<1>1. \A s \in Sockets : ws[s] = "none" /\ Phase(s) = "absent"
  BY PhaseIs DEF Init
<1>2. peer = [s \in Sockets |-> NoSock]
  BY DEF Init
<1>3. \A s \in Sockets : AccountOf(s) = NoSock
  BY <1>1 DEF AccountOf
<1>4. ByUsers = {} /\ Exempt = {}
  BY <1>1 DEF ByUsers, Exempt
<1>5. denied = {}
  BY DEF Init
<1> QED  BY <1>1, <1>2, <1>3, <1>4, <1>5 DEF Rendezvous!Init

\* A step after which everybody is what it was.
LEMMA NothingHappens ==
    ASSUME peer' = peer, \A x \in Sockets : Phase(x)' = Phase(x),
           \A x \in Sockets : AccountOf(x)' = AccountOf(x), ByUsers' = ByUsers,
           Exempt' = Exempt, denied' = denied
    PROVE  UNCHANGED Rendezvous!vars
<1>1. Phases' = Phases /\ AccountsOf' = AccountsOf
  BY DEF Phases, AccountsOf
<1> QED  BY <1>1 DEF Rendezvous!vars, Phases, AccountsOf

\* What a connection came with is not changed by the step.
Untouched(x) ==
    /\ (ws'[x] = "none" <=> ws[x] = "none")
    /\ ws[x] # "none" => origin'[x] = origin[x] /\ url'[x] = url[x]
    /\ ws[x] # "none" /\ x \in Tunnels => tun'[x] = tun[x]

\* It has the account, the authentication and the exemption that it had.
LEMMA SameOf ==
    ASSUME NEW x \in Sockets, Untouched(x)
    PROVE  /\ AccountOf(x)' = AccountOf(x)
           /\ (x \in ByUsers' <=> x \in ByUsers)
           /\ (x \in Exempt' <=> x \in Exempt)
<1>1. CASE ws[x] = "none"
  BY <1>1 DEF Untouched, AccountOf, ByUsers, Exempt
<1>2. CASE ws[x] # "none"
  <2>1. /\ ws'[x] # "none" /\ origin'[x] = origin[x] /\ url'[x] = url[x]
        /\ x \in Tunnels => tun'[x] = tun[x]
    BY <1>2 DEF Untouched
  <2>2. Authentic(x, origin[x])' <=> Authentic(x, origin[x])
    BY <2>1 DEF Authentic, HasUser
  <2> QED  BY <1>2, <2>1, <2>2 DEF AccountOf, ByUsers, Exempt
<1> QED  BY <1>1, <1>2

\* Who came from where, and how, does not change.
LEMMA SameAccounts ==
    ASSUME \A x \in Sockets : Untouched(x)
    PROVE  /\ \A x \in Sockets : AccountOf(x)' = AccountOf(x)
           /\ ByUsers' = ByUsers /\ Exempt' = Exempt
<1>1. \A x \in Sockets : /\ AccountOf(x)' = AccountOf(x)
                         /\ (x \in ByUsers' <=> x \in ByUsers)
                         /\ (x \in Exempt' <=> x \in Exempt)
  BY SameOf
<1>2. /\ ByUsers \subseteq Sockets /\ ByUsers' \subseteq Sockets
      /\ Exempt \subseteq Sockets /\ Exempt' \subseteq Sockets
  BY DEF ByUsers, Exempt
<1> QED  BY <1>1, <1>2

\* A step in which s ends, and the one it is joined with.
LEMMA SomebodyEnds ==
    ASSUME NEW s \in Sockets, Phase(s) \in {"alone", "joined"},
           peer \in [Sockets -> Sockets \cup {NoSock}],
           peer' \in [Sockets -> Sockets \cup {NoSock}],
           \A x \in Sockets \ {s, peer[s]} : Phase(x)' = Phase(x) /\ peer'[x] = peer[x],
           \A x \in Sockets \cap {s, peer[s]} : Phase(x)' = "over" /\ peer'[x] = NoSock,
           \A x \in Sockets : AccountOf(x)' = AccountOf(x), ByUsers' = ByUsers,
           Exempt' = Exempt, denied' = denied
    PROVE  Rendezvous!Next
<1>1. AccountsOf' = AccountsOf
  BY DEF AccountsOf
<1>2. Phases' = [x \in Sockets |-> IF x \in {s, peer[s]} THEN "over" ELSE Phases[x]]
  BY DEF Phases
<1>3. peer' = [x \in Sockets |-> IF x \in {s, peer[s]} THEN NoSock ELSE peer[x]]
  OBVIOUS
<1>4. Phases[s] \in {"alone", "joined"}
  BY DEF Phases
<1>5. Rendezvous!End(s)
  BY <1>1, <1>2, <1>3, <1>4 DEF Rendezvous!End, Phases, AccountsOf
<1> QED  BY <1>5 DEF Rendezvous!Next

\* A step in which s comes.
LEMMA SomebodyComes ==
    ASSUME NEW s \in Sockets, Phase(s) = "absent", Phase(s)' \in {"alone", "over"},
           peer' = peer, NEW o \in Ends, AccountOf(s)' = Account[o],
           \A x \in Sockets \ {s} : Phase(x)' = Phase(x) /\ AccountOf(x)' = AccountOf(x),
           ByUsers' \in {ByUsers, ByUsers \cup {s}},
           Exempt' \in {Exempt, Exempt \cup {s}}, denied' = denied
    PROVE  Rendezvous!Next
<1>1. Account[o] \in Accounts
  BY RelayAssumption
<1>2. PICK a \in Accounts, p \in {"alone", "over"} : a = Account[o] /\ p = Phase(s)'
  BY <1>1
<1>3. Phases' = [Phases EXCEPT ![s] = p]
  BY <1>2 DEF Phases
<1>4. AccountsOf' = [AccountsOf EXCEPT ![s] = a]
  BY <1>2 DEF AccountsOf
<1>5. Phases[s] = "absent"
  BY DEF Phases
<1>6. Rendezvous!Come(s, a, p)
  BY <1>3, <1>4, <1>5 DEF Rendezvous!Come, Rendezvous!Brings, Phases, AccountsOf
<1> QED  BY <1>2, <1>6 DEF Rendezvous!Next

\* A step in which s is joined with q, which was alone.
LEMMA SomebodyJoins ==
    ASSUME NEW s \in Sockets, NEW q \in Sockets \ {s}, Phase(q) = "alone",
           Phase(s)' = "joined", Phase(q)' = "joined",
           peer' = [peer EXCEPT ![s] = q, ![q] = s],
           \A x \in Sockets \ {s, q} : Phase(x)' = Phase(x),
           \A x \in Sockets \ {s} : AccountOf(x)' = AccountOf(x),
           AccountOf(s)' = AccountOf(q) \/ {s, q} \cap Exempt' # {},
           {s, q} \cap ByUsers' # {}, denied' = denied, NEW o \in Ends, AccountOf(s)' = Account[o],
           \/ /\ Phase(s) = "alone" /\ AccountOf(s)' = AccountOf(s)
              /\ ByUsers' = ByUsers /\ Exempt' = Exempt
           \/ /\ Phase(s) = "absent" /\ ByUsers' \in {ByUsers, ByUsers \cup {s}}
              /\ Exempt' \in {Exempt, Exempt \cup {s}}
    PROVE  Rendezvous!Next
<1>1. Phases' = [Phases EXCEPT ![s] = "joined", ![q] = "joined"]
  BY DEF Phases
<1>2. AccountsOf' = [AccountsOf EXCEPT ![s] = Account[o]] /\ Account[o] \in Accounts
  BY RelayAssumption DEF AccountsOf
<1>3. Phases[q] = "alone" /\ Phases[s] = Phase(s)
  BY DEF Phases
<1>4. AccountsOf'[s] = AccountsOf'[q] \/ {s, q} \cap Exempt' # {}
  BY DEF AccountsOf
<1>5. CASE Phase(s) = "alone"
  <2>1. AccountsOf' = AccountsOf
    BY <1>5 DEF AccountsOf
  <2>2. Rendezvous!Join(s, q)
    BY <1>1, <1>3, <1>4, <1>5, <2>1 DEF Rendezvous!Join, Phases, AccountsOf
  <2> QED  BY <2>2 DEF Rendezvous!Next
<1>6. CASE Phase(s) = "absent"
  <2>1. Rendezvous!Brings(s, Account[o])
    BY <1>2, <1>3, <1>6 DEF Rendezvous!Brings, Phases, AccountsOf
  <2>2. Rendezvous!Join(s, q)
    BY <1>1, <1>2, <1>3, <1>4, <2>1 DEF Rendezvous!Join, Phases, AccountsOf
  <2> QED  BY <2>2 DEF Rendezvous!Next
<1> QED  BY <1>5, <1>6

\* closeBothSides ends s and its partner, or finds that s was over.
LEMMA CloseMaps ==
    ASSUME IInv, NEW s \in Sockets, NEW w \in WsStates, w # "none", ws[s] # "none",
           CloseBothSides(s, w)
    PROVE  Rendezvous!Next \/ UNCHANGED Rendezvous!vars
<1>1. TypeOK /\ CameInv /\ DeniedInv /\ PairedInv /\ PeerInv
  BY DEF IInv
<1>2. /\ \A x \in Sockets :
            /\ ws'[x] \in WsStates /\ (ws'[x] = "none" <=> ws[x] = "none")
            /\ x \notin {s, peer[s]} => peer'[x] = peer[x]
            /\ x \in {s, peer[s]} => peer'[x] = NoSock
      /\ here' = here \ {s, peer[s]} /\ UNCHANGED <<sockVars, askVars, tunVars>>
  BY CloseDoes DEF CloseEffect
<1>3. origin' = origin /\ url' = url /\ tun' = tun /\ denied' = denied
  BY <1>2 DEF sockVars, askVars, tunVars
<1>4. \A x \in Sockets : Tunnelled(x)' <=> Tunnelled(x)
  BY <1>3 DEF Tunnelled
<1>5. peer[s] # NoSock => peer[s] \in Sockets /\ ws[peer[s]] # "none"
  BY <1>1, Partners
<1>6. peer \in [Sockets -> Sockets \cup {NoSock}]
  BY <1>1 DEF TypeOK
<1>7. peer' \in [Sockets -> Sockets \cup {NoSock}]
  <2>1. DOMAIN peer' = Sockets /\ peer' = [x \in Sockets |-> peer'[x]]
    BY DEF CloseBothSides
  <2> QED  BY <2>1, <1>2, <1>6
<1>8. /\ \A x \in Sockets : AccountOf(x)' = AccountOf(x)
      /\ ByUsers' = ByUsers /\ Exempt' = Exempt
  <2>1. \A x \in Sockets : Untouched(x)
    BY <1>2, <1>3 DEF Untouched
  <2> QED  BY <2>1, SameAccounts
<1>9. \A x \in Sockets \ {s, peer[s]} : Phase(x)' = Phase(x) /\ peer'[x] = peer[x]
  <2> SUFFICES ASSUME NEW x \in Sockets \ {s, peer[s]}
               PROVE  Phase(x)' = Phase(x) /\ peer'[x] = peer[x]
    OBVIOUS
  <2>1. peer'[x] = peer[x] /\ (x \in here' <=> x \in here) /\ (ws'[x] = "none" <=> ws[x] = "none")
    BY <1>2
  <2> QED  BY <2>1, <1>4, PhaseIs, PhaseThen
<1>10. \A x \in Sockets \cap {s, peer[s]} : Phase(x)' = "over" /\ peer'[x] = NoSock
  <2> SUFFICES ASSUME NEW x \in Sockets \cap {s, peer[s]}
               PROVE  Phase(x)' = "over" /\ peer'[x] = NoSock
    OBVIOUS
  <2>1. peer'[x] = NoSock /\ x \notin here' /\ ws'[x] # "none"
    BY <1>2, <1>5, Consts
  <2> QED  BY <2>1, PhaseThen
<1>11. CASE Phase(s) \in {"alone", "joined"}
  BY <1>3, <1>6, <1>7, <1>8, <1>9, <1>10, <1>11, SomebodyEnds
<1>12. CASE Phase(s) \notin {"alone", "joined"}
  <2>1. Phase(s) = "over" /\ peer[s] = NoSock
    BY <1>12, PhaseIs
  <2>2. \A x \in Sockets : Phase(x)' = Phase(x)
    BY <2>1, <1>9, <1>10, Consts
  <2>3. \A x \in Sockets : peer'[x] = peer[x]
    BY <2>1, <1>2, Consts
  <2>4. peer' = peer
    BY <2>3, <1>6, <1>7
  <2> QED  BY <2>2, <2>4, <1>3, <1>8, NothingHappens
<1> QED  BY <1>11, <1>12

\* The tunnels that came already, and that of s, stay what they are.
SameTunnels(s) ==
    \A t \in Tunnels : ws[t] # "none" \/ t = s => tun'[t] = tun[t]

\* The connection s comes now, or it waited for the database, and is from one
\* end; nobody else is touched.
Arriving(s, o) ==
    /\ ws'[s] # "none" /\ origin'[s] = o
    /\ \/ ws[s] = "none"
       \/ /\ s \in lookup /\ s \in Ends /\ ws[s] # "none"
          /\ origin[s] = o /\ url'[s] = url[s]
    /\ \A x \in Sockets \ {s} : Untouched(x)
    /\ SameTunnels(s) /\ denied' = denied

\* Whose the connections are, after an arrival.
LEMMA ArrivingAccounts ==
    ASSUME NEW s \in Sockets, NEW o \in Ends, Arriving(s, o)
    PROVE  /\ \A x \in Sockets \ {s} : /\ AccountOf(x)' = AccountOf(x)
                                      /\ (x \in ByUsers' <=> x \in ByUsers)
                                      /\ (x \in Exempt' <=> x \in Exempt)
           /\ AccountOf(s)' = Account[o]
           /\ ws[s] # "none" =>
                 AccountOf(s) = Account[o] /\ ByUsers' = ByUsers /\ Exempt' = Exempt
           /\ ByUsers' \in {ByUsers, ByUsers \cup {s}}
           /\ Exempt' \in {Exempt, Exempt \cup {s}}
           /\ Authentic(s, o) => s \in ByUsers'
           /\ s \in NoUser \/ url'[s] \in Messenger => s \in Exempt'
<1>1. \A x \in Sockets \ {s} : /\ AccountOf(x)' = AccountOf(x)
                             /\ (x \in ByUsers' <=> x \in ByUsers)
                             /\ (x \in Exempt' <=> x \in Exempt)
  BY SameOf DEF Arriving
<1>2. /\ AccountOf(s)' = Account[o]
      /\ ws[s] # "none" => AccountOf(s) = Account[o]
  BY DEF Arriving, AccountOf
<1>3. /\ ByUsers \subseteq Sockets /\ ByUsers' \subseteq Sockets
      /\ Exempt \subseteq Sockets /\ Exempt' \subseteq Sockets
  BY DEF ByUsers, Exempt
<1>4. Authentic(s, o) => s \in ByUsers'
  <2>1. Authentic(s, origin[s])' <=> Authentic(s, o)
    BY DEF Arriving, SameTunnels, Authentic, HasUser
  <2> QED  BY <2>1 DEF Arriving, ByUsers
<1>5. s \in NoUser \/ url'[s] \in Messenger => s \in Exempt'
  BY DEF Arriving, Exempt
<1>6. ws[s] = "none" => s \notin ByUsers /\ s \notin Exempt
  BY DEF ByUsers, Exempt
<1>7. ASSUME ws[s] # "none"  PROVE ByUsers' = ByUsers /\ Exempt' = Exempt
  <2>1. Untouched(s)
    BY <1>7 DEF Arriving, SameTunnels, Untouched
  <2>2. (s \in ByUsers' <=> s \in ByUsers) /\ (s \in Exempt' <=> s \in Exempt)
    BY <2>1, SameOf
  <2> QED  BY <2>2, <1>1, <1>3
<1>8. ws[s] = "none" => /\ ByUsers' \in {ByUsers, ByUsers \cup {s}}
                        /\ Exempt' \in {Exempt, Exempt \cup {s}}
  BY <1>1, <1>3, <1>6
<1> QED  BY <1>1, <1>2, <1>4, <1>5, <1>7, <1>8

\* An arrival that changes nobody else.
LEMMA OneArrives ==
    ASSUME IInv, NEW s \in Sockets, NEW o \in Ends, Arriving(s, o), peer' = peer,
           \A x \in Sockets \ {s} : Phase(x)' = Phase(x),
           s \in here' => ws[s] = "none" \/ s \in here
    PROVE  Rendezvous!Next \/ UNCHANGED Rendezvous!vars
<1>1. /\ peer[s] = NoSock /\ ~Tunnelled(s) /\ peer \in [Sockets -> Sockets \cup {NoSock}]
      /\ denied' = denied
  BY Apart DEF Arriving, IInv, TypeOK
<1>2. Phase(s)' \in {"alone", "over"}
  BY <1>1, PhaseThen DEF Arriving
<1>3. CASE ws[s] = "none"
  BY <1>1, <1>2, <1>3, PhaseIs, ArrivingAccounts, SomebodyComes
<1>4. CASE ws[s] # "none" /\ Phase(s)' = Phase(s)
  <2>1. /\ \A x \in Sockets : AccountOf(x)' = AccountOf(x)
        /\ ByUsers' = ByUsers /\ Exempt' = Exempt
    BY <1>4, ArrivingAccounts
  <2> QED  BY <2>1, <1>1, <1>4, NothingHappens
<1>5. CASE ws[s] # "none" /\ Phase(s)' # Phase(s)
  <2>1. Phase(s) = "alone" /\ Phase(s)' = "over"
    BY <1>1, <1>2, <1>5, PhaseIs, PhaseThen
  <2>2. /\ \A x \in Sockets : AccountOf(x)' = AccountOf(x)
        /\ ByUsers' = ByUsers /\ Exempt' = Exempt
    BY <1>5, ArrivingAccounts
  <2>3. \A x \in Sockets \cap {s, peer[s]} : Phase(x)' = "over" /\ peer'[x] = NoSock
    BY <2>1, <1>1, Consts
  <2> QED  BY <2>1, <2>2, <2>3, <1>1, SomebodyEnds
<1> QED  BY <1>3, <1>4, <1>5

\* What an arrival writes of s, if the web socket of nobody else is touched but
\* to close it.
LEMMA ArrivalIsArriving ==
    ASSUME IInv, NEW s, NEW o, NEW v, NEW i, NEW w, NEW h, Arrival(s, o, v, i, w, h),
           ws'[s] # "none",
           \A x \in Sockets \ {s} : ws'[x] = "none" <=> ws[x] = "none",
           SameTunnels(s), s \in lookup => url'[s] = url[s]
    PROVE  s \in Sockets /\ o \in Ends /\ Arriving(s, o)
<1>1. TypeOK /\ CameInv
  BY DEF IInv
<1>2. /\ s \in Sockets /\ o \in Ends /\ (s \in Ends => o = s) /\ origin'[s] = o
      /\ \A x \in Sockets \ {s} : origin'[x] = origin[x] /\ url'[x] = url[x]
      /\ denied' = denied
      /\ ws[s] = "none" \/ s \in lookup
  BY DEF Arrival
<1>3. s \in lookup => ws[s] # "none" /\ s \in Ends /\ origin[s] = s
  BY <1>1, <1>2, Types DEF CameInv
<1>4. \A x \in Sockets \ {s} : Untouched(x)
  BY <1>2, Consts DEF Untouched, SameTunnels
<1> QED  BY <1>2, <1>3, <1>4 DEF Arriving

\* The query of s is not changed by the database, and has its messenger id.
Brought(s, i) ==
    /\ s \in lookup => url'[s] = url[s]
    /\ i \in Messenger => url'[s] = i

\* Where one more tunnel leads.
LEMMA TunnelOpens ==
    ASSUME TypeOK, TunnelInv, NEW s \in Sockets, NEW t \in Tunnels \ {s}, tun[t] = NoTunnel,
           NEW r, r.from = s, tun' = [tun EXCEPT ![t] = r]
    PROVE  /\ SameTunnels(s) /\ Tunnelled(s)'
           /\ \A x \in Sockets \ {s} : (Tunnelled(x)' <=> Tunnelled(x))
<1>1. DOMAIN tun = Tunnels
  BY DEF TypeOK
<1>2. tun'[t].from = s /\ tun[t].from = NoSock
  BY <1>1 DEF NoTunnel
<1>3. \A k \in Tunnels \ {t} : tun'[k] = tun[k]
  BY <1>1
<1>4. ws[t] = "none"
  BY DEF TunnelInv
<1>5. Tunnelled(s)' /\ \A x \in Sockets \ {s} : (Tunnelled(x)' <=> Tunnelled(x))
  BY <1>2, <1>3, Consts DEF Tunnelled
<1> QED  BY <1>3, <1>4, <1>5 DEF SameTunnels

\* s is held, or goes on through a tunnel at once.
LEMMA HoldMaps ==
    ASSUME IInv, NEW s, NEW o, NEW v, NEW i, NEW w, NEW h, Arrival(s, o, v, i, w, h),
           Brought(s, i), Hold(s, v, i, w, h)
    PROVE  Rendezvous!Next \/ UNCHANGED Rendezvous!vars
<1>1. TypeOK /\ TunnelInv
  BY DEF IInv
<1>2. /\ s \in Sockets /\ w # "none" /\ ws \in [Sockets -> WsStates]
      /\ ws[s] = "none" \/ h = (s \in here)
  BY <1>1, Types DEF Arrival
<1>3. /\ ws' = [ws EXCEPT ![s] = w] /\ peer' = peer
      /\ here' = IF h THEN here \cup {s} ELSE here \ {s}
  BY DEF Hold
<1>4. \A x \in Sockets \ {s} : ws'[x] = ws[x] /\ (x \in here' <=> x \in here)
  BY <1>2, <1>3
<1>5. ws'[s] # "none" /\ (s \in here' => ws[s] = "none" \/ s \in here)
  BY <1>2, <1>3
<1>6. SameTunnels(s) /\ \A x \in Sockets \ {s} : (Tunnelled(x)' <=> Tunnelled(x))
  <2>1. CASE tun' = tun
    BY <2>1 DEF Tunnelled, SameTunnels
  <2>2. CASE OpenTunnel(s, wsPeerRelays[v][i], s \in InSession)
    <3>1. PICK t \in Tunnels \ {s} :
             /\ tun[t] = NoTunnel
             /\ tun' = [tun EXCEPT ![t] = [from |-> s, to |-> wsPeerRelays[v][i],
                                           user |-> s \in InSession]]
      BY <2>2 DEF OpenTunnel
    <3> QED  BY <1>1, <1>2, <3>1, TunnelOpens
  <2> QED  BY <2>1, <2>2 DEF Hold, CreatePeerRelay, tunVars
<1>7. \A x \in Sockets \ {s} : Phase(x)' = Phase(x)
  BY <1>3, <1>4, <1>6, PhaseIs, PhaseThen
<1>8. o \in Ends /\ Arriving(s, o)
  <2>1. s \in lookup => url'[s] = url[s]
    BY DEF Brought
  <2> QED  BY <2>1, <1>4, <1>5, <1>6, ArrivalIsArriving
<1> QED  BY <1>2, <1>3, <1>5, <1>7, <1>8, OneArrives

\* s is turned away.
LEMMA TurnedAwayMaps ==
    ASSUME IInv, NEW s \in Sockets, NEW o \in Ends, NEW w \in WsStates \ {"none"},
           TurnedAway(s, w), origin'[s] = o,
           \/ ws[s] = "none"
           \/ s \in lookup /\ s \in Ends /\ ws[s] # "none" /\ origin[s] = o /\ url'[s] = url[s],
           \A x \in Sockets \ {s} : origin'[x] = origin[x] /\ url'[x] = url[x],
           denied' = denied
    PROVE  Rendezvous!Next \/ UNCHANGED Rendezvous!vars
<1>1. ws \in [Sockets -> WsStates]
  BY DEF IInv, TypeOK
<1>2. /\ ws' = [ws EXCEPT ![s] = Shut(w)] /\ peer' = peer /\ tun' = tun
      /\ here' = here \ {s}
  BY DEF TurnedAway, peerVars, tunVars
<1>3. \A x \in Sockets \ {s} : ws'[x] = ws[x] /\ (x \in here' <=> x \in here)
  BY <1>1, <1>2
<1>4. ws'[s] # "none" /\ s \notin here'
  BY <1>1, <1>2 DEF Shut
<1>5. \A x \in Sockets : Tunnelled(x)' <=> Tunnelled(x)
  BY <1>2 DEF Tunnelled
<1>6. \A x \in Sockets \ {s} : Phase(x)' = Phase(x)
  BY <1>2, <1>3, <1>5, PhaseIs, PhaseThen
<1>7. Arriving(s, o)
  BY <1>2, <1>3, <1>4 DEF Arriving, Untouched, SameTunnels
<1> QED  BY <1>2, <1>4, <1>6, <1>7, OneArrives

\* One of the two that would be joined has lost its web socket: it is over, and
\* the other ends.
LEMMA BothLostMaps ==
    ASSUME IInv, NEW s, NEW o, NEW v, NEW i, NEW w, NEW h, Arrival(s, o, v, i, w, h),
           Brought(s, i), BothLost(s, o, v, i, w, h)
    PROVE  Rendezvous!Next \/ UNCHANGED Rendezvous!vars
<1>1. TypeOK /\ WaitingInv /\ CameInv
  BY DEF IInv
<1> SUFFICES ASSUME NEW q, q = wsrelays[v][i].peer1
             PROVE  Rendezvous!Next \/ UNCHANGED Rendezvous!vars
  OBVIOUS
<1>2. /\ s \in Sockets /\ v \in Servers /\ i \in Ids /\ w # "none"
      /\ \/ ws[s] = "none" /\ h
         \/ s \in lookup /\ h = (s \in here)
      /\ ws \in [Sockets -> WsStates]
  BY <1>1, Types DEF Arrival
<1>3. /\ wsrelays[v][i].state = 1 /\ (~h \/ q \notin here)
      /\ ws' = [ws EXCEPT ![s] = Shut(w), ![q] = Shut(@)]
      /\ here' = here \ {s, q} /\ peer' = peer /\ tun' = tun
  BY DEF BothLost, Match, peerVars, tunVars
<1>4. q \in users[i] /\ q \in Sockets /\ peer[q] = NoSock /\ ws[q] # "none"
      /\ (q \in here => ~Tunnelled(q))
      /\ q \notin lookup
  BY <1>1, <1>2, <1>3, Entries DEF WaitingInv, CameInv
<1>5. q # s
  BY <1>2, <1>4
<1>6. /\ ws'[s] # "none" /\ ws'[q] # "none"
      /\ \A x \in Sockets \ {s} : ws'[x] = "none" <=> ws[x] = "none"
  BY <1>2, <1>3, <1>4, <1>5 DEF Shut
<1>7. s \in Sockets /\ o \in Ends /\ Arriving(s, o)
  BY <1>3, <1>6, ArrivalIsArriving DEF SameTunnels, Brought
<1>8. \A x \in Sockets : Tunnelled(x)' <=> Tunnelled(x)
  BY <1>3 DEF Tunnelled
<1>9. \A x \in Sockets \ {s, q} : Phase(x)' = Phase(x)
  BY <1>3, <1>6, <1>8, PhaseIs, PhaseThen
<1>10. CASE q \notin here
  <2>1. Phase(q) = "over" /\ Phase(q)' = "over"
    BY <1>3, <1>4, <1>6, <1>10, PhaseIs, PhaseThen
  <2>2. s \notin here'
    BY <1>3
  <2>3. \A x \in Sockets \ {s} : Phase(x)' = Phase(x)
    BY <2>1, <1>9
  <2> QED  BY <2>2, <2>3, <1>3, <1>7, OneArrives
<1>11. CASE q \in here
  <2>1. s \in lookup /\ s \notin here /\ ws[s] # "none"
    BY <1>1, <1>2, <1>3, <1>11 DEF CameInv
  <2>2. peer[s] = NoSock /\ peer \in [Sockets -> Sockets \cup {NoSock}]
    BY <1>1, <2>1, <1>7, Apart DEF TypeOK
  <2>3. Phase(s) = "over" /\ Phase(s)' = "over"
    BY <1>3, <1>6, <2>1, <2>2, <1>7, PhaseIs, PhaseThen
  <2>4. Phase(q) = "alone" /\ Phase(q)' = "over"
    BY <1>3, <1>4, <1>6, <1>11, PhaseIs, PhaseThen
  <2>5. /\ \A x \in Sockets : AccountOf(x)' = AccountOf(x)
        /\ ByUsers' = ByUsers /\ Exempt' = Exempt /\ denied' = denied
    BY <1>7, <2>1, ArrivingAccounts DEF Arriving
  <2>6. \A x \in Sockets \cap {q, peer[q]} : Phase(x)' = "over" /\ peer'[x] = NoSock
    BY <2>4, <1>3, <1>4, Consts
  <2>7. \A x \in Sockets \ {q, peer[q]} : Phase(x)' = Phase(x) /\ peer'[x] = peer[x]
    BY <2>3, <1>3, <1>9
  <2> QED  BY <2>2, <2>4, <2>5, <2>6, <2>7, <1>3, <1>4, SomebodyEnds
<1> QED  BY <1>10, <1>11

\* s is joined with the one that waits, who is alone and of the same account.
LEMMA PairMaps ==
    ASSUME IInv, NEW s, NEW o, NEW v, NEW i, NEW w, NEW h, Arrival(s, o, v, i, w, h),
           Brought(s, i), Pair(s, o, v, i, w, h)
    PROVE  Rendezvous!Next
<1>1. TypeOK /\ WaitingInv /\ CameInv
  BY DEF IInv
<1> SUFFICES ASSUME NEW q, q = wsrelays[v][i].peer1  PROVE Rendezvous!Next
  OBVIOUS
<1>2. /\ s \in Sockets /\ v \in Servers /\ i \in Ids /\ w # "none"
      /\ \/ ws[s] = "none" /\ h
         \/ s \in lookup /\ h = (s \in here)
      /\ ws \in [Sockets -> WsStates]
  BY <1>1, Types DEF Arrival
<1>3. /\ wsrelays[v][i].state = 1 /\ h /\ q \in here
      /\ Authentic(s, o) \/ Authentic(q, origin[q])
      /\ \/ i \in Messenger \/ Account[o] = Account[origin[q]]
         \/ s \in NoUser \/ q \in NoUser
      /\ ws' = [ws EXCEPT ![s] = w] /\ here' = here \cup {s} /\ tun' = tun
      /\ peer' = [peer EXCEPT ![s] = q, ![q] = s]
  BY DEF Pair, Match, peerVars, tunVars
<1>4. /\ q \in users[i] /\ q \in Sockets /\ peer[q] = NoSock /\ ws[q] # "none"
      /\ q \notin lookup /\ ~Tunnelled(q)
  BY <1>1, <1>2, <1>3, Entries DEF WaitingInv, CameInv
<1>5. q # s
  BY <1>2, <1>4
<1>6. ws'[s] # "none" /\ \A x \in Sockets \ {s} : ws'[x] = ws[x]
  BY <1>2, <1>3, <1>4, <1>5
<1>7. s \in Sockets /\ o \in Ends /\ Arriving(s, o) /\ denied' = denied
  BY <1>3, <1>6, ArrivalIsArriving DEF SameTunnels, Brought, Arrival
<1>8. \A x \in Sockets : Tunnelled(x)' <=> Tunnelled(x)
  BY <1>3 DEF Tunnelled
<1>9. peer \in [Sockets -> Sockets \cup {NoSock}]
  BY <1>1 DEF TypeOK
<1>10. /\ peer'[s] = q /\ peer'[q] = s /\ \A x \in Sockets \ {s, q} : peer'[x] = peer[x]
  BY <1>3, <1>4, <1>5, <1>7, <1>9
<1>11. \A x \in Sockets \ {s, q} : Phase(x)' = Phase(x)
  <2> SUFFICES ASSUME NEW x \in Sockets \ {s, q}  PROVE Phase(x)' = Phase(x)
    OBVIOUS
  <2>1. ws'[x] = ws[x] /\ peer'[x] = peer[x]
    BY <1>6, <1>10
  <2>2. x \in here' <=> x \in here
    BY <1>3
  <2> QED  BY <2>1, <2>2, <1>8, PhaseIs, PhaseThen
<1>12. Phase(q) = "alone" /\ Phase(q)' = "joined" /\ Phase(s)' = "joined"
  <2>1. Phase(q) = "alone"
    BY <1>3, <1>4, PhaseIs
  <2>2. ws'[q] # "none" /\ peer'[q] # NoSock /\ peer'[s] # NoSock
    BY <1>4, <1>5, <1>6, <1>7, <1>10, Consts
  <2> QED  BY <2>1, <2>2, <1>4, <1>6, <1>7, PhaseThen
<1>13. /\ \A x \in Sockets \ {s} : /\ AccountOf(x)' = AccountOf(x)
                                 /\ (x \in ByUsers' <=> x \in ByUsers)
                                 /\ (x \in Exempt' <=> x \in Exempt)
       /\ AccountOf(s)' = Account[o]
       /\ ws[s] # "none" =>
             AccountOf(s) = Account[o] /\ ByUsers' = ByUsers /\ Exempt' = Exempt
       /\ ByUsers' \in {ByUsers, ByUsers \cup {s}}
       /\ Exempt' \in {Exempt, Exempt \cup {s}}
       /\ Authentic(s, o) => s \in ByUsers'
       /\ s \in NoUser \/ url'[s] \in Messenger => s \in Exempt'
  BY <1>7, ArrivingAccounts
<1>14. AccountOf(s)' = AccountOf(q) \/ {s, q} \cap Exempt' # {}
  <2>1. CASE Account[o] = Account[origin[q]]
    BY <2>1, <1>4, <1>13 DEF AccountOf
  <2>2. CASE i \in Messenger \/ s \in NoUser
    BY <2>2, <1>13 DEF Brought
  <2>3. CASE q \in NoUser
    <3>1. q \in Exempt
      BY <2>3, <1>4 DEF Exempt
    <3> QED  BY <3>1, <1>4, <1>5, <1>13
  <2> QED  BY <2>1, <2>2, <2>3, <1>3
<1>15. {s, q} \cap ByUsers' # {}
  <2>1. Authentic(q, origin[q]) => q \in ByUsers
    BY <1>4 DEF ByUsers
  <2> QED  BY <2>1, <1>3, <1>4, <1>5, <1>13
<1>16. \/ /\ Phase(s) = "alone" /\ AccountOf(s)' = AccountOf(s)
          /\ ByUsers' = ByUsers /\ Exempt' = Exempt
       \/ /\ Phase(s) = "absent" /\ ByUsers' \in {ByUsers, ByUsers \cup {s}}
          /\ Exempt' \in {Exempt, Exempt \cup {s}}
  <2>1. CASE ws[s] = "none"
    BY <2>1, <1>7, <1>13, PhaseIs
  <2>2. CASE ws[s] # "none"
    <3>1. s \in here /\ peer[s] = NoSock /\ ~Tunnelled(s)
      BY <2>2, <1>2, <1>3, Apart
    <3> QED  BY <2>2, <3>1, <1>7, <1>13, PhaseIs
  <2> QED  BY <2>1, <2>2
<1> QED  BY <1>3, <1>4, <1>5, <1>7, <1>11, <1>12, <1>13, <1>14, <1>15, <1>16, SomebodyJoins

\* Whatever performRelay decides.
LEMMA PerformMaps ==
    ASSUME IInv, NEW s, NEW o, NEW v, NEW i, NEW w, NEW h, Arrival(s, o, v, i, w, h),
           Brought(s, i), PerformRelay(s, o, v, i, w, h)
    PROVE  Rendezvous!Next \/ UNCHANGED Rendezvous!vars
<1>2. \/ Hold(s, v, i, w, h) \/ TurnedAway(s, w)
      \/ BothLost(s, o, v, i, w, h) \/ Pair(s, o, v, i, w, h)
  BY DEF PerformRelay, Refuse
<1>3. CASE TurnedAway(s, w)
  <2>1. TypeOK /\ CameInv
    BY DEF IInv
  <2>2. /\ s \in Sockets /\ o \in Ends /\ (s \in Ends => o = s) /\ origin'[s] = o
        /\ \A x \in Sockets \ {s} : origin'[x] = origin[x] /\ url'[x] = url[x]
        /\ denied' = denied
        /\ ws[s] = "none" \/ s \in lookup
        /\ w \in WsStates \ {"none"}
    BY <2>1, Types DEF Arrival
  <2>3. s \in lookup => ws[s] # "none" /\ s \in Ends /\ origin[s] = s
    BY <2>1, <2>2, Types DEF CameInv
  <2> QED  BY <1>3, <2>2, <2>3, TurnedAwayMaps DEF Brought
<1> QED  BY <1>2, <1>3, HoldMaps, BothLostMaps, PairMaps

\* s comes with routing instructions: it is alone until the database answers.
LEMMA RoutedMaps ==
    ASSUME IInv, NEW s \in Ends, NEW v \in Servers, NEW i \in Chosen \cup {NoId},
           ComesRouted(s, v, i)
    PROVE  Rendezvous!Next \/ UNCHANGED Rendezvous!vars
<1>1. /\ s \in Sockets /\ ws \in [Sockets -> WsStates] /\ ws[s] = "none"
      /\ origin \in [Sockets -> Ends \cup {NoSock}] /\ url \in [Sockets -> Ids \cup {NoId}]
  BY Consts DEF IInv, TypeOK, ComesRouted, Accepted
<1>2. /\ ws' = [ws EXCEPT ![s] = "open"] /\ here' = here \cup {s} /\ peer' = peer /\ tun' = tun
      /\ origin' = [origin EXCEPT ![s] = s] /\ url' = [url EXCEPT ![s] = i] /\ denied' = denied
  BY DEF ComesRouted, Accepted, peerVars, tunVars
<1>3. /\ \A x \in Sockets \ {s} :
            /\ ws'[x] = ws[x] /\ (x \in here' <=> x \in here)
            /\ origin'[x] = origin[x] /\ url'[x] = url[x]
      /\ ws'[s] # "none" /\ origin'[s] = s
  BY <1>1, <1>2
<1>4. \A x \in Sockets : Tunnelled(x)' <=> Tunnelled(x)
  BY <1>2 DEF Tunnelled
<1>5. \A x \in Sockets \ {s} : Phase(x)' = Phase(x)
  BY <1>2, <1>3, <1>4, PhaseIs, PhaseThen
<1>6. Arriving(s, s)
  BY <1>1, <1>2, <1>3 DEF Arriving, Untouched, SameTunnels
<1> QED  BY <1>1, <1>2, <1>5, <1>6, OneArrives

\* What waited for the database goes on, or is turned away.
LEMMA LookupMaps ==
    ASSUME IInv, NEW s \in Ends, NotRouted(s) \/ IsRouted(s)
    PROVE  Rendezvous!Next \/ UNCHANGED Rendezvous!vars
<1>1. TypeOK /\ CameInv /\ LookupInv
  BY DEF IInv
<1>2. CASE NotRouted(s)
  <2>1. s \in lookup /\ TurnedAway(s, ws[s]) /\ origin' = origin /\ url' = url /\ denied' = denied
    BY <1>2 DEF NotRouted, sockVars
  <2>2. s \in Sockets /\ ws[s] \in WsStates \ {"none"} /\ origin[s] = s
    BY <1>1, <2>1, Types DEF CameInv
  <2> QED  BY <2>1, <2>2, TurnedAwayMaps
<1>3. CASE IsRouted(s)
  <2>1. PICK i \in Ids :
           /\ IF id[s] = NoId THEN i \notin Chosen /\ users[i] = {} ELSE i = id[s]
           /\ users' = [users EXCEPT ![i] = @ \cup {s}]
           /\ PerformRelay(s, s, home[s], i, ws[s], s \in here)
    BY <1>3 DEF IsRouted
  <2>2. s \in lookup /\ lookup' = lookup \ {s} /\ UNCHANGED <<sockVars, denied>>
    BY <1>3 DEF IsRouted
  <2>3. IF id[s] = NoId THEN users[i] = {} ELSE i = id[s]
    BY <2>1
  <2>4. Arrival(s, s, home[s], i, ws[s], s \in here)
    BY <2>1, <2>2, <2>3, RoutedArrives
  <2>5. Brought(s, i)
    <3>1. url' = url
      BY <2>2 DEF sockVars
    <3>2. id[s] = NoId => i \notin Messenger
      BY <2>1, RelayAssumption
    <3>3. id[s] # NoId => url[s] = i
      BY <1>1, <2>1, <2>2 DEF LookupInv
    <3> QED  BY <3>1, <3>2, <3>3 DEF Brought
  <2> QED  BY <2>1, <2>4, <2>5, PerformMaps
<1> QED  BY <1>2, <1>3

\* A tunnel comes, with the id of its end or without one.
LEMMA TunnelMaps ==
    ASSUME IInv, NEW t \in Tunnels, TunnelComes(t)
    PROVE  Rendezvous!Next \/ UNCHANGED Rendezvous!vars
<1>1. TypeOK /\ CameInv /\ TunnelInv
  BY DEF IInv
<1>2. PerformRelay(t, origin[tun[t].from], tun[t].to, url[tun[t].from], "open", TRUE)
  BY DEF TunnelComes
<1>3. CASE url[tun[t].from] # NoId
  <2>1. Arrival(t, origin[tun[t].from], tun[t].to, url[tun[t].from], "open", TRUE)
    BY <1>3, TunnelArrives
  <2>2. Brought(t, url[tun[t].from])
    <3>1. t \notin lookup /\ t \in Sockets /\ url' = [url EXCEPT ![t] = url[tun[t].from]]
      BY <1>1, Types, Consts DEF TunnelComes, Accepted
    <3>2. url \in [Sockets -> Ids \cup {NoId}]
      BY <1>1 DEF TypeOK
    <3> QED  BY <3>1, <3>2 DEF Brought
  <2> QED  BY <1>2, <2>1, <2>2, PerformMaps
<1>4. CASE url[tun[t].from] = NoId
  <2>1. TurnedAway(t, "open")
    BY <1>2, <1>4 DEF PerformRelay, Unwelcome
  <2>2. /\ t \in Sockets /\ ws[t] = "none" /\ origin' = [origin EXCEPT ![t] = origin[tun[t].from]]
        /\ url' = [url EXCEPT ![t] = url[tun[t].from]] /\ denied' = denied
    BY Consts DEF TunnelComes, Accepted, askVars
  <2>3. origin[tun[t].from] \in Ends
    BY <1>1, Consts DEF TunnelComes, TunnelInv, CameInv
  <2>4. origin \in [Sockets -> Ends \cup {NoSock}] /\ url \in [Sockets -> Ids \cup {NoId}]
    BY <1>1 DEF TypeOK
  <2>5. /\ origin'[t] = origin[tun[t].from]
        /\ \A x \in Sockets \ {t} : origin'[x] = origin[x] /\ url'[x] = url[x]
    BY <2>2, <2>4
  <2>6. "open" \in WsStates \ {"none"}
    BY DEF WsStates
  <2> QED  BY <2>1, <2>2, <2>3, <2>5, <2>6, TurnedAwayMaps
<1> QED  BY <1>3, <1>4

\* A peer is heard: the connection that goes on through a tunnel ends here.
LEMMA HearsMaps ==
    ASSUME IInv, NEW m \in said, HearsRelay(m)
    PROVE  Rendezvous!Next \/ UNCHANGED Rendezvous!vars
<1>1. TypeOK /\ CameInv /\ WaitingInv /\ SaidInv /\ TunnelInv
  BY DEF IInv
<1>2. /\ ws' = ws /\ here' = here /\ peer' = peer /\ origin' = origin /\ url' = url
      /\ denied' = denied
  BY DEF HearsRelay, objVars, sockVars, askVars
<1>3. ASSUME \A t \in Tunnels : ws[t] # "none" => tun'[t] = tun[t]
      PROVE  /\ \A x \in Sockets : AccountOf(x)' = AccountOf(x)
             /\ ByUsers' = ByUsers /\ Exempt' = Exempt
  BY <1>2, <1>3, SameAccounts DEF Untouched
<1>4. CASE tun' = tun
  <2>1. \A x \in Sockets : Tunnelled(x)' <=> Tunnelled(x)
    BY <1>4 DEF Tunnelled
  <2>2. \A x \in Sockets : Phase(x)' = Phase(x)
    BY <2>1, <1>2, PhaseIs, PhaseThen
  <2>3. /\ \A x \in Sockets : AccountOf(x)' = AccountOf(x)
        /\ ByUsers' = ByUsers /\ Exempt' = Exempt
    BY <1>3, <1>4
  <2> QED  BY <2>2, <2>3, <1>2, NothingHappens
<1>5. CASE tun' # tun
  <2> SUFFICES ASSUME NEW p, p = wsrelays[m.to][m.id].peer1
               PROVE  Rendezvous!Next \/ UNCHANGED Rendezvous!vars
    OBVIOUS
  <2>1. /\ wsrelays[m.to][m.id] # None /\ m.from > m.to /\ p \in here
        /\ OpenTunnel(p, m.from, HasUser(p, origin[p]))
    BY <1>5 DEF HearsRelay
  <2>2. /\ m.to \in Servers /\ m.id \in Ids /\ m.from \in Servers /\ Held(m.from, m.id)
    BY <1>1 DEF TypeOK, Messages, SaidInv
  <2>3. m.to < m.from
    BY <2>1, <2>2, Consts
  <2>4. wsrelays[m.to][m.id].state = 1
    BY <2>1, <2>2, <2>3, AloneBefore
  <2>5. p \in Sockets /\ peer[p] = NoSock /\ ~Tunnelled(p) /\ ws[p] # "none"
    BY <1>1, <2>1, <2>2, <2>4, Entries DEF WaitingInv, CameInv
  <2>6. PICK t \in Tunnels \ {p} :
           /\ tun[t] = NoTunnel
           /\ tun' = [tun EXCEPT ![t] =
                        [from |-> p, to |-> m.from, user |-> HasUser(p, origin[p])]]
    BY <2>1 DEF OpenTunnel
  <2>7. /\ SameTunnels(p)
         /\ Tunnelled(p)' /\ \A x \in Sockets \ {p} : Tunnelled(x)' <=> Tunnelled(x)
    BY <1>1, <2>5, <2>6, TunnelOpens
  <2>8. \A x \in Sockets \ {p} : Phase(x)' = Phase(x)
    BY <2>7, <1>2, PhaseIs, PhaseThen
  <2>9. Phase(p) = "alone" /\ Phase(p)' = "over"
    BY <2>1, <2>5, <2>7, <1>2, PhaseIs, PhaseThen
  <2>10. peer \in [Sockets -> Sockets \cup {NoSock}]
    BY <1>1 DEF TypeOK
  <2>11. \A x \in Sockets \cap {p, peer[p]} : Phase(x)' = "over" /\ peer'[x] = NoSock
    BY <2>5, <2>9, <1>2, Consts
  <2>12. \A x \in Sockets \ {p, peer[p]} : Phase(x)' = Phase(x) /\ peer'[x] = peer[x]
    BY <2>8, <1>2
  <2>13. /\ \A x \in Sockets : AccountOf(x)' = AccountOf(x)
         /\ ByUsers' = ByUsers /\ Exempt' = Exempt
    BY <1>3, <2>7 DEF SameTunnels
  <2> QED  BY <2>5, <2>9, <2>10, <2>11, <2>12, <2>13, <1>2, SomebodyEnds
<1> QED  BY <1>4, <1>5

\* A user that is refused its rights leaves by itself.
LEMMA AccessDeniedMaps ==
    ASSUME IInv, NEW s \in Sockets, AccessDenied(s)
    PROVE  Rendezvous!Next
<1>1. TypeOK /\ CameInv /\ DeniedInv
  BY DEF IInv
<1>2. /\ s \in here /\ HasUser(s, origin[s]) /\ ws' = [ws EXCEPT ![s] = Shut(@)]
      /\ peer' = [peer EXCEPT ![s] = NoSock] /\ here' = here \ {s}
      /\ denied' = denied \cup {s} /\ origin' = origin /\ url' = url /\ tun' = tun
  BY DEF AccessDenied, sockVars, peerVars, tunVars
<1>3. /\ ws \in [Sockets -> WsStates] /\ peer \in [Sockets -> Sockets \cup {NoSock}]
  BY <1>1 DEF TypeOK
<1>4. ws[s] # "none" /\ s \notin denied
  BY <1>1, <1>2 DEF CameInv, DeniedInv
<1>5. /\ \A x \in Sockets \ {s} :
            ws'[x] = ws[x] /\ peer'[x] = peer[x] /\ (x \in here' <=> x \in here)
      /\ ws'[s] # "none" /\ peer'[s] = NoSock /\ s \notin here'
  BY <1>2, <1>3, <1>4 DEF Shut
<1>6. \A x \in Sockets : Tunnelled(x)' <=> Tunnelled(x)
  BY <1>2 DEF Tunnelled
<1>7. \A x \in Sockets \ {s} : Phase(x)' = Phase(x)
  BY <1>5, <1>6, PhaseIs, PhaseThen
<1>8. Phase(s)' = "over"
  BY <1>5, PhaseThen
<1>9. /\ \A x \in Sockets : AccountOf(x)' = AccountOf(x)
      /\ ByUsers' = ByUsers /\ Exempt' = Exempt
  <2>1. \A x \in Sockets : Untouched(x)
    BY <1>2, <1>4, <1>5 DEF Untouched
  <2> QED  BY <2>1, SameAccounts
<1>10. s \in ByUsers
  BY <1>2, <1>4 DEF ByUsers, Authentic
<1>11. Phases' = [Phases EXCEPT ![s] = "over"] /\ AccountsOf' = AccountsOf
  BY <1>7, <1>8, <1>9 DEF Phases, AccountsOf
<1>12. Rendezvous!Leave(s)
  BY <1>2, <1>4, <1>9, <1>10, <1>11 DEF Rendezvous!Leave, Phases, AccountsOf
<1> QED  BY <1>12 DEF Rendezvous!Next

\* The end of a tunnel, what becomes of the peers, the steps of a recording and
\* stuttering change nothing that Rendezvous sees.
LEMMA OthersMap ==
    ASSUME IInv,
           \/ \E t \in Tunnels : TunnelEnds(t)
           \/ \E v, w \in Servers : PeerLost(v, w) \/ PeerFound(v, w)
           \/ \E s \in Sockets : RecordingStarts(s) \/ NotRecorded(s) \/ RecordingCloses(s)
           \/ UNCHANGED vars
    PROVE  UNCHANGED Rendezvous!vars
<1>1. TypeOK /\ TunnelInv
  BY DEF IInv
<1>2. /\ here' = here /\ peer' = peer /\ origin' = origin /\ url' = url /\ tun' = tun
      /\ denied' = denied
  BY DEF TunnelEnds, PeerLost, PeerFound, RecordingStarts, NotRecorded, RecordingCloses, vars,
         objVars, sockVars, askVars, peerVars, tunVars
<1>3. \A x \in Sockets : ws'[x] = "none" <=> ws[x] = "none"
  <2>1. CASE ws' = ws
    BY <2>1
  <2>2. ASSUME NEW t \in Tunnels, TunnelEnds(t)
        PROVE  \A x \in Sockets : ws'[x] = "none" <=> ws[x] = "none"
    <3>1. ws \in [Sockets -> WsStates] /\ ws' = [ws EXCEPT ![tun[t].from] = Shut(@)]
      BY <1>1, <2>2 DEF TypeOK, TunnelEnds
    <3>2. \A x \in Sockets : ws'[x] \in {ws[x], Shut(ws[x])}
      BY <3>1
    <3> QED  BY <3>2 DEF Shut
  <2> QED  BY <2>1, <2>2 DEF PeerLost, PeerFound, RecordingStarts, NotRecorded, RecordingCloses, vars, objVars
<1>4. \A x \in Sockets : Tunnelled(x)' <=> Tunnelled(x)
  BY <1>2 DEF Tunnelled
<1>5. \A x \in Sockets : Phase(x)' = Phase(x)
  BY <1>2, <1>3, <1>4, PhaseIs, PhaseThen
<1>6. /\ \A x \in Sockets : AccountOf(x)' = AccountOf(x)
      /\ ByUsers' = ByUsers /\ Exempt' = Exempt
  <2>1. \A x \in Sockets : Untouched(x)
    BY <1>2, <1>3 DEF Untouched
  <2> QED  BY <2>1, SameAccounts
<1> QED  BY <1>2, <1>5, <1>6, NothingHappens

\* Every step of the relay is a step of Rendezvous or a stutter.
THEOREM StepMaps ==
    ASSUME ~Reuse, IInv, [Next]_vars
    PROVE  Rendezvous!Next \/ UNCHANGED Rendezvous!vars
<1> DEFINE Goal == Rendezvous!Next \/ UNCHANGED Rendezvous!vars
<1>1. ASSUME NEW s \in Ends, NEW v \in Servers, NEW i \in Ids, Comes(s, v, i)  PROVE Goal
  <2>1. PerformRelay(s, s, v, i, "open", TRUE)
    BY <1>1 DEF Comes
  <2>2. Brought(s, i)
    <3>1. /\ ws[s] = "none" /\ s \in Sockets /\ url' = [url EXCEPT ![s] = i]
          /\ url \in [Sockets -> Ids \cup {NoId}] /\ CameInv
      BY <1>1, Consts DEF Comes, Accepted, IInv, TypeOK
    <3> QED  BY <3>1 DEF Brought, CameInv
  <2> QED  BY <1>1, <2>1, <2>2, ComesArrives, PerformMaps
<1>2. ASSUME NEW s \in Ends, NEW v \in Servers, NEW i \in Chosen \cup {NoId}, ComesRouted(s, v, i)
      PROVE Goal
  BY <1>2, RoutedMaps
<1>3. ASSUME NEW s \in Sockets,
             Closed(s) \/ Fails(s) \/ TimesOut(s) \/ (s \in Ends /\ Expires(s))
      PROVE Goal
  <2>1. TypeOK /\ CameInv
    BY DEF IInv
  <2>2. ws[s] \in WsStates /\ ws[s] # "none" /\ {"closed", "closing"} \subseteq WsStates
    BY <1>3, <2>1 DEF TypeOK, CameInv, WsStates, Closed, Fails, TimesOut, Expires
  <2>3. PICK w \in WsStates : w # "none" /\ CloseBothSides(s, w)
    BY <1>3, <2>2 DEF Closed, Fails, TimesOut, Expires
  <2> QED  BY <2>2, <2>3, CloseMaps
<1>4. \A s \in Ends : s \in Sockets
  BY Consts
<1>5. CASE UNCHANGED vars
  BY <1>5, OthersMap
<1>6. CASE Next
  BY <1>6, <1>1, <1>2, <1>3, <1>4, LookupMaps, TunnelMaps, HearsMaps,
     AccessDeniedMaps, OthersMap DEF Next
<1> QED  BY <1>5, <1>6

\* The relay keeps the promise of Rendezvous.
THEOREM RendezvousIsKept == ASSUME ~Reuse  PROVE Spec => RendezvousSpec
<1>1. Init => Rendezvous!Init
  BY InitMaps
<1>2. IInv /\ [Next]_vars => [Rendezvous!Next]_(Rendezvous!vars)
  BY StepMaps
<1> QED  BY <1>1, <1>2, Invariance, PTL DEF Spec, RendezvousSpec, Rendezvous!Spec
=============================================================================
