---------------------------- MODULE PeerSessions ----------------------------
(***************************************************************************)
(* The sessions of users, which each server keeps for itself and, in three *)
(* tables, for each of its peers (meshuser.js, webserver.js,               *)
(* multiserver.js): the list of the peer's sessions, the peer of a         *)
(* session, to which what is sent to the session is routed, and the peer's *)
(* sessions of a user, which are counted for the user.  A server sends the *)
(* list of its sessions when a connection to a peer is set up, and every   *)
(* session that starts or ends after that.                                 *)
(*                                                                         *)
(* A user's sessions are counted only while the server has the account in  *)
(* memory (webserver.users).  Accounts come and go at one server: nothing  *)
(* tells the others but, when an administrator deletes one, to close the   *)
(* sessions of the user.                                                   *)
(***************************************************************************)
EXTENDS PeerLinks, SequencesExt, Functions

CONSTANTS Users,
          Sessions,       \* session ids: user id, server and random bytes
          NoSession,      \* what stands in a message that names no session
          Bounds          \* bound: which sessions are asked for together, with
                          \* how many restarts and changes of accounts

ASSUME SessionsAssumption ==
    /\ Sessions \subseteq [user : Users, at : Servers, n : Nat]
    /\ IsFiniteSet(Sessions)
    /\ NoSession \notin Sessions
    /\ Bounds \subseteq [sessions : SUBSET Sessions, restarts : Nat, changes : Nat]

VARIABLES status,          \* session -> where it is in its life
          dead,            \* sessions whose web socket closed too early
          wsPeerSessions,  \* server -> peer -> list of sessions
          wsPeerSessions2, \* server -> session -> peer
          wsPeerSessions3, \* server -> peer -> user -> list of sessions
          sessionsCount,   \* server -> user -> number of sessions
          restarts,
          users,           \* server -> the accounts it has in memory
          changes,         \* accounts removed and made so far
          deaf,            \* sessions that began without their account
          closing          \* sessions the server closed whose web socket did
                           \* not report its close yet

VARIABLE uncounted         \* server -> users whose last change was not counted

tableVars == <<wsPeerSessions, wsPeerSessions2, wsPeerSessions3>>
countVars == <<sessionsCount, uncounted>>
accountVars == <<users, changes>>
lifeVars == <<status, dead, deaf, closing>>
vars == <<linkVars, lifeVars, tableVars, countVars, accountVars, restarts>>

\* The sessions in wssessions and wssessions2 of server s.
Own(s) == {x \in Sessions : x.at = s /\ status[x] = "listed"}

TypeOK ==
    /\ LinkTypeOK
    /\ status \in [Sessions -> {"none", "asking", "listed", "ended"}]
    /\ dead \subseteq Sessions
    /\ \A s \in Servers :
          /\ DOMAIN wsPeerSessions[s] \subseteq Servers
          /\ \A p \in DOMAIN wsPeerSessions[s] : wsPeerSessions[s][p] \in Seq(Sessions)
          /\ DOMAIN wsPeerSessions2[s] \subseteq Sessions
          /\ DOMAIN wsPeerSessions3[s] \subseteq Servers
    /\ sessionsCount \in [Servers -> [Users -> Nat]]
    /\ restarts \in Nat
    /\ users \in [Servers -> SUBSET Users] /\ changes \in Nat
    /\ deaf \subseteq Sessions /\ closing \subseteq Sessions
    /\ uncounted \in [Servers -> SUBSET Users]

Init ==
    /\ LinkInit
    /\ status = [x \in Sessions |-> "none"] /\ dead = {}
    /\ wsPeerSessions = [s \in Servers |-> <<>>]
    /\ wsPeerSessions2 = [s \in Servers |-> <<>>]
    /\ wsPeerSessions3 = [s \in Servers |-> <<>>]
    /\ sessionsCount = [s \in Servers |-> [u \in Users |-> 0]]
    /\ restarts = 0 /\ changes = 0
    /\ users = [s \in Servers |-> Users]
    /\ deaf = {} /\ closing = {}
    /\ uncounted = [s \in Servers |-> {}]

-----------------------------------------------------------------------------
\* The sessions of user u, of those the server has itself and of its peers'.
Listed(lists, u) == IF u \in DOMAIN lists THEN lists[u] ELSE <<>>
Count(own, peers, u) ==
    FoldFunction(+, Cardinality({x \in own : x.user = u}),
                 [p \in DOMAIN peers |-> Len(Listed(peers[p], u))])

\* recountSessions() and recountSessions(sessionid), for a server s that has
\* these sessions and these of its peers; a single count is kept only if there
\* is the account.
RecountAll(s, own, peers) ==
    /\ sessionsCount' = [sessionsCount EXCEPT ![s] = [u \in Users |-> Count(own, peers, u)]]
    /\ uncounted' = [uncounted EXCEPT ![s] = {}]

Recount(s, there, own, peers, u) ==
    \/ /\ there
       /\ sessionsCount' = [sessionsCount EXCEPT ![s][u] = Count(own, peers, u)]
       /\ uncounted' = [uncounted EXCEPT ![s] = @ \ {u}]
    \/ /\ ~there /\ UNCHANGED sessionsCount
       /\ uncounted' = [uncounted EXCEPT ![s] = @ \cup {u}]

\* Channels ch with the messages ms sent by s to every server on its list.
DispatchAll(ch, s, ms) ==
    LET used == {peerServers[s][p] : p \in Servers} \ {NoConn}
    IN  [c \in Conns |->
           IF c \in used /\ end[c][Peer(c, s)] \in Alive
           THEN [ch[c] EXCEPT ![Peer(c, s)] = @ \o ms]
           ELSE ch[c]]

\* The messages that the sessions of X ended.
EndsOf(X) == SetToSeq({[action |-> "sessionEnd", sessionid |-> x] : x \in X})

-----------------------------------------------------------------------------
\* The bound: the sessions asked for are among X, with at most these restarts
\* and changes of accounts.
Within(X, restarted, changed) ==
    \E b \in Bounds :
        X \subseteq b.sessions /\ restarted <= b.restarts /\ changed <= b.changes

Asked == {x \in Sessions : status[x] # "none"}

\* A user who is logged in opens a web socket; the bytes of its session id are
\* being made.
Ask(x) ==
    /\ status[x] = "none" /\ x.user \in users[x.at]
    /\ Within(Asked \cup {x}, restarts, changes)
    /\ status' = [status EXCEPT ![x] = "asking"]
    /\ UNCHANGED <<linkVars, dead, deaf, closing, tableVars, countVars, accountVars, restarts>>

\* The web socket closes meanwhile: nobody listens to that yet.
CloseUnheard(x) ==
    /\ status[x] = "asking" /\ x \notin dead /\ dead' = dead \cup {x}
    /\ UNCHANGED <<linkVars, status, deaf, closing, tableVars, countVars, accountVars, restarts>>

\* Mutant of SessionStart: the session is announced, and not counted.
SessionStartUncounted(x) ==
    /\ status[x] = "asking" /\ status' = [status EXCEPT ![x] = "listed"]
    /\ deaf' = IF x.user \in users[x.at] THEN deaf ELSE deaf \cup {x}
    /\ chan' = DispatchAll(chan, x.at, <<[action |-> "sessionStart", sessionid |-> x]>>)
    /\ UNCHANGED <<peerServers, end, dead, closing, tableVars, countVars, accountVars, restarts>>

\* The session id is made: the session is listed, counted and announced.  Events
\* reach it only if there is still the account.
SessionStart(x) ==
    /\ status[x] = "asking" /\ status' = [status EXCEPT ![x] = "listed"]
    /\ deaf' = IF x.user \in users[x.at] THEN deaf ELSE deaf \cup {x}
    /\ Recount(x.at, x.user \in users[x.at], Own(x.at) \cup {x}, wsPeerSessions3[x.at], x.user)
    /\ chan' = DispatchAll(chan, x.at, <<[action |-> "sessionStart", sessionid |-> x]>>)
    /\ UNCHANGED <<peerServers, end, dead, closing, tableVars, accountVars, restarts>>

\* obj.close of the sessions X that s has of user u, one after the other: each
\* is taken out and, if there is the account, counted.
CloseSessions(s, u, X, there) ==
    /\ status' = [x \in Sessions |-> IF x \in X THEN "ended" ELSE status[x]]
    /\ \/ X = {} /\ UNCHANGED countVars
       \/ X # {} /\ Recount(s, there, Own(s) \ X, wsPeerSessions3[s], u)

\* Mutant of SessionEnd: the peers are not told.
SessionEndUntold(x) ==
    /\ status[x] = "listed" /\ x \notin dead
    /\ CloseSessions(x.at, x.user, {x}, x.user \in users[x.at])
    /\ UNCHANGED <<linkVars, dead, deaf, closing, tableVars, accountVars, restarts>>

\* The web socket of a session closes.
SessionEnd(x) ==
    /\ status[x] = "listed" /\ x \notin dead
    /\ CloseSessions(x.at, x.user, {x}, x.user \in users[x.at])
    /\ chan' = DispatchAll(chan, x.at, EndsOf({x}))
    /\ UNCHANGED <<peerServers, end, dead, deaf, closing, tableVars, accountVars, restarts>>

\* The server closes a session: it expired, its login token was removed, or its
\* web socket had an error.  The web socket, unless it closed before, then
\* reports its close to a handler that is still there.
SessionStopped(x) ==
    /\ status[x] = "listed"
    /\ CloseSessions(x.at, x.user, {x}, x.user \in users[x.at])
    /\ closing' = closing \cup ({x} \ dead)
    /\ chan' = DispatchAll(chan, x.at, EndsOf({x}))
    /\ UNCHANGED <<peerServers, end, dead, deaf, tableVars, accountVars, restarts>>

\* obj.close runs again.  It finds nothing of the session but tells the peers of
\* an end without session id; a connection that may not fail any more (bound)
\* carries none.
SecondClose(x) ==
    /\ x \in closing /\ closing' = closing \ {x}
    /\ \A p \in Servers : peerServers[x.at][p].n < MaxConns
    /\ chan' = DispatchAll(chan, x.at, <<[action |-> "sessionEnd", sessionid |-> NoSession]>>)
    /\ UNCHANGED <<peerServers, end, status, dead, deaf, tableVars, countVars, accountVars,
                   restarts>>

-----------------------------------------------------------------------------
\* The sessions that s has of user u and that events reach.
Hearing(s, u) == {x \in Own(s) : x.user = u} \ deaf

\* The command deleteuser: the account is removed, then its sessions are closed,
\* here at once and at the peers by an event.
DeleteUser(s, u) ==
    /\ u \in users[s] /\ changes' = changes + 1 /\ Within(Asked, restarts, changes')
    /\ users' = [users EXCEPT ![s] = @ \ {u}]
    /\ LET X == Hearing(s, u) IN
          /\ CloseSessions(s, u, X, FALSE)
          /\ closing' = closing \cup (X \ dead)
          /\ chan' = DispatchAll(chan, s, Append(EndsOf(X), [action |-> "bus", user |-> u]))
    /\ UNCHANGED <<peerServers, end, dead, deaf, tableVars, restarts>>

\* A user removes the own account, on a page of the web server; or an account is
\* made, with an id that may have been there before.
ChangeAccount(s, u) ==
    /\ changes' = changes + 1 /\ Within(Asked, restarts, changes')
    /\ users' = [users EXCEPT ![s] = IF u \in @ THEN @ \ {u} ELSE @ \cup {u}]
    /\ UNCHANGED <<linkVars, lifeVars, tableVars, countVars, restarts>>

-----------------------------------------------------------------------------
\* The server stops and starts again, with no session and no peer, and with the
\* accounts that the database has by then.
StartsAnew(s) ==
    /\ LinkRestart(s)
    /\ status' = [x \in Sessions |->
                    IF x.at = s /\ status[x] \in {"asking", "listed"} THEN "ended"
                    ELSE status[x]]
    /\ wsPeerSessions' = [wsPeerSessions EXCEPT ![s] = <<>>]
    /\ wsPeerSessions2' = [wsPeerSessions2 EXCEPT ![s] = <<>>]
    /\ wsPeerSessions3' = [wsPeerSessions3 EXCEPT ![s] = <<>>]
    /\ sessionsCount' = [sessionsCount EXCEPT ![s] = [u \in Users |-> 0]]
    /\ uncounted' = [uncounted EXCEPT ![s] = {}]
    /\ closing' = {x \in closing : x.at # s}
    /\ \E found \in SUBSET Users : users' = [users EXCEPT ![s] = found]
    /\ UNCHANGED <<dead, deaf, changes>>

\* The last connection of the bound does not fail.
Restart(s) ==
    /\ restarts' = restarts + 1 /\ Within(Asked, restarts', changes)
    /\ \A c \in Conns : c.n = MaxConns => end[c][s] \notin Alive
    /\ StartsAnew(s)

Open(c) ==
    Connect(c) /\ UNCHANGED <<lifeVars, tableVars, countVars, accountVars, restarts>>

Confirmed(c, s) ==
    ReadConfirm(c, s) /\ UNCHANGED <<lifeVars, tableVars, countVars, accountVars, restarts>>

\* SetupPeerServer sends the list of the server's sessions.
SetupPeerServer(c, s) ==
    /\ ReadInfo(c, s, [action |-> "sessionsTable", sessionsTable |-> SetToSeq(Own(s))])
    /\ UNCHANGED <<lifeVars, tableVars, countVars, accountVars, restarts>>

\* ClearPeerServer forgets the sessions of the peer.
ForgetSessions(s, p) ==
    LET gone == IF p \in DOMAIN wsPeerSessions[s] THEN ToSet(wsPeerSessions[s][p]) ELSE {}
    IN  /\ wsPeerSessions' = [wsPeerSessions EXCEPT ![s] = Restrict(@, DOMAIN @ \ {p})]
        /\ wsPeerSessions2' = [wsPeerSessions2 EXCEPT ![s] = Restrict(@, DOMAIN @ \ gone)]
        /\ wsPeerSessions3' = [wsPeerSessions3 EXCEPT ![s] = Restrict(@, DOMAIN @ \ {p})]
        /\ RecountAll(s, Own(s), wsPeerSessions3'[s])

\* A connection ends at s.  The last connection of the bound does not fail.
Close(c, s) ==
    /\ c.n < MaxConns \/ end[c][Peer(c, s)] = "closed"
    /\ LinkClose(c, s)
    /\ IF end[c][s] = "setup" THEN ForgetSessions(s, Peer(c, s))
       ELSE UNCHANGED <<tableVars, countVars>>
    /\ UNCHANGED <<lifeVars, accountVars, restarts>>

-----------------------------------------------------------------------------
\* ProcessPeerServerMessage; before the connection is set up the message is
\* ignored.
Ignored(c, s) ==
    /\ end[c][s] = "open" /\ ReadData(c, s)
    /\ UNCHANGED <<lifeVars, tableVars, countVars, accountVars, restarts>>

\* Table f with entry v for each of keys.
Put(f, keys, v) == [k \in DOMAIN f \cup keys |-> IF k \in keys THEN v ELSE f[k]]

\* The sessions of one user in a list; their order shows nowhere.
OfUser(list, u) == SetToSeq({x \in ToSet(list) : x.user = u})

\* sessionsTable: the list replaces the one before, and the peer is noted for
\* each of its sessions.
ReadTable(c, s) ==
    LET p == Peer(c, s)
        list == Head(chan[c][s]).sessionsTable
        inList == {x.user : x \in ToSet(list)}
    IN  /\ Reads(c, s, "sessionsTable")
        /\ \/ Ignored(c, s)
           \/ /\ end[c][s] = "setup" /\ ReadData(c, s)
              /\ wsPeerSessions' = [wsPeerSessions EXCEPT ![s] = Put(@, {p}, list)]
              /\ wsPeerSessions2' = [wsPeerSessions2 EXCEPT ![s] = Put(@, ToSet(list), p)]
              /\ wsPeerSessions3' = [wsPeerSessions3 EXCEPT ![s] =
                                        Put(@, {p}, [u \in inList |-> OfUser(list, u)])]
              /\ RecountAll(s, Own(s), wsPeerSessions3'[s])
              /\ UNCHANGED <<lifeVars, accountVars, restarts>>

\* The sessions of users with x.
With(lists, x) == Put(lists, {x.user}, Append(Listed(lists, x.user), x))

\* sessionStart.  Without a list for the peer the code throws, and as nothing
\* catches it the server starts anew.
ReadStart(c, s) ==
    LET p == Peer(c, s)
        x == Head(chan[c][s]).sessionid
        lists == IF p \in DOMAIN wsPeerSessions3[s] THEN wsPeerSessions3[s][p] ELSE <<>>
    IN  /\ Reads(c, s, "sessionStart")
        /\ \/ Ignored(c, s)
           \/ /\ end[c][s] = "setup" /\ UNCHANGED restarts
              /\ IF p \notin DOMAIN wsPeerSessions[s]
                 THEN StartsAnew(s)
                 ELSE /\ ReadData(c, s) /\ UNCHANGED <<lifeVars, accountVars>>
                      /\ wsPeerSessions' = [wsPeerSessions EXCEPT ![s][p] = Append(@, x)]
                      /\ wsPeerSessions2' = [wsPeerSessions2 EXCEPT ![s] = Put(@, {x}, p)]
                      /\ wsPeerSessions3' = [wsPeerSessions3 EXCEPT ![s] =
                            Put(@, {p}, With(lists, x))]
                      /\ Recount(s, x.user \in users[s], Own(s), wsPeerSessions3'[s], x.user)

\* Mutant of Without: the session stays in the list of its user.
WithoutNothing(lists, x) == lists

\* The sessions of users without x; a user without sessions is taken out.
Without(lists, x) ==
    LET rest == RemoveFirst(Listed(lists, x.user), x)
    IN  IF rest = <<>> THEN Restrict(lists, DOMAIN lists \ {x.user})
        ELSE [lists EXCEPT ![x.user] = rest]

\* sessionEnd.  Without a list the code throws here too, and without a session id
\* when it looks for the user in it.
ReadEnd(c, s) ==
    LET p == Peer(c, s)
        x == Head(chan[c][s]).sessionid
    IN  /\ Reads(c, s, "sessionEnd")
        /\ \/ Ignored(c, s)
           \/ /\ end[c][s] = "setup" /\ UNCHANGED restarts
              /\ IF p \notin DOMAIN wsPeerSessions[s] \/ x = NoSession
                 THEN StartsAnew(s)
                 ELSE /\ ReadData(c, s) /\ UNCHANGED <<lifeVars, accountVars>>
                      /\ wsPeerSessions' = [wsPeerSessions EXCEPT ![s][p] = RemoveFirst(@, x)]
                      /\ wsPeerSessions2' = [wsPeerSessions2 EXCEPT ![s] =
                                                Restrict(@, DOMAIN @ \ {x})]
                      /\ wsPeerSessions3' = [wsPeerSessions3 EXCEPT ![s][p] = Without(@, x)]
                      /\ Recount(s, x.user \in users[s], Own(s), wsPeerSessions3'[s], x.user)

\* The event that closes the sessions of a user whose account a peer removed.
ReadBus(c, s) ==
    LET u == Head(chan[c][s]).user
        X == Hearing(s, u)
    IN  /\ Reads(c, s, "bus")
        /\ \/ Ignored(c, s)
           \/ /\ end[c][s] = "setup"
              /\ CloseSessions(s, u, X, u \in users[s])
              /\ closing' = closing \cup (X \ dead)
              /\ chan' = DispatchAll(Taken(c, s), s, EndsOf(X))
              /\ UNCHANGED <<peerServers, end, dead, deaf, tableVars, accountVars, restarts>>

Next ==
    \/ \E x \in Sessions :
          \/ Ask(x) \/ CloseUnheard(x) \/ SessionStart(x)
          \/ SessionEnd(x) \/ SessionStopped(x) \/ SecondClose(x)
    \/ \E s \in Servers, u \in Users : DeleteUser(s, u) \/ ChangeAccount(s, u)
    \/ \E s \in Servers : Restart(s)
    \/ \E c \in Conns : Open(c)
    \/ \E c \in Conns : \E s \in Ends(c) :
          \/ Confirmed(c, s) \/ SetupPeerServer(c, s) \/ Close(c, s)
          \/ ReadTable(c, s) \/ ReadStart(c, s) \/ ReadEnd(c, s) \/ ReadBus(c, s)

\* Messages that arrived are processed, a connection that ended at one end is
\* eventually noticed at the other, and the retry timer connects again.
Fairness ==
    /\ \A c \in Conns : WF_vars(Open(c))
    /\ \A c \in Conns : \A s \in Servers :
          /\ WF_vars(\/ Confirmed(c, s) \/ SetupPeerServer(c, s)
                     \/ ReadTable(c, s) \/ ReadStart(c, s) \/ ReadEnd(c, s)
                     \/ ReadBus(c, s))
          /\ WF_vars(end[c][Peer(c, s)] = "closed" /\ Close(c, s))

Spec == Init /\ [][Next]_vars /\ Fairness

-----------------------------------------------------------------------------
\* The number of sessions that a server shows of a user is that of the user's
\* sessions it has itself and knows of its peers, whatever table, start or end
\* came and whichever peer went: recountSessions is called for each of them, for
\* one user or all.  It may be wrong only of a user whose account was not there
\* when a session last changed, and only until a change with the account there,
\* or until a connection to a peer is set up or ends.
SessionsAreCounted ==
    \A s \in Servers, u \in Users :
        u \notin uncounted[s] => sessionsCount[s][u] = Count(Own(s), wsPeerSessions3[s], u)

\* The three tables are about the same sessions, of peers that are connected:
\* what is sent to a session that is listed is routed to the server that has it,
\* no session is routed that is not listed, and each is counted once for its user.
SessionsAreRouted ==
    \A s \in Servers :
        /\ DOMAIN wsPeerSessions[s] = DOMAIN wsPeerSessions3[s]
        /\ \A p \in DOMAIN wsPeerSessions[s] :
              LET list == wsPeerSessions[s][p] IN
              /\ peerServers[s][p] # NoConn /\ IsInjective(list)
              /\ {x \in DOMAIN wsPeerSessions2[s] : wsPeerSessions2[s][x] = p} = ToSet(list)
              /\ \A u \in Users :
                    LET ofUser == Listed(wsPeerSessions3[s][p], u) IN
                    /\ IsInjective(ofUser)
                    /\ ToSet(ofUser) = {x \in ToSet(list) : x.user = u}
        /\ \A x \in DOMAIN wsPeerSessions2[s] :
              wsPeerSessions2[s][x] \in DOMAIN wsPeerSessions[s]

\* Once the connections stay up and no session starts or ends any more, every
\* server knows the sessions of every other.
SessionsConverge ==
    <>[](\A s, p \in Servers : s # p =>
            /\ p \in DOMAIN wsPeerSessions[s]
            /\ ToSet(wsPeerSessions[s][p]) = Own(p))
=============================================================================
