---------------------------- MODULE MCMeshRelay ----------------------------
(***************************************************************************)
(* Users, the agents they ask for, and connections that use the same ids   *)
(* without being meant; and what one may expect and the code does not keep.*)
(***************************************************************************)
EXTENDS MeshRelay

CONSTANTS own, foreign, nobody, a1, n1, x1, g1, i1, i2, c1

\* The account of each end: all have the same; x1 has another one; and one that
\* comes without a user has nobody's.
McAccount == [s \in Ends |->
                CASE s = x1 -> foreign [] s \in NoUser -> nobody [] OTHER -> own]

\* Who comes together: a user that names its device, the agent of it and a user
\* of another account; an end that has routing instructions and no user, and the
\* agent, with the id of each; and users of two accounts that exchange messages.
McParties ==
    {[ends |-> {n1, a1, x1}, ids |-> {i1}],
     [ends |-> {g1, a1}, ids |-> {i1, i2}],
     [ends |-> {n1, x1}, ids |-> {c1}]}

\* A messenger id names the users, and not who comes without one.
McBarred == [i \in Messenger |-> NoUser]

\* What one may expect and the code does not keep; the README says how each is
\* lost, and no listed run checks it.  What is listed as waiting has its web
\* socket ("Check that both sides have websocket connections, this should never
\* happen").
WaitingIsThere ==
    \A v \in Servers, i \in Ids :
        wsrelays[v][i].state = 1 => wsrelays[v][i].peer1 \in here

\* Who waits on a server keeps what is listed there under its id.
ListedIsKept ==
    \A v \in Servers, i \in Ids :
        wsrelays[v][i] # None => id[wsrelays[v][i].peer1] = i

\* "If the relay web socket is closed, close both sides": lost when a user that
\* is joined is refused its rights.
BothAreClosed ==
    \A s \in Sockets : ws[s] = "open" /\ peer[s] # NoSock => ws[peer[s]] # "closed"

\* "We must initiate the connection to the peer": a connection that is taken off
\* the list for the peer's sake goes on through a tunnel.
HeldIsListedOrTunnelled ==
    \A s \in Sockets :
        ws[s] = "open" => s \in lookup \/ Listed(s) \/ Tunnelled(s)
=============================================================================
