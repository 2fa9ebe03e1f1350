----------------------------- MODULE PeerLinks -----------------------------
(***************************************************************************)
(* The web sockets between peered MeshCentral servers (multiserver.js).    *)
(* A server opens a connection to every peer with a larger id and opens it *)
(* again when it breaks; the peer creates one object per connection it     *)
(* accepts.  Each end has its own record of the connection and notices its *)
(* end on its own.  peerServers[s][p] is the connection s uses to send to  *)
(* p.                                                                      *)
(*                                                                         *)
(* This module gives the connections, their handshake once the signatures  *)
(* are verified, and the channels; what is sent after the handshake is the *)
(* matter of the modules that extend it.                                   *)
(***************************************************************************)
EXTENDS Integers, Sequences, FiniteSets

CONSTANTS Servers,        \* ids of the servers, ordered as the code's strings
          MaxConns,       \* bound: connections opened between two servers
          Overlap         \* may a connection be opened while the other end
                          \* still holds the previous one?

ASSUME PeerAssumption ==
    /\ Servers \subseteq Nat
    /\ MaxConns \in Nat
    /\ Overlap \in BOOLEAN

VARIABLES peerServers,    \* server -> peer -> the connection in use, or NoConn
          end,            \* connection -> server -> state of its object there
          chan            \* connection -> server -> messages on their way to it

linkVars == <<peerServers, end, chan>>

\* The n-th connection opened by server `lo' to server `hi'.
Conns == {c \in [lo : Servers, hi : Servers, n : 1..MaxConns] : c.lo < c.hi}
NoConn == [lo |-> 0, hi |-> 0, n |-> 0]
Ends(c) == {c.lo, c.hi}
Peer(c, s) == IF s = c.lo THEN c.hi ELSE c.lo

\* "open": the signatures are verified; "setup": the peer's information was
\* accepted (authenticated == 3), the connection is in use.
EndStates == {"none", "open", "setup", "closed"}
Alive == {"open", "setup"}

LinkInit ==
    /\ peerServers = [s \in Servers |-> [p \in Servers |-> NoConn]]
    /\ end = [c \in Conns |-> [s \in Servers |-> "none"]]
    /\ chan = [c \in Conns |-> [s \in Servers |-> <<>>]]

LinkTypeOK ==
    /\ peerServers \in [Servers -> [Servers -> Conns \cup {NoConn}]]
    /\ end \in [Conns -> [Servers -> EndStates]]

-----------------------------------------------------------------------------
\* Channel ch with message m sent by s on connection c.  What is sent to an
\* end that is closed is lost.
SendOn(ch, c, s, m) ==
    IF end[c][Peer(c, s)] \in Alive
    THEN [ch EXCEPT ![c][Peer(c, s)] = Append(@, m)]
    ELSE ch

\* DispatchMessage: m goes to every server that is listed in peerServers.
Dispatch(s, m) ==
    LET used == {peerServers[s][p] : p \in Servers} \ {NoConn}
    IN  [c \in Conns |->
           IF c \in used /\ end[c][Peer(c, s)] \in Alive
           THEN [chan[c] EXCEPT ![Peer(c, s)] = Append(@, m)]
           ELSE chan[c]]

\* Server lo connects to hi; hi verifies its signature, confirms and sends
\* its server information.
Connect(c) ==
    /\ end[c][c.lo] = "none"
    /\ \A d \in Conns :
          d.lo = c.lo /\ d.hi = c.hi /\ d.n < c.n =>
             /\ end[d][d.lo] = "closed"
             /\ Overlap \/ end[d][d.hi] = "closed"
    /\ end' = [end EXCEPT ![c] = [s \in Servers |->
                  IF s \in Ends(c) THEN "open" ELSE "none"]]
    /\ chan' = [chan EXCEPT ![c][c.lo] =
                  <<[action |-> "confirm"], [action |-> "info"]>>]
    /\ UNCHANGED peerServers

\* The next message that server s reads from connection c.
Reads(c, s, action) ==
    /\ end[c][s] \in Alive
    /\ chan[c][s] # <<>>
    /\ Head(chan[c][s]).action = action

Taken(c, s) == [chan EXCEPT ![c][s] = Tail(@)]

\* The connecting server learns that it is verified and sends its information.
ReadConfirm(c, s) ==
    /\ Reads(c, s, "confirm")
    /\ chan' = SendOn(Taken(c, s), c, s, [action |-> "info"])
    /\ UNCHANGED <<peerServers, end>>

\* The peer's information is accepted once: SetupPeerServer puts the connection
\* in use, in the place of any other, and sends the server's tables on it.
ReadInfo(c, s, tables) ==
    /\ Reads(c, s, "info")
    /\ IF end[c][s] = "setup"
       THEN chan' = Taken(c, s) /\ UNCHANGED <<peerServers, end>>
       ELSE /\ end' = [end EXCEPT ![c][s] = "setup"]
            /\ peerServers' = [peerServers EXCEPT ![s][Peer(c, s)] = c]
            /\ chan' = SendOn(Taken(c, s), c, s, tables)

\* Server s takes any other message of connection c.
ReadData(c, s) ==
    /\ chan' = Taken(c, s)
    /\ UNCHANGED <<peerServers, end>>

\* Mutant of LinkClose: the peer stays on the list.
LinkCloseListed(c, s) ==
    /\ end[c][s] \in Alive
    /\ end' = [end EXCEPT ![c][s] = "closed"]
    /\ chan' = [chan EXCEPT ![c][s] = <<>>]
    /\ UNCHANGED peerServers

\* Server s notices that connection c ended; what was still on its way to s
\* is lost.  A connection that was set up takes its peer off the list of
\* connected servers, whichever connection is listed there.
LinkClose(c, s) ==
    /\ end[c][s] \in Alive
    /\ end' = [end EXCEPT ![c][s] = "closed"]
    /\ chan' = [chan EXCEPT ![c][s] = <<>>]
    /\ peerServers' = IF end[c][s] = "setup"
                      THEN [peerServers EXCEPT ![s][Peer(c, s)] = NoConn]
                      ELSE peerServers

\* Server s stops and starts again: every connection it had ends at once on its
\* side, the peers notice in their own time.
LinkRestart(s) ==
    /\ end' = [c \in Conns |->
                 IF end[c][s] \in Alive THEN [end[c] EXCEPT ![s] = "closed"]
                 ELSE end[c]]
    /\ chan' = [c \in Conns |-> [chan[c] EXCEPT ![s] = <<>>]]
    /\ peerServers' = [peerServers EXCEPT ![s] = [p \in Servers |-> NoConn]]

-----------------------------------------------------------------------------
\* A server in the list of connected servers has a connection that is set up:
\* "Only present in this list if the connection is setup".
ListedIsSetup ==
    \A s, p \in Servers :
        peerServers[s][p] # NoConn =>
            /\ s # p /\ Ends(peerServers[s][p]) = {s, p}
            /\ end[peerServers[s][p]][s] = "setup"

\* Every connection that is set up is the listed one: "All connected servers
\* (in & out)".
SetupIsListed ==
    \A c \in Conns : \A s \in Ends(c) :
        end[c][s] = "setup" => peerServers[s][Peer(c, s)] # NoConn

\* Both: what a server sends to its peers goes to those it is connected to, and
\* to each of them.
ListIsExact == ListedIsSetup /\ SetupIsListed
=============================================================================
