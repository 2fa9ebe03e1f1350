---------------------------- MODULE PeerLinksInv ----------------------------
(***************************************************************************)
(* What every step on the connections between servers keeps, whatever is   *)
(* sent on them, and which steps there are: the lemmas about them begin    *)
(* the proofs about each of the modules that extend PeerLinks.             *)
(***************************************************************************)
EXTENDS PeerLinks

\* What is in a channel, whatever the messages are.
IsSeq(q) == \E M : q \in Seq(M)

\* A connection begins at both of its ends at once.
BegunAtBoth ==
    \A c \in Conns : end[c][c.lo] = "none" <=> end[c][c.hi] = "none"

\* Unless they may overlap, the connections of two servers follow each other.
Successive ==
    \A c, d \in Conns :
        /\ c.lo = d.lo /\ c.hi = d.hi /\ d.n < c.n /\ end[c][c.lo] # "none"
        => end[d][d.lo] = "closed" /\ end[d][d.hi] = "closed"

LinkInv ==
    /\ LinkTypeOK /\ BegunAtBoth /\ ListedIsSetup
    /\ ~Overlap => Successive /\ SetupIsListed

\* What a step does to peerServers and end.
Begins(c) ==
    /\ end[c][c.lo] = "none"
    /\ \A d \in Conns :
          d.lo = c.lo /\ d.hi = c.hi /\ d.n < c.n =>
             end[d][d.lo] = "closed" /\ (Overlap \/ end[d][d.hi] = "closed")
    /\ end' = [end EXCEPT ![c] = [s \in Servers |->
                  IF s \in Ends(c) THEN "open" ELSE "none"]]
    /\ UNCHANGED peerServers

IsSetUp(c, s) ==
    /\ end[c][s] \in Alive
    /\ end' = [end EXCEPT ![c][s] = "setup"]
    /\ peerServers' = [peerServers EXCEPT ![s][Peer(c, s)] = c]

IsClosed(c, s) ==
    /\ end[c][s] \in Alive
    /\ end' = [end EXCEPT ![c][s] = "closed"]
    /\ peerServers' = IF end[c][s] = "setup"
                      THEN [peerServers EXCEPT ![s][Peer(c, s)] = NoConn]
                      ELSE peerServers

LinkStep ==
    \/ \E c \in Conns : Begins(c)
    \/ \E c \in Conns : \E s \in Ends(c) : IsSetUp(c, s) \/ IsClosed(c, s)
    \/ \E s \in Servers : LinkRestart(s)
    \/ UNCHANGED <<peerServers, end>>
=============================================================================
