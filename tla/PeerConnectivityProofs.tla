----------------------- MODULE PeerConnectivityProofs -----------------------
(***************************************************************************)
(* Proofs about PeerConnectivity for any number of servers, connections,   *)
(* nodes and changes, as long as a connection is not opened while the      *)
(* other end still holds the previous one: the list of connected servers   *)
(* is exact, no table of a peer outlives the connection to it, what a      *)
(* server shows is the merger of its tables, although it merges again only *)
(* the nodes of the table or the change at hand, and when nothing is on    *)
(* its way the copy of a peer's table is the peer's table.                 *)
(***************************************************************************)
EXTENDS PeerConnectivity, PeerLinksInv, TLAPS

Seqs == INSTANCE SequenceTheorems

-----------------------------------------------------------------------------
(***************************************************************************)
(* The connections between the servers.                                    *)
(***************************************************************************)

\* Taking a message from a channel, and putting one into it.
LEMMA TailOfSeq ==
    ASSUME NEW q, IsSeq(q), q # <<>>
    PROVE  /\ IsSeq(Tail(q)) /\ Len(q) \in Nat \ {0} /\ Len(Tail(q)) = Len(q) - 1
           /\ Head(q) = q[1]
           /\ \A i \in 1..Len(Tail(q)) : Tail(q)[i] = q[i + 1]
<1>1. PICK M : q \in Seq(M)
  BY DEF IsSeq
<1>2. /\ Tail(q) \in Seq(M) /\ Len(Tail(q)) = Len(q) - 1
      /\ \A i \in 1..Len(Tail(q)) : Tail(q)[i] = q[i + 1]
  BY <1>1, Seqs!HeadTailProperties
<1>3. Len(q) \in Nat \ {0} /\ Head(q) = q[1]
  BY <1>1
<1> QED  BY <1>2, <1>3 DEF IsSeq

LEMMA AppendToSeq ==
    ASSUME NEW q, IsSeq(q), NEW m
    PROVE  /\ IsSeq(Append(q, m)) /\ Len(q) \in Nat /\ Len(Append(q, m)) = Len(q) + 1
           /\ \A i \in 1..Len(q) : Append(q, m)[i] = q[i]
           /\ Append(q, m)[Len(q) + 1] = m
<1>1. PICK M : q \in Seq(M)
  BY DEF IsSeq
<1>2. q \in Seq(M \cup {m}) /\ m \in M \cup {m}
  BY <1>1, Seqs!SeqMonotonic
<1>3. Append(q, m) \in Seq(M \cup {m})
  BY <1>2
<1> QED  BY <1>2, <1>3 DEF IsSeq

LEMMA EmptyIsSeq == IsSeq(<<>>) /\ Len(<<>>) = 0
  BY DEF IsSeq

-----------------------------------------------------------------------------
\* The two ends of a connection.
LEMMA ConnFacts ==
    /\ NoConn \notin Conns
    /\ \A c \in Conns :
          /\ c.lo \in Servers /\ c.hi \in Servers /\ c.lo # c.hi /\ c.n \in 1..MaxConns
          /\ c = [lo |-> c.lo, hi |-> c.hi, n |-> c.n] /\ c.lo < c.hi
          /\ \A s \in Ends(c) : /\ s \in Servers /\ Peer(c, s) \in Servers
                                /\ s # Peer(c, s) /\ Ends(c) = {s, Peer(c, s)}
<1>1. NoConn \notin Conns
  BY PeerAssumption DEF NoConn, Conns
<1>2. ASSUME NEW c \in Conns
      PROVE  /\ c.lo \in Servers /\ c.hi \in Servers /\ c.lo # c.hi /\ c.n \in 1..MaxConns
             /\ c = [lo |-> c.lo, hi |-> c.hi, n |-> c.n] /\ c.lo < c.hi
  <2>1. /\ c.lo \in Servers /\ c.hi \in Servers /\ c.n \in 1..MaxConns /\ c.lo < c.hi
        /\ c = [lo |-> c.lo, hi |-> c.hi, n |-> c.n]
    BY DEF Conns
  <2>2. c.lo # c.hi
    BY <2>1, PeerAssumption
  <2> QED  BY <2>1, <2>2
<1>3. ASSUME NEW c \in Conns, NEW s \in Ends(c)
      PROVE  /\ s \in Servers /\ Peer(c, s) \in Servers
             /\ s # Peer(c, s) /\ Ends(c) = {s, Peer(c, s)}
  BY <1>2 DEF Ends, Peer
<1> QED  BY <1>1, <1>2, <1>3

\* Two connections of the same two servers differ in their number.
LEMMA SameEnds ==
    ASSUME NEW c \in Conns, NEW d \in Conns, Ends(c) = Ends(d), c # d
    PROVE  c.lo = d.lo /\ c.hi = d.hi /\ (c.n < d.n \/ d.n < c.n)
<1>1. c.lo = d.lo /\ c.hi = d.hi
  BY ConnFacts, PeerAssumption DEF Ends
<1>2. c.n # d.n
  BY <1>1, ConnFacts
<1> QED  BY <1>1, <1>2, ConnFacts

\* While connections do not overlap, two servers have one that is not closed.
LEMMA OneAlive ==
    ASSUME LinkInv, ~Overlap, NEW c \in Conns, NEW d \in Conns,
           NEW s \in Ends(c), NEW r \in Ends(d),
           Ends(c) = Ends(d), end[c][s] \in Alive, end[d][r] \in Alive
    PROVE  c = d
<1> SUFFICES ASSUME c # d  PROVE FALSE
  OBVIOUS
<1>1. /\ c.lo = d.lo /\ c.hi = d.hi /\ (c.n < d.n \/ d.n < c.n)
      /\ s \in {c.lo, c.hi} /\ r \in {d.lo, d.hi}
  BY SameEnds DEF Ends
<1>2. end[c][c.lo] # "none" /\ end[d][d.lo] # "none"
  BY <1>1 DEF LinkInv, BegunAtBoth, Alive
<1>3. CASE c.n < d.n
  BY <1>1, <1>2, <1>3 DEF LinkInv, Successive, Alive
<1>4. CASE d.n < c.n
  BY <1>1, <1>2, <1>4 DEF LinkInv, Successive, Alive
<1> QED  BY <1>1, <1>3, <1>4

\* What is on the list of connected servers.
LEMMA ListedFacts ==
    ASSUME LinkInv, NEW s \in Servers, NEW p \in Servers, peerServers[s][p] # NoConn
    PROVE  /\ peerServers[s][p] \in Conns /\ s # p
           /\ Ends(peerServers[s][p]) = {s, p} /\ end[peerServers[s][p]][s] = "setup"
<1>1. peerServers[s][p] \in Conns
  BY DEF LinkInv, LinkTypeOK
<1>2. /\ s # p /\ Ends(peerServers[s][p]) = {s, p}
      /\ end[peerServers[s][p]][s] = "setup"
  BY DEF LinkInv, ListedIsSetup
<1> QED  BY <1>1, <1>2

\* At first no connection is begun and none listed.
LEMMA LinkInitInv == LinkInit => LinkInv
<1> SUFFICES ASSUME LinkInit  PROVE LinkInv
  OBVIOUS
<1>1. \A c \in Conns : \A s \in Servers : end[c][s] = "none"
  BY DEF LinkInit
<1>2. \A s, p \in Servers : peerServers[s][p] = NoConn
  BY DEF LinkInit
<1>3. LinkTypeOK
  BY DEF LinkInit, LinkTypeOK, EndStates
<1>4. BegunAtBoth /\ Successive /\ SetupIsListed
  BY <1>1, ConnFacts DEF BegunAtBoth, Successive, SetupIsListed
<1>5. ListedIsSetup
  BY <1>2 DEF ListedIsSetup
<1> QED  BY <1>3, <1>4, <1>5 DEF LinkInv

-----------------------------------------------------------------------------
\* A connection begins.
LEMMA BeginsStep ==
    ASSUME LinkInv, NEW c \in Conns, Begins(c)
    PROVE  LinkInv'
<1> USE ConnFacts
<1>1. /\ end[c][c.lo] = "none" /\ end[c][c.hi] = "none" /\ peerServers' = peerServers
      /\ \A d \in Conns : \A s \in Servers :
            end'[d][s] = IF d = c THEN (IF s \in Ends(c) THEN "open" ELSE "none")
                         ELSE end[d][s]
  BY DEF Begins, LinkInv, LinkTypeOK, BegunAtBoth
<1>2. LinkTypeOK'
  BY DEF Begins, LinkInv, LinkTypeOK, EndStates
<1>3. BegunAtBoth'
  BY <1>1 DEF LinkInv, BegunAtBoth, Ends
<1>4. ListedIsSetup'
  <2>1. \A s \in Ends(c) : end[c][s] # "setup"
    BY <1>1 DEF Ends
  <2> SUFFICES ASSUME NEW s \in Servers, NEW p \in Servers, peerServers[s][p] # NoConn
               PROVE  /\ s # p /\ Ends(peerServers[s][p]) = {s, p}
                      /\ end'[peerServers[s][p]][s] = "setup"
    BY <1>1 DEF ListedIsSetup
  <2>2. /\ peerServers[s][p] \in Conns /\ s # p
        /\ Ends(peerServers[s][p]) = {s, p} /\ end[peerServers[s][p]][s] = "setup"
    BY ListedFacts
  <2>3. peerServers[s][p] # c
    BY <2>1, <2>2
  <2> QED  BY <1>1, <2>2, <2>3
<1>5. ASSUME ~Overlap  PROVE Successive' /\ SetupIsListed'
  <2>1. SetupIsListed'
    BY <1>1, <1>5 DEF LinkInv, SetupIsListed
  <2>2. ASSUME NEW e \in Conns, NEW d \in Conns, e.lo = d.lo, e.hi = d.hi, d.n < e.n,
               end'[e][e.lo] # "none"
        PROVE  end'[d][d.lo] = "closed" /\ end'[d][d.hi] = "closed"
    <3>1. CASE e = c
      <4>1. d # c
        BY <2>2, <3>1
      <4>2. end[d][d.lo] = "closed" /\ end[d][d.hi] = "closed"
        BY <1>5, <2>2, <3>1 DEF Begins
      <4> QED  BY <1>1, <4>1, <4>2
    <3>2. CASE e # c
      <4>1. end[d][d.lo] = "closed" /\ end[d][d.hi] = "closed"
        BY <1>1, <1>5, <2>2, <3>2 DEF LinkInv, Successive
      <4>2. d # c
        BY <4>1, <1>1
      <4> QED  BY <1>1, <4>1, <4>2
    <3> QED  BY <3>1, <3>2
  <2> QED  BY <2>1, <2>2 DEF Successive
<1> QED  BY <1>2, <1>3, <1>4, <1>5 DEF LinkInv

\* A connection is set up at one end.
LEMMA SetUpStep ==
    ASSUME LinkInv, NEW c \in Conns, NEW s \in Ends(c), IsSetUp(c, s)
    PROVE  LinkInv'
<1> USE ConnFacts
<1>1. /\ end[c][s] \in Alive
      /\ \A d \in Conns : \A r \in Servers :
            end'[d][r] = IF d = c /\ r = s THEN "setup" ELSE end[d][r]
      /\ \A r, p \in Servers :
            peerServers'[r][p] = IF r = s /\ p = Peer(c, s) THEN c ELSE peerServers[r][p]
  BY DEF IsSetUp, LinkInv, LinkTypeOK
<1>2. LinkTypeOK'
  BY DEF IsSetUp, LinkInv, LinkTypeOK, EndStates
<1>3. BegunAtBoth'
  BY <1>1 DEF LinkInv, BegunAtBoth, Alive
<1>4. ListedIsSetup'
  <2> SUFFICES ASSUME NEW r \in Servers, NEW p \in Servers, peerServers'[r][p] # NoConn
               PROVE  /\ r # p /\ Ends(peerServers'[r][p]) = {r, p}
                      /\ end'[peerServers'[r][p]][r] = "setup"
    BY DEF ListedIsSetup
  <2>1. CASE r = s /\ p = Peer(c, s)
    BY <1>1, <2>1
  <2>2. CASE ~(r = s /\ p = Peer(c, s))
    <3>1. peerServers'[r][p] = peerServers[r][p]
      BY <1>1, <2>2
    <3>2. /\ peerServers[r][p] \in Conns /\ r # p
          /\ Ends(peerServers[r][p]) = {r, p} /\ end[peerServers[r][p]][r] = "setup"
      BY <3>1, ListedFacts
    <3> QED  BY <3>1, <3>2, <1>1
  <2> QED  BY <2>1, <2>2
<1>5. ASSUME ~Overlap  PROVE Successive' /\ SetupIsListed'
  <2>1. Successive'
    BY <1>1, <1>5 DEF LinkInv, Successive, Alive
  <2>2. SetupIsListed'
    BY <1>1, <1>5 DEF LinkInv, SetupIsListed
  <2> QED  BY <2>1, <2>2
<1> QED  BY <1>2, <1>3, <1>4, <1>5 DEF LinkInv

\* A connection ends at one end.  Unless connections overlap, no other of the
\* two servers is set up, so that none is left without its place on the list.
LEMMA ClosedStep ==
    ASSUME LinkInv, NEW c \in Conns, NEW s \in Ends(c), IsClosed(c, s)
    PROVE  LinkInv'
<1> USE ConnFacts
<1>1. /\ end[c][s] \in Alive
      /\ \A d \in Conns : \A r \in Servers :
            end'[d][r] = IF d = c /\ r = s THEN "closed" ELSE end[d][r]
      /\ \A r, p \in Servers :
            peerServers'[r][p] = IF end[c][s] = "setup" /\ r = s /\ p = Peer(c, s)
                                 THEN NoConn ELSE peerServers[r][p]
  BY DEF IsClosed, LinkInv, LinkTypeOK
<1>2. LinkTypeOK'
  BY DEF IsClosed, LinkInv, LinkTypeOK, EndStates
<1>3. BegunAtBoth'
  BY <1>1 DEF LinkInv, BegunAtBoth, Alive
<1>4. ListedIsSetup'
  <2> SUFFICES ASSUME NEW r \in Servers, NEW p \in Servers, peerServers'[r][p] # NoConn
               PROVE  /\ r # p /\ Ends(peerServers'[r][p]) = {r, p}
                      /\ end'[peerServers'[r][p]][r] = "setup"
    BY DEF ListedIsSetup
  <2> DEFINE d == peerServers[r][p]
  <2>3. peerServers'[r][p] = d /\ ~(end[c][s] = "setup" /\ r = s /\ p = Peer(c, s))
    BY <1>1
  <2>1. /\ peerServers'[r][p] = d /\ d \in Conns
        /\ ~(end[c][s] = "setup" /\ r = s /\ p = Peer(c, s))
        /\ r # p /\ Ends(d) = {r, p} /\ end[d][r] = "setup"
    BY <2>3, ListedFacts
  <2> HIDE DEF d
  <2>2. ~(d = c /\ r = s)
    BY <2>1
  <2> QED  BY <1>1, <2>1, <2>2
<1>5. ASSUME ~Overlap  PROVE Successive' /\ SetupIsListed'
  <2>1. Successive'
    BY <1>1, <1>5 DEF LinkInv, Successive, Alive
  <2>2. ASSUME NEW d \in Conns, NEW r \in Ends(d), end'[d][r] = "setup"
        PROVE  peerServers'[r][Peer(d, r)] # NoConn
    <3>1. end[d][r] = "setup" /\ ~(d = c /\ r = s)
      BY <1>1, <2>2
    <3>2. peerServers[r][Peer(d, r)] # NoConn
      BY <1>5, <3>1 DEF LinkInv, SetupIsListed
    <3>3. ASSUME end[c][s] = "setup", r = s, Peer(d, r) = Peer(c, s)  PROVE FALSE
      <4>1. Ends(c) = Ends(d)
        <5>1. Ends(c) = {s, Peer(c, s)}
          BY ConnFacts
        <5>2. Ends(d) = {r, Peer(d, r)}
          BY ConnFacts
        <5> QED  BY <5>1, <5>2, <3>3
      <4> QED  BY <4>1, <3>1, <3>3, <1>1, <1>5, OneAlive DEF Alive
    <3> QED  BY <3>2, <3>3, <1>1
  <2> QED  BY <2>1, <2>2 DEF SetupIsListed
<1> QED  BY <1>2, <1>3, <1>4, <1>5 DEF LinkInv

\* A server starts again.
LEMMA RestartStep ==
    ASSUME LinkInv, NEW s \in Servers, LinkRestart(s)
    PROVE  LinkInv'
<1> USE ConnFacts
<1>1. /\ \A d \in Conns : \A r \in Servers :
            end'[d][r] = IF end[d][s] \in Alive /\ r = s THEN "closed" ELSE end[d][r]
      /\ \A r, p \in Servers :
            peerServers'[r][p] = IF r = s THEN NoConn ELSE peerServers[r][p]
  BY DEF LinkRestart, LinkInv, LinkTypeOK
<1>2. LinkTypeOK'
  BY DEF LinkRestart, LinkInv, LinkTypeOK, EndStates
<1>3. BegunAtBoth'
  BY <1>1 DEF LinkInv, BegunAtBoth, Alive
<1>4. ListedIsSetup'
  <2> SUFFICES ASSUME NEW r \in Servers, NEW p \in Servers, peerServers'[r][p] # NoConn
               PROVE  /\ r # p /\ Ends(peerServers'[r][p]) = {r, p}
                      /\ end'[peerServers'[r][p]][r] = "setup"
    BY DEF ListedIsSetup
  <2>1. r # s /\ peerServers'[r][p] = peerServers[r][p]
    BY <1>1
  <2>2. /\ peerServers[r][p] \in Conns /\ r # p
        /\ Ends(peerServers[r][p]) = {r, p} /\ end[peerServers[r][p]][r] = "setup"
    BY <2>1, ListedFacts
  <2> QED  BY <1>1, <2>1, <2>2
<1>5. ASSUME ~Overlap  PROVE Successive' /\ SetupIsListed'
  <2>1. Successive'
    BY <1>1, <1>5 DEF LinkInv, Successive, Alive
  <2>2. SetupIsListed'
    BY <1>1, <1>5 DEF LinkInv, SetupIsListed, Alive
  <2> QED  BY <2>1, <2>2
<1> QED  BY <1>2, <1>3, <1>4, <1>5 DEF LinkInv

\* Every step keeps the invariant of the connections.
LEMMA LinkStepInv ==
    ASSUME LinkInv, LinkStep
    PROVE  LinkInv'
<1>1. CASE UNCHANGED <<peerServers, end>>
  <2>1. peerServers' = peerServers /\ end' = end
    BY <1>1
  <2>2. LinkTypeOK' /\ BegunAtBoth' /\ ListedIsSetup'
    BY <2>1 DEF LinkInv, LinkTypeOK, BegunAtBoth, ListedIsSetup
  <2>3. ASSUME ~Overlap  PROVE Successive' /\ SetupIsListed'
    BY <2>1, <2>3 DEF LinkInv, Successive, SetupIsListed
  <2> QED  BY <2>2, <2>3 DEF LinkInv
<1>2. ASSUME NEW c \in Conns, Begins(c)  PROVE LinkInv'
  BY <1>2, BeginsStep
<1>3. ASSUME NEW c \in Conns, NEW s \in Ends(c), IsSetUp(c, s)  PROVE LinkInv'
  BY <1>3, SetUpStep
<1>4. ASSUME NEW c \in Conns, NEW s \in Ends(c), IsClosed(c, s)  PROVE LinkInv'
  BY <1>4, ClosedStep
<1>5. ASSUME NEW s \in Servers, LinkRestart(s)  PROVE LinkInv'
  BY <1>5, RestartStep
<1> QED  BY <1>1, <1>2, <1>3, <1>4, <1>5 DEF LinkStep

-----------------------------------------------------------------------------
\* The actions of the messages that change the receiver's table of the sender.
Data == {"table", "set", "clear"}

\* Channel q to a server whose table of the sender is tb, the sender's end being
\* in state e: nothing is sent before the connection is set up, then the table,
\* which comes when the receiver has none, then the changes.
TableFirst(q, e, tb) ==
    /\ e \in {"none", "open"} =>
          tb = NoTable /\ \A i \in 1..Len(q) : q[i].action \notin Data
    /\ \A i \in 1..Len(q) : q[i].action = "table" =>
          tb = NoTable /\ \A j \in 1..Len(q) : q[j].action \in Data => i <= j

\* The domains of the variables.
Shapes ==
    /\ DOMAIN tables = Servers /\ \A s \in Servers : DOMAIN tables[s] = Servers
    /\ DOMAIN view = Servers
    /\ DOMAIN chan = Conns /\ \A c \in Conns : DOMAIN chan[c] = Servers

ChanInv ==
    \A c \in Conns : \A s \in Ends(c) :
        /\ IsSeq(chan[c][s])
        /\ end[c][s] \notin Alive => chan[c][s] = <<>>
        /\ end[c][s] \in Alive =>
              TableFirst(chan[c][s], end[c][Peer(c, s)], tables[s][Peer(c, s)])

IInv == LinkInv /\ Shapes /\ ChanInv /\ NoTableWithoutPeer /\ ViewIsMerged

-----------------------------------------------------------------------------
\* Taking a message that is no table leaves the order; taking one that is a table
\* or a change leaves it whatever becomes of the table.
LEMMA TakeAny ==
    ASSUME NEW q, IsSeq(q), q # <<>>, NEW e, NEW tb, TableFirst(q, e, tb)
    PROVE  TableFirst(Tail(q), e, tb)
<1>1. /\ Len(q) \in Nat \ {0} /\ Len(Tail(q)) = Len(q) - 1
      /\ \A i \in 1..Len(Tail(q)) : Tail(q)[i] = q[i + 1] /\ i + 1 \in 1..Len(q)
  BY TailOfSeq
<1>2. ASSUME e \in {"none", "open"}, NEW i \in 1..Len(Tail(q))
      PROVE  tb = NoTable /\ Tail(q)[i].action \notin Data
  BY <1>1, <1>2 DEF TableFirst
<1>3. ASSUME e \in {"none", "open"}  PROVE tb = NoTable
  BY <1>3 DEF TableFirst
<1>4. ASSUME NEW i \in 1..Len(Tail(q)), Tail(q)[i].action = "table",
             NEW j \in 1..Len(Tail(q)), Tail(q)[j].action \in Data
      PROVE  tb = NoTable /\ i <= j
  <2>1. tb = NoTable /\ i + 1 <= j + 1
    BY <1>1, <1>4 DEF TableFirst
  <2> QED  BY <2>1
<1>5. ASSUME NEW i \in 1..Len(Tail(q)), Tail(q)[i].action = "table"
      PROVE  tb = NoTable
  BY <1>1, <1>5 DEF TableFirst
<1> QED  BY <1>2, <1>3, <1>4, <1>5 DEF TableFirst

LEMMA TakeData ==
    ASSUME NEW q, IsSeq(q), q # <<>>, NEW e, NEW tb, TableFirst(q, e, tb),
           Head(q).action \in Data
    PROVE  \A other : TableFirst(Tail(q), e, other)
<1>1. /\ Len(q) \in Nat \ {0} /\ Len(Tail(q)) = Len(q) - 1 /\ Head(q) = q[1]
      /\ \A i \in 1..Len(Tail(q)) : Tail(q)[i] = q[i + 1] /\ i + 1 \in 1..Len(q)
  BY TailOfSeq
<1>2. 1 \in 1..Len(q) /\ q[1].action \in Data
  BY <1>1
<1>3. e \notin {"none", "open"}
  BY <1>2 DEF TableFirst
<1>4. ASSUME NEW i \in 1..Len(Tail(q)), Tail(q)[i].action = "table"  PROVE FALSE
  <2>1. i + 1 <= 1
    BY <1>1, <1>2, <1>4 DEF TableFirst
  <2> QED  BY <2>1
<1> QED  BY <1>3, <1>4 DEF TableFirst

\* Adding a message.
LEMMA AddOther ==
    ASSUME NEW q, IsSeq(q), NEW e, NEW tb, TableFirst(q, e, tb),
           NEW m, \/ m.action \notin Data
                  \/ m.action # "table" /\ e \notin {"none", "open"}
    PROVE  TableFirst(Append(q, m), e, tb)
<1> DEFINE a == Append(q, m)
<1>1. /\ Len(q) \in Nat /\ Len(a) = Len(q) + 1 /\ a[Len(q) + 1] = m
      /\ \A i \in 1..Len(q) : a[i] = q[i]
  BY AppendToSeq
<1> HIDE DEF a
<1>2. m.action # "table"
  BY DEF Data
<1>3. ASSUME e \in {"none", "open"}
      PROVE  tb = NoTable /\ \A i \in 1..Len(a) : a[i].action \notin Data
  <2>1. tb = NoTable /\ \A i \in 1..Len(q) : q[i].action \notin Data
    BY <1>3 DEF TableFirst
  <2> QED  BY <1>1, <1>3, <2>1
<1>4. ASSUME NEW i \in 1..Len(a), a[i].action = "table"
      PROVE  tb = NoTable /\ \A j \in 1..Len(a) : a[j].action \in Data => i <= j
  <2>1. i \in 1..Len(q) /\ q[i].action = "table"
    BY <1>1, <1>2, <1>4
  <2>2. tb = NoTable /\ \A j \in 1..Len(q) : q[j].action \in Data => i <= j
    BY <2>1 DEF TableFirst
  <2> QED  BY <1>1, <2>1, <2>2
<1>5. TableFirst(a, e, tb)
  BY <1>3, <1>4 DEF TableFirst
<1> QED  BY <1>5 DEF a

LEMMA AddTable ==
    ASSUME NEW q, IsSeq(q), NEW tb, TableFirst(q, "open", tb), NEW m
    PROVE  TableFirst(Append(q, m), "setup", tb)
<1> DEFINE a == Append(q, m)
<1>1. /\ Len(q) \in Nat /\ Len(a) = Len(q) + 1 /\ a[Len(q) + 1] = m
      /\ \A i \in 1..Len(q) : a[i] = q[i]
  BY AppendToSeq
<1> HIDE DEF a
<1>2. tb = NoTable /\ \A i \in 1..Len(q) : q[i].action \notin Data
  BY DEF TableFirst
<1>3. \A i \in 1..Len(a) : a[i].action \in Data => i = Len(a)
  BY <1>1, <1>2
<1>4. \A i, j \in 1..Len(a) : a[i].action = "table" /\ a[j].action \in Data => i <= j
  BY <1>1, <1>3 DEF Data
<1>5. TableFirst(a, "setup", tb)
  BY <1>2, <1>4 DEF TableFirst
<1> QED  BY <1>5 DEF a

LEMMA Weaker ==
    ASSUME NEW q, NEW e, NEW tb, TableFirst(q, e, tb)
    PROVE  /\ TableFirst(q, e, NoTable)
           /\ \A f \in {"setup", "closed"} : TableFirst(q, f, tb) /\ TableFirst(q, f, NoTable)
  BY DEF TableFirst

-----------------------------------------------------------------------------
\* What is shown of a node does not change while the entries the tables have of
\* it show the same.
LEMMA ViewKept ==
    ASSUME NEW old, NEW new, NEW n, DOMAIN old = DOMAIN new,
           \A s \in DOMAIN old :
              /\ n \in DOMAIN new[s] <=> n \in DOMAIN old[s]
              /\ n \in DOMAIN old[s] => /\ new[s][n].conn = old[s][n].conn
                                        /\ new[s][n].powerState = old[s][n].powerState
    PROVE  View(new, n) = View(old, n)
<1> DEFINE known(t) == {s \in DOMAIN t : n \in DOMAIN t[s]}
           conns(t) == {t[s][n].conn : s \in known(t)}
           powers(t) == {t[s][n].powerState : s \in known(t)}
           shows(c, p) == [conn |-> UNION c,
                           powerState |-> IF p \ {0} = {} THEN 0 ELSE Min(p \ {0})]
<1>1. known(new) = known(old)
  OBVIOUS
<1>2. conns(new) = conns(old) /\ powers(new) = powers(old)
  BY <1>1
<1>3. View(new, n) = shows(conns(new), powers(new))
      /\ View(old, n) = shows(conns(old), powers(old))
  BY Zenon DEF View
<1> HIDE DEF conns, powers, shows
<1> QED  BY <1>2, <1>3

\* A server that knows nothing shows nothing.
LEMMA ViewOfNothing ==
    ASSUME NEW tbs, \A p \in DOMAIN tbs : tbs[p] = NoTable
    PROVE  \A n : View(tbs, n) = NoView
<1>1. \A n, p : p \in DOMAIN tbs => n \notin DOMAIN tbs[p]
  BY DEF NoTable
<1>2. \A n : {p \in DOMAIN tbs : n \in DOMAIN tbs[p]} = {}
  BY <1>1
<1> QED  BY <1>2 DEF View, NoView

\* Update merges what it must, if it is given every node of which the new table
\* shows something else.
LEMMA UpdateMerges ==
    ASSUME Shapes, ViewIsMerged, NEW s \in Servers, NEW p \in Servers, NEW tb, NEW nodes,
           Update(s, p, tb, nodes),
           \A n \in Nodes \ nodes :
              /\ n \in DOMAIN tb <=> n \in DOMAIN tables[s][p]
              /\ n \in DOMAIN tb => /\ tb[n].conn = tables[s][p][n].conn
                                    /\ tb[n].powerState = tables[s][p][n].powerState
    PROVE  /\ ViewIsMerged' /\ DOMAIN view' = Servers
           /\ DOMAIN tables' = Servers /\ \A r \in Servers : DOMAIN tables'[r] = Servers
           /\ \A r, o \in Servers :
                 tables'[r][o] = IF r = s /\ o = p THEN tb ELSE tables[r][o]
<1> DEFINE new == [tables[s] EXCEPT ![p] = tb]
<1>1. /\ tables' = [tables EXCEPT ![s] = new]
      /\ view' = [view EXCEPT ![s] = [n \in Nodes |->
                    IF n \in nodes THEN View(new, n) ELSE view[s][n]]]
  BY DEF Update
<1>2. /\ DOMAIN new = Servers
      /\ \A o \in Servers : new[o] = IF o = p THEN tb ELSE tables[s][o]
  BY DEF Shapes
<1> HIDE DEF new
<1>3. /\ DOMAIN tables' = Servers /\ DOMAIN view' = Servers
      /\ \A r \in Servers : tables'[r] = IF r = s THEN new ELSE tables[r]
      /\ \A r \in Servers : view'[r] = IF r = s
            THEN [n \in Nodes |-> IF n \in nodes THEN View(new, n) ELSE view[s][n]]
            ELSE view[r]
  BY <1>1 DEF Shapes
<1>4. \A r \in Servers : DOMAIN tables'[r] = Servers
  BY <1>2, <1>3 DEF Shapes
<1>5. \A r, o \in Servers : tables'[r][o] = IF r = s /\ o = p THEN tb ELSE tables[r][o]
  BY <1>2, <1>3
<1>6. ASSUME NEW n \in Nodes \ nodes  PROVE View(new, n) = View(tables[s], n)
  <2>1. DOMAIN tables[s] = DOMAIN new
    BY <1>2 DEF Shapes
  <2>2. \A o \in DOMAIN tables[s] :
           /\ n \in DOMAIN new[o] <=> n \in DOMAIN tables[s][o]
           /\ n \in DOMAIN tables[s][o] => /\ new[o][n].conn = tables[s][o][n].conn
                                           /\ new[o][n].powerState = tables[s][o][n].powerState
    BY <1>2, <1>6, <2>1
  <2> QED  BY <2>1, <2>2, ViewKept
<1>7. ASSUME NEW r \in Servers, NEW n \in Nodes
      PROVE  view'[r][n] = View(tables'[r], n)
  <2>1. view[r][n] = View(tables[r], n)
    BY DEF ViewIsMerged
  <2>2. CASE r = s /\ n \in nodes
    BY <2>2, <1>3
  <2>3. CASE r = s /\ n \notin nodes
    BY <2>1, <2>3, <1>3, <1>6
  <2>4. CASE r # s
    BY <2>1, <2>4, <1>3
  <2> QED  BY <2>2, <2>3, <2>4
<1> QED  BY <1>3, <1>4, <1>5, <1>7 DEF ViewIsMerged

\* The three ways in which a table changes.  What they have in common:
Merged(s, p) ==
    /\ ViewIsMerged' /\ DOMAIN view' = Servers
    /\ DOMAIN tables' = Servers /\ \A r \in Servers : DOMAIN tables'[r] = Servers
    /\ \A r, o \in Servers : ~(r = s /\ o = p) => tables'[r][o] = tables[r][o]

LEMMA SetMerges ==
    ASSUME Shapes, ViewIsMerged, NEW s \in Servers, NEW p \in Servers,
           NEW n, NEW t, NEW pw, SetState(s, p, n, t, pw)
    PROVE  Merged(s, p)
<1> DEFINE tb == tables[s][p]
           old == Lookup(tb, n)
           new == SetConn(old, t, pw)
           changed == t \notin old.conn \/ new.powerState # old.powerState
           nodes == IF changed THEN {n} ELSE {}
           put == Put(tb, n, new)
<1>1. Update(s, p, put, nodes)
  BY DEF SetState
<1>2. /\ DOMAIN put = DOMAIN tb \cup {n}
      /\ \A m \in DOMAIN put : put[m] = IF m = n THEN new ELSE tb[m]
  BY DEF Put
<1>3. new.conn = old.conn \cup {t}
  BY DEF SetConn
<1>4. n \in DOMAIN tb => old = tb[n]
  BY DEF Lookup
<1>5. n \notin DOMAIN tb => old.conn = {}
  BY DEF Lookup, NewEntry
<1> HIDE DEF new, old, put
<1>6. ~changed => n \in DOMAIN tb /\ new.conn = old.conn /\ new.powerState = old.powerState
  BY <1>3, <1>5
<1>7. \A m \in Nodes \ nodes :
         /\ m \in DOMAIN put <=> m \in DOMAIN tb
         /\ m \in DOMAIN put => /\ put[m].conn = tb[m].conn
                                /\ put[m].powerState = tb[m].powerState
  BY <1>2, <1>4, <1>6
<1> HIDE DEF nodes
<1> QED  BY <1>1, <1>7, UpdateMerges DEF Merged

LEMMA ClearMerges ==
    ASSUME Shapes, ViewIsMerged, NEW s \in Servers, NEW p \in Servers,
           NEW n, NEW t, ClearState(s, p, n, t)
    PROVE  Merged(s, p)
<1> DEFINE tb == tables[s][p]
           new == ClearConn(tb[n], t)
           left == IF new.conn = {} THEN Drop(tb, n) ELSE Put(tb, n, new)
<1>1. CASE n \notin DOMAIN tb
  <2>1. tables' = tables /\ view' = view
    BY <1>1 DEF ClearState
  <2> QED  BY <2>1 DEF Merged, Shapes, ViewIsMerged
<1>2. CASE n \in DOMAIN tb
  <2>1. Update(s, p, left, {n})
    BY <1>2 DEF ClearState
  <2>2. \A m \in Nodes \ {n} :
           /\ m \in DOMAIN left <=> m \in DOMAIN tb
           /\ m \in DOMAIN left => left[m] = tb[m]
    BY DEF Drop, Put
  <2> HIDE DEF left
  <2> QED  BY <2>1, <2>2, UpdateMerges DEF Merged
<1> QED  BY <1>1, <1>2

\* What becomes of the table in each of them.
Cleared(tb, n, t) ==
    IF n \in DOMAIN tb
    THEN LET new == ClearConn(tb[n], t)
         IN  IF new.conn = {} THEN Drop(tb, n) ELSE Put(tb, n, new)
    ELSE tb

LEMMA SetTable ==
    ASSUME Shapes, NEW s \in Servers, NEW p \in Servers,
           NEW n, NEW t, NEW pw, SetState(s, p, n, t, pw)
    PROVE  tables'[s][p] = Put(tables[s][p], n, SetConn(Lookup(tables[s][p], n), t, pw))
<1> DEFINE put == Put(tables[s][p], n, SetConn(Lookup(tables[s][p], n), t, pw))
<1>1. \E nodes : Update(s, p, put, nodes)
  BY DEF SetState
<1> HIDE DEF put
<1>2. tables'[s][p] = put
  BY <1>1 DEF Update, Shapes
<1> QED  BY <1>2 DEF put

LEMMA ClearTable ==
    ASSUME Shapes, NEW s \in Servers, NEW p \in Servers,
           NEW n, NEW t, ClearState(s, p, n, t)
    PROVE  tables'[s][p] = Cleared(tables[s][p], n, t)
<1> DEFINE tb == tables[s][p]
           new == ClearConn(tb[n], t)
           left == IF new.conn = {} THEN Drop(tb, n) ELSE Put(tb, n, new)
<1>1. CASE n \notin DOMAIN tb
  BY <1>1 DEF ClearState, Cleared
<1>2. CASE n \in DOMAIN tb
  <2>1. Update(s, p, left, {n})
    BY <1>2 DEF ClearState
  <2>2. left = Cleared(tb, n, t)
    BY <1>2 DEF Cleared
  <2> HIDE DEF left
  <2>3. tables'[s][p] = left
    BY <2>1 DEF Update, Shapes
  <2> QED  BY <2>2, <2>3
<1> QED  BY <1>1, <1>2

-----------------------------------------------------------------------------
\* One connection at most is alive at a server that leads to the same peer.
LEMMA NoOther ==
    ASSUME IInv, ~Overlap, NEW c \in Conns, NEW s \in Ends(c), end[c][s] \in Alive,
           NEW d \in Conns, NEW r \in Ends(d), end[d][r] \in Alive,
           r = s, Peer(d, r) = Peer(c, s)
    PROVE  d = c
<1>1. Ends(c) = Ends(d)
  <2>1. Ends(c) = {s, Peer(c, s)}
    BY ConnFacts
  <2>2. Ends(d) = {r, Peer(d, r)}
    BY ConnFacts
  <2> QED  BY <2>1, <2>2
<1> QED  BY <1>1, OneAlive DEF IInv

\* A channel from which a message is taken.
LEMMA TakenFacts ==
    ASSUME IInv, NEW c \in Conns, NEW s \in Ends(c), NEW a, Reads(c, s, a)
    PROVE  /\ chan[c][s] # <<>> /\ IsSeq(chan[c][s]) /\ Head(chan[c][s]).action = a
           /\ DOMAIN Taken(c, s) = Conns /\ \A d \in Conns : DOMAIN Taken(c, s)[d] = Servers
           /\ \A d \in Conns : \A r \in Servers :
                 Taken(c, s)[d][r] = IF d = c /\ r = s THEN Tail(chan[c][s]) ELSE chan[d][r]
           /\ TableFirst(chan[c][s], end[c][Peer(c, s)], tables[s][Peer(c, s)])
           /\ end[c][s] \in Alive
<1>1. s \in Servers
  BY ConnFacts
<1> QED  BY <1>1 DEF IInv, ChanInv, Shapes, Taken, Reads

\* The table comes when the receiver has none of the sender.
LEMMA TableMerges ==
    ASSUME IInv, NEW c \in Conns, NEW s \in Ends(c), ReadTable(c, s)
    PROVE  Merged(s, Peer(c, s))
<1> USE ConnFacts
<1> DEFINE p == Peer(c, s)
           tb == Head(chan[c][s]).table
<1>1. Reads(c, s, "table")
  BY DEF ReadTable
<1>2. CASE end[c][s] = "setup"
  <2>1. Update(s, p, tb, DOMAIN tb)
    BY <1>2 DEF ReadTable
  <2>2. tables[s][p] = NoTable
    <3>1. /\ TableFirst(chan[c][s], end[c][p], tables[s][p])
          /\ IsSeq(chan[c][s]) /\ chan[c][s] # <<>> /\ Head(chan[c][s]).action = "table"
      BY <1>1, TakenFacts
    <3>2. 1 \in 1..Len(chan[c][s]) /\ chan[c][s][1].action = "table"
      BY <3>1, TailOfSeq
    <3> QED  BY <3>1, <3>2 DEF TableFirst
  <2>3. \A n \in Nodes \ DOMAIN tb : n \notin DOMAIN tb /\ n \notin DOMAIN tables[s][p]
    BY <2>2 DEF NoTable
  <2> HIDE DEF tb
  <2> QED  BY <2>1, <2>3, UpdateMerges DEF Merged, IInv
<1>3. CASE end[c][s] # "setup"
  <2>1. tables' = tables /\ view' = view
    BY <1>3 DEF ReadTable
  <2> QED  BY <2>1 DEF Merged, IInv, Shapes, ViewIsMerged
<1> QED  BY <1>2, <1>3

\* Reading a table or a change: the receiver's table may become anything.
LEMMA DataRead ==
    ASSUME IInv, ~Overlap, NEW c \in Conns, NEW s \in Ends(c), NEW a \in Data,
           Reads(c, s, a), ReadData(c, s), Merged(s, Peer(c, s)),
           end[c][s] # "setup" => tables' = tables
    PROVE  IInv'
<1> USE ConnFacts
<1> DEFINE p == Peer(c, s)
<1>1. /\ chan[c][s] # <<>> /\ IsSeq(chan[c][s]) /\ Head(chan[c][s]).action \in Data
      /\ DOMAIN chan' = Conns /\ \A d \in Conns : DOMAIN chan'[d] = Servers
      /\ \A d \in Conns : \A r \in Servers :
            chan'[d][r] = IF d = c /\ r = s THEN Tail(chan[c][s]) ELSE chan[d][r]
      /\ TableFirst(chan[c][s], end[c][p], tables[s][p]) /\ end[c][s] \in Alive
      /\ end' = end /\ peerServers' = peerServers
  BY TakenFacts DEF ReadData
<1>2. /\ IsSeq(Tail(chan[c][s]))
      /\ \A other : TableFirst(Tail(chan[c][s]), end[c][p], other)
  BY <1>1, TailOfSeq, TakeData
<1>3. LinkInv'
  BY <1>1, LinkStepInv DEF IInv, LinkStep
<1>4. Shapes' /\ ViewIsMerged'
  BY <1>1 DEF Merged, Shapes
<1>5. NoTableWithoutPeer'
  <2> SUFFICES ASSUME NEW r \in Servers, NEW o \in Servers, r # o, peerServers[r][o] = NoConn
               PROVE  tables'[r][o] = NoTable
    BY <1>1 DEF NoTableWithoutPeer
  <2>1. tables[r][o] = NoTable
    BY DEF IInv, NoTableWithoutPeer
  <2>2. CASE r = s /\ o = p /\ end[c][s] = "setup"
    BY <2>2 DEF IInv, LinkInv, SetupIsListed
  <2>3. CASE ~(r = s /\ o = p /\ end[c][s] = "setup")
    BY <2>1, <2>3 DEF Merged
  <2> QED  BY <2>2, <2>3
<1>6. ChanInv'
  <2> SUFFICES ASSUME NEW d \in Conns, NEW r \in Ends(d)
               PROVE  /\ IsSeq(chan'[d][r])
                      /\ end[d][r] \notin Alive => chan'[d][r] = <<>>
                      /\ end[d][r] \in Alive =>
                            TableFirst(chan'[d][r], end[d][Peer(d, r)], tables'[r][Peer(d, r)])
    BY <1>1 DEF ChanInv
  <2>1. CASE d = c /\ r = s
    BY <2>1, <1>1, <1>2
  <2>2. CASE ~(d = c /\ r = s)
    <3>1. chan'[d][r] = chan[d][r]
      BY <2>2, <1>1
    <3>2. ASSUME end[d][r] \in Alive  PROVE tables'[r][Peer(d, r)] = tables[r][Peer(d, r)]
      <4>1. ~(r = s /\ Peer(d, r) = p)
        BY <2>2, <3>2, <1>1, NoOther
      <4> QED  BY <4>1 DEF Merged
    <3> QED  BY <3>1, <3>2 DEF IInv, ChanInv
  <2> QED  BY <2>1, <2>2
<1> QED  BY <1>3, <1>4, <1>5, <1>6 DEF IInv

\* A change of the server's own table, which is sent to the peers on the list.
LEMMA LocalChange ==
    ASSUME IInv, ~Overlap, NEW s \in Servers, NEW m, m.action \in {"set", "clear"},
           chan' = Dispatch(s, m), Merged(s, s), UNCHANGED <<peerServers, end>>
    PROVE  IInv'
<1> USE ConnFacts
<1>1. LinkInv'
  BY LinkStepInv DEF IInv, LinkStep
<1>2. /\ DOMAIN chan' = Conns
      /\ \A d \in Conns : \/ chan'[d] = chan[d]
                          \/ /\ \E p \in Servers : peerServers[s][p] = d
                             /\ end[d][Peer(d, s)] \in Alive
                             /\ chan'[d] = [chan[d] EXCEPT ![Peer(d, s)] = Append(@, m)]
  BY DEF Dispatch
<1>3. Shapes' /\ ViewIsMerged'
  BY <1>2 DEF Merged, Shapes, IInv
<1>4. NoTableWithoutPeer'
  BY DEF Merged, NoTableWithoutPeer, IInv
<1>5. ChanInv'
  <2> SUFFICES ASSUME NEW d \in Conns, NEW r \in Ends(d)
               PROVE  /\ IsSeq(chan'[d][r])
                      /\ end[d][r] \notin Alive => chan'[d][r] = <<>>
                      /\ end[d][r] \in Alive =>
                            TableFirst(chan'[d][r], end[d][Peer(d, r)], tables'[r][Peer(d, r)])
    BY DEF ChanInv
  <2> DEFINE q == chan[d][r]
             e == end[d][Peer(d, r)]
             tb == tables[r][Peer(d, r)]
  <2>1. /\ IsSeq(q)
        /\ end[d][r] \notin Alive => q = <<>>
        /\ end[d][r] \in Alive => TableFirst(q, e, tb)
    BY DEF IInv, ChanInv
  <2>2. tables'[r][Peer(d, r)] = tb
    BY DEF Merged
  <2>3. CASE chan'[d][r] = q
    BY <2>1, <2>2, <2>3
  <2>4. CASE chan'[d][r] # q
    <3>1. PICK p \in Servers : peerServers[s][p] = d
      BY <1>2, <2>4
    <3>2. s # p /\ Ends(d) = {s, p} /\ end[d][s] = "setup"
      BY <3>1, ListedFacts DEF IInv
    <3>3. /\ end[d][Peer(d, s)] \in Alive
          /\ chan'[d] = [chan[d] EXCEPT ![Peer(d, s)] = Append(@, m)]
      BY <1>2, <2>4
    <3>4. r = Peer(d, s) /\ Peer(d, r) = s
      BY <3>2, <3>3, <2>4
    <3>5. chan'[d][r] = Append(q, m) /\ end[d][r] \in Alive /\ e = "setup"
      BY <3>2, <3>3, <3>4 DEF IInv, Shapes
    <3> HIDE DEF q, e, tb
    <3>6. TableFirst(Append(q, m), e, tb) /\ IsSeq(Append(q, m))
      BY <2>1, <3>5, AddOther, AppendToSeq
    <3> QED  BY <3>5, <3>6, <2>2 DEF e
  <2> QED  BY <2>3, <2>4
<1> QED  BY <1>1, <1>3, <1>4, <1>5 DEF IInv

\* A message of the handshake is read and perhaps answered.
LEMMA AnswerFacts ==
    ASSUME IInv, NEW c \in Conns, NEW s \in Ends(c), NEW a, Reads(c, s, a), NEW m
    PROVE  LET ch == SendOn(Taken(c, s), c, s, m) IN
           /\ DOMAIN ch = Conns /\ \A d \in Conns : DOMAIN ch[d] = Servers
           /\ \A d \in Conns : \A r \in Ends(d) :
                 ch[d][r] = IF d = c /\ r = s THEN Tail(chan[c][s])
                            ELSE IF d = c /\ end[c][r] \in Alive THEN Append(chan[d][r], m)
                            ELSE chan[d][r]
<1> USE ConnFacts
<1> DEFINE tk == Taken(c, s)
<1>1. /\ DOMAIN tk = Conns /\ \A d \in Conns : DOMAIN tk[d] = Servers
      /\ \A d \in Conns : \A r \in Servers :
            tk[d][r] = IF d = c /\ r = s THEN Tail(chan[c][s]) ELSE chan[d][r]
  BY TakenFacts
<1> HIDE DEF tk
<1>2. \A r \in Ends(c) : r = s \/ r = Peer(c, s)
  OBVIOUS
<1>3. CASE end[c][Peer(c, s)] \in Alive
  <2>1. SendOn(tk, c, s, m) = [tk EXCEPT ![c][Peer(c, s)] = Append(@, m)]
    BY <1>3 DEF SendOn
  <2> QED  BY <1>1, <1>2, <1>3, <2>1 DEF tk
<1>4. CASE end[c][Peer(c, s)] \notin Alive
  <2>1. SendOn(tk, c, s, m) = tk
    BY <1>4 DEF SendOn
  <2> QED  BY <1>1, <1>2, <1>4, <2>1 DEF tk
<1> QED  BY <1>3, <1>4

LEMMA ConfirmedStep ==
    ASSUME IInv, NEW c \in Conns, NEW s \in Ends(c), Confirmed(c, s)
    PROVE  IInv'
<1> USE ConnFacts
<1> DEFINE m == [action |-> "info"]
<1>1. /\ Reads(c, s, "confirm") /\ chan' = SendOn(Taken(c, s), c, s, m)
      /\ peerServers' = peerServers /\ end' = end /\ tables' = tables /\ view' = view
  BY DEF Confirmed, ReadConfirm
<1>2. m.action \notin Data
  BY DEF Data
<1> HIDE DEF m
<1>3. /\ DOMAIN chan' = Conns /\ \A d \in Conns : DOMAIN chan'[d] = Servers
      /\ \A d \in Conns : \A r \in Ends(d) :
            chan'[d][r] = IF d = c /\ r = s THEN Tail(chan[c][s])
                          ELSE IF d = c /\ end[c][r] \in Alive THEN Append(chan[d][r], m)
                          ELSE chan[d][r]
  BY <1>1, AnswerFacts
<1>4. LinkInv'
  BY <1>1, LinkStepInv DEF IInv, LinkStep
<1>5. Shapes' /\ ViewIsMerged' /\ NoTableWithoutPeer'
  BY <1>1, <1>3 DEF IInv, Shapes, ViewIsMerged, NoTableWithoutPeer
<1>6. ChanInv'
  <2> SUFFICES ASSUME NEW d \in Conns, NEW r \in Ends(d)
               PROVE  /\ IsSeq(chan'[d][r])
                      /\ end[d][r] \notin Alive => chan'[d][r] = <<>>
                      /\ end[d][r] \in Alive =>
                            TableFirst(chan'[d][r], end[d][Peer(d, r)], tables[r][Peer(d, r)])
    BY <1>1 DEF ChanInv
  <2> DEFINE q == chan[d][r]
             e == end[d][Peer(d, r)]
             tb == tables[r][Peer(d, r)]
  <2>1. /\ IsSeq(q)
        /\ end[d][r] \notin Alive => q = <<>>
        /\ end[d][r] \in Alive => TableFirst(q, e, tb)
    BY DEF IInv, ChanInv
  <2>2. CASE d = c /\ r = s
    <3>1. chan'[d][r] = Tail(q) /\ q # <<>> /\ end[d][r] \in Alive
      BY <2>2, <1>1, <1>3, TakenFacts
    <3> HIDE DEF q, e, tb
    <3>2. IsSeq(Tail(q)) /\ TableFirst(Tail(q), e, tb)
      BY <2>1, <3>1, TailOfSeq, TakeAny
    <3> QED  BY <3>1, <3>2 DEF e, tb
  <2>3. CASE d = c /\ r # s /\ end[c][r] \in Alive
    <3>1. chan'[d][r] = Append(q, m) /\ end[d][r] \in Alive
      BY <2>3, <1>3
    <3> HIDE DEF q, e, tb
    <3>2. IsSeq(Append(q, m)) /\ TableFirst(Append(q, m), e, tb)
      BY <2>1, <3>1, <1>2, AppendToSeq, AddOther
    <3> QED  BY <3>1, <3>2 DEF e, tb
  <2>4. CASE d # c \/ (r # s /\ end[c][r] \notin Alive)
    BY <2>1, <2>4, <1>3
  <2> QED  BY <2>2, <2>3, <2>4
<1> QED  BY <1>4, <1>5, <1>6 DEF IInv

\* A connection is set up at s: its channel to the peer has no data yet and gets
\* the table.
LEMMA SetupPeerServerStep ==
    ASSUME IInv, NEW c \in Conns, NEW s \in Ends(c), SetupPeerServer(c, s)
    PROVE  IInv'
<1> USE ConnFacts
<1> DEFINE m == [action |-> "table", table |-> tables[s][s]]
           sets == end[c][s] # "setup"
<1>1. /\ Reads(c, s, "info") /\ tables' = tables /\ view' = view
      /\ ~sets => chan' = Taken(c, s) /\ peerServers' = peerServers /\ end' = end
      /\ sets => /\ end' = [end EXCEPT ![c][s] = "setup"]
                 /\ peerServers' = [peerServers EXCEPT ![s][Peer(c, s)] = c]
                 /\ chan' = SendOn(Taken(c, s), c, s, m)
  BY DEF SetupPeerServer, ReadInfo
<1> HIDE DEF m
<1>2. end[c][s] \in Alive /\ chan[c][s] # <<>>
  BY <1>1, TakenFacts
<1>3. LinkInv'
  <2>1. CASE sets
    BY <1>1, <1>2, <2>1, SetUpStep DEF IsSetUp, IInv
  <2>2. CASE ~sets
    BY <1>1, <2>2, LinkStepInv DEF LinkStep, IInv
  <2> QED  BY <2>1, <2>2
<1>4. /\ DOMAIN chan' = Conns /\ \A d \in Conns : DOMAIN chan'[d] = Servers
      /\ \A d \in Conns : \A r \in Ends(d) :
            chan'[d][r] = IF d = c /\ r = s THEN Tail(chan[c][s])
                          ELSE IF d = c /\ end[c][r] \in Alive /\ sets
                               THEN Append(chan[d][r], m)
                          ELSE chan[d][r]
  <2>1. CASE sets
    BY <1>1, <2>1, AnswerFacts
  <2>2. CASE ~sets
    BY <1>1, <2>2, TakenFacts
  <2> QED  BY <2>1, <2>2
<1>5. \A d \in Conns : \A r \in Servers :
         end'[d][r] = IF d = c /\ r = s THEN "setup" ELSE end[d][r]
  BY <1>1 DEF IInv, LinkInv, LinkTypeOK
<1>6. Shapes' /\ ViewIsMerged'
  BY <1>1, <1>4 DEF IInv, Shapes, ViewIsMerged
<1>7. NoTableWithoutPeer'
  <2>1. \A r, o \in Servers : peerServers'[r][o] = NoConn => peerServers[r][o] = NoConn
    BY <1>1 DEF IInv, LinkInv, LinkTypeOK
  <2> QED  BY <1>1, <2>1 DEF IInv, NoTableWithoutPeer
<1>8. ChanInv'
  <2> SUFFICES ASSUME NEW d \in Conns, NEW r \in Ends(d)
               PROVE  /\ IsSeq(chan'[d][r])
                      /\ end'[d][r] \notin Alive => chan'[d][r] = <<>>
                      /\ end'[d][r] \in Alive =>
                            TableFirst(chan'[d][r], end'[d][Peer(d, r)], tables[r][Peer(d, r)])
    BY <1>1 DEF ChanInv
  <2> DEFINE q == chan[d][r]
             e == end[d][Peer(d, r)]
             tb == tables[r][Peer(d, r)]
  <2>1. /\ IsSeq(q)
        /\ end[d][r] \notin Alive => q = <<>>
        /\ end[d][r] \in Alive => TableFirst(q, e, tb)
    BY DEF IInv, ChanInv
  <2>2. CASE d = c /\ r = s
    <3>1. /\ chan'[d][r] = Tail(q) /\ q # <<>> /\ end[d][r] \in Alive
          /\ end'[d][r] = "setup" /\ end'[d][Peer(d, r)] = e
      BY <2>2, <1>2, <1>4, <1>5
    <3> HIDE DEF q, e, tb
    <3>2. IsSeq(Tail(q)) /\ TableFirst(Tail(q), e, tb)
      BY <2>1, <3>1, TailOfSeq, TakeAny
    <3> QED  BY <3>1, <3>2 DEF tb, Alive
  <2>3. CASE d = c /\ r # s /\ end[c][r] \in Alive /\ sets
    <3>1. /\ chan'[d][r] = Append(q, m) /\ end[d][r] \in Alive /\ end'[d][r] = end[d][r]
          /\ e = "open" /\ end'[d][Peer(d, r)] = "setup"
      <4>1. Peer(d, r) = s
        BY <2>3
      <4> QED  BY <4>1, <2>3, <1>2, <1>4, <1>5 DEF Alive
    <3> HIDE DEF q, e, tb
    <3>2. IsSeq(Append(q, m)) /\ TableFirst(Append(q, m), "setup", tb)
      BY <2>1, <3>1, AppendToSeq, AddTable
    <3> QED  BY <3>1, <3>2 DEF tb
  <2>4. CASE d = c /\ r # s /\ ~(end[c][r] \in Alive /\ sets)
    <3>1. /\ chan'[d][r] = q /\ end'[d][r] = end[d][r]
          /\ end'[d][Peer(d, r)] = "setup" /\ (sets \/ e = "setup")
      <4>1. Peer(d, r) = s
        BY <2>4
      <4> QED  BY <4>1, <2>4, <1>4, <1>5
    <3> QED  BY <3>1, <2>1, <2>4
  <2>5. CASE d # c
    BY <2>1, <2>5, <1>4, <1>5
  <2> QED  BY <2>2, <2>3, <2>4, <2>5
<1> QED  BY <1>3, <1>6, <1>7, <1>8 DEF IInv

\* A connection begins: the previous ones are over at both ends, so that neither
\* lists the other or has its table.
LEMMA OpenStep ==
    ASSUME IInv, ~Overlap, NEW c \in Conns, Open(c)
    PROVE  IInv'
<1> USE ConnFacts
<1> DEFINE hello == <<[action |-> "confirm"], [action |-> "info"]>>
<1>1. /\ Begins(c) /\ peerServers' = peerServers /\ tables' = tables /\ view' = view
      /\ chan' = [chan EXCEPT ![c][c.lo] = hello]
      /\ end' = [end EXCEPT ![c] = [s \in Servers |->
                    IF s \in Ends(c) THEN "open" ELSE "none"]]
  BY DEF Open, Connect, Begins
<1>2. IsSeq(hello) /\ \A i \in 1..Len(hello) : hello[i].action \notin Data
  <2> DEFINE confirm == [action |-> "confirm"]
             info == [action |-> "info"]
  <2>1. confirm.action \notin Data /\ info.action \notin Data
    BY DEF Data
  <2> HIDE DEF confirm, info
  <2>2. IsSeq(<<confirm, info>>)
    <3>1. <<confirm, info>> \in Seq({confirm, info})
      OBVIOUS
    <3> QED  BY <3>1 DEF IsSeq
  <2>3. \A i \in 1..Len(<<confirm, info>>) : <<confirm, info>>[i].action \notin Data
    BY <2>1
  <2> QED  BY <2>2, <2>3 DEF confirm, info
<1> HIDE DEF hello
<1>3. LinkInv'
  BY <1>1, BeginsStep DEF IInv
<1>4. end[c][c.lo] = "none" /\ end[c][c.hi] = "none"
  BY <1>1 DEF Begins, IInv, LinkInv, BegunAtBoth
<1>5. /\ DOMAIN chan' = Conns /\ \A d \in Conns : DOMAIN chan'[d] = Servers
      /\ \A d \in Conns : \A r \in Servers :
            chan'[d][r] = IF d = c /\ r = c.lo THEN hello ELSE chan[d][r]
  BY <1>1 DEF IInv, Shapes
<1>6. \A d \in Conns : \A r \in Servers :
         end'[d][r] = IF d = c THEN (IF r \in Ends(c) THEN "open" ELSE "none")
                      ELSE end[d][r]
  BY <1>1 DEF IInv, LinkInv, LinkTypeOK
<1>7. Shapes' /\ ViewIsMerged' /\ NoTableWithoutPeer'
  BY <1>1, <1>5 DEF IInv, Shapes, ViewIsMerged, NoTableWithoutPeer
<1>8. ASSUME NEW r \in Ends(c)  PROVE tables[r][Peer(c, r)] = NoTable
  <2> DEFINE d == peerServers[r][Peer(c, r)]
  <2>1. ASSUME d # NoConn  PROVE FALSE
    <3>7. r \in Servers /\ Peer(c, r) \in Servers /\ Ends(c) = {r, Peer(c, r)}
      OBVIOUS
    <3>1. d \in Conns /\ Ends(d) = Ends(c) /\ end[d][r] = "setup"
      BY <2>1, <3>7, ListedFacts DEF IInv
    <3> HIDE DEF d
    <3>2. r \in {d.lo, d.hi} /\ r \in {c.lo, c.hi}
      BY <3>1 DEF Ends
    <3>3. d # c
      BY <3>1, <3>2, <1>4
    <3>4. d.lo = c.lo /\ d.hi = c.hi /\ (d.n < c.n \/ c.n < d.n)
      BY <3>1, <3>3, SameEnds
    <3>5. CASE d.n < c.n
      <4>1. end[d][d.lo] = "closed" /\ end[d][d.hi] = "closed"
        BY <1>1, <3>1, <3>4, <3>5 DEF Begins
      <4> QED  BY <4>1, <3>1, <3>2
    <3>6. CASE c.n < d.n
      <4>1. end[d][d.lo] # "none"
        BY <3>1, <3>2 DEF IInv, LinkInv, BegunAtBoth
      <4>2. end[c][c.lo] = "closed"
        BY <4>1, <3>1, <3>4, <3>6 DEF IInv, LinkInv, Successive
      <4> QED  BY <4>2, <1>4
    <3> QED  BY <3>4, <3>5, <3>6
  <2> QED  BY <2>1 DEF IInv, NoTableWithoutPeer
<1>9. ChanInv'
  <2> SUFFICES ASSUME NEW d \in Conns, NEW r \in Ends(d)
               PROVE  /\ IsSeq(chan'[d][r])
                      /\ end'[d][r] \notin Alive => chan'[d][r] = <<>>
                      /\ end'[d][r] \in Alive =>
                            TableFirst(chan'[d][r], end'[d][Peer(d, r)], tables[r][Peer(d, r)])
    BY <1>1 DEF ChanInv
  <2>1. CASE d # c
    BY <2>1, <1>5, <1>6 DEF IInv, ChanInv
  <2>2. CASE d = c
    <3>1. chan[c][r] = <<>>
      <4>1. r \in {c.lo, c.hi}
        BY <2>2 DEF Ends
      <4>2. end[c][r] \notin Alive
        BY <4>1, <1>4 DEF Alive
      <4> QED  BY <4>2, <2>2 DEF IInv, ChanInv
    <3>2. end'[d][r] = "open" /\ end'[d][Peer(d, r)] = "open"
      BY <2>2, <1>6
    <3>3. IsSeq(chan'[d][r]) /\ \A i \in 1..Len(chan'[d][r]) : chan'[d][r][i].action \notin Data
      BY <2>2, <3>1, <1>2, <1>5, EmptyIsSeq
    <3>4. TableFirst(chan'[d][r], "open", tables[r][Peer(d, r)])
      BY <3>3, <1>8, <2>2 DEF TableFirst, Data
    <3> QED  BY <3>2, <3>3, <3>4 DEF Alive
  <2> QED  BY <2>1, <2>2
<1> QED  BY <1>3, <1>7, <1>9 DEF IInv

\* A connection ends at s, and with it what s knows of the peer.
LEMMA CloseStep ==
    ASSUME IInv, ~Overlap, NEW c \in Conns, NEW s \in Ends(c), Close(c, s)
    PROVE  IInv'
<1> USE ConnFacts
<1> DEFINE p == Peer(c, s)
           set == end[c][s] = "setup"
<1>1. /\ IsClosed(c, s) /\ end[c][s] \in Alive
      /\ end' = [end EXCEPT ![c][s] = "closed"] /\ chan' = [chan EXCEPT ![c][s] = <<>>]
      /\ set => peerServers' = [peerServers EXCEPT ![s][p] = NoConn]
      /\ ~set => peerServers' = peerServers
      /\ set => Update(s, p, NoTable, DOMAIN tables[s][p])
      /\ ~set => tables' = tables /\ view' = view
  BY DEF Close, LinkClose, IsClosed, ForgetPeer
<1>2. LinkInv'
  BY <1>1, ClosedStep DEF IInv
<1>3. /\ DOMAIN chan' = Conns /\ \A d \in Conns : DOMAIN chan'[d] = Servers
      /\ \A d \in Conns : \A r \in Servers :
            /\ chan'[d][r] = IF d = c /\ r = s THEN <<>> ELSE chan[d][r]
            /\ end'[d][r] = IF d = c /\ r = s THEN "closed" ELSE end[d][r]
  BY <1>1 DEF IInv, Shapes, LinkInv, LinkTypeOK
<1>4. /\ ViewIsMerged' /\ DOMAIN view' = Servers
      /\ DOMAIN tables' = Servers /\ \A r \in Servers : DOMAIN tables'[r] = Servers
      /\ \A r, o \in Servers :
            tables'[r][o] = IF set /\ r = s /\ o = p THEN NoTable ELSE tables[r][o]
  <2>1. CASE set
    <3>1. \A n \in Nodes \ DOMAIN tables[s][p] :
             n \notin DOMAIN NoTable /\ n \notin DOMAIN tables[s][p]
      BY DEF NoTable
    <3>2. Update(s, p, NoTable, DOMAIN tables[s][p])
      BY <1>1, <2>1
    <3> QED  BY <2>1, <3>1, <3>2, UpdateMerges DEF IInv
  <2>2. CASE ~set
    BY <1>1, <2>2 DEF IInv, ViewIsMerged, Shapes
  <2> QED  BY <2>1, <2>2
<1>5. Shapes'
  BY <1>3, <1>4 DEF Shapes
<1>6. NoTableWithoutPeer'
  <2>1. \A r, o \in Servers : peerServers'[r][o] = IF set /\ r = s /\ o = p THEN NoConn
                                                 ELSE peerServers[r][o]
    BY <1>1 DEF IInv, LinkInv, LinkTypeOK
  <2> QED  BY <1>4, <2>1 DEF IInv, NoTableWithoutPeer
<1>7. ChanInv'
  <2> SUFFICES ASSUME NEW d \in Conns, NEW r \in Ends(d)
               PROVE  /\ IsSeq(chan'[d][r])
                      /\ end'[d][r] \notin Alive => chan'[d][r] = <<>>
                      /\ end'[d][r] \in Alive =>
                            TableFirst(chan'[d][r], end'[d][Peer(d, r)], tables'[r][Peer(d, r)])
    BY DEF ChanInv
  <2> DEFINE q == chan[d][r]
             e == end[d][Peer(d, r)]
             tb == tables[r][Peer(d, r)]
  <2>1. /\ IsSeq(q)
        /\ end[d][r] \notin Alive => q = <<>>
        /\ end[d][r] \in Alive => TableFirst(q, e, tb)
    BY DEF IInv, ChanInv
  <2>2. CASE d = c /\ r = s
    BY <2>2, <1>3, EmptyIsSeq DEF Alive
  <2>3. CASE ~(d = c /\ r = s)
    <3>1. /\ chan'[d][r] = q /\ end'[d][r] = end[d][r]
          /\ end'[d][Peer(d, r)] \in {e, "closed"} /\ tables'[r][Peer(d, r)] \in {tb, NoTable}
      BY <2>3, <1>3, <1>4
    <3> HIDE DEF q, e, tb
    <3>2. ASSUME end[d][r] \in Alive
          PROVE  /\ TableFirst(q, e, tb) /\ TableFirst(q, e, NoTable)
                 /\ TableFirst(q, "closed", tb) /\ TableFirst(q, "closed", NoTable)
      BY <2>1, <3>2, Weaker
    <3> QED  BY <2>1, <3>1, <3>2
  <2> QED  BY <2>2, <2>3
<1> QED  BY <1>2, <1>4, <1>5, <1>6, <1>7 DEF IInv

\* A server starts again, with no table.
LEMMA RestartedStep ==
    ASSUME IInv, ~Overlap, NEW s \in Servers, Restart(s)
    PROVE  IInv'
<1> USE ConnFacts
<1>1. /\ LinkRestart(s)
      /\ tables' = [tables EXCEPT ![s] = [p \in Servers |-> NoTable]]
      /\ view' = [view EXCEPT ![s] = [n \in Nodes |-> NoView]]
  BY DEF Restart
<1>2. LinkInv'
  BY <1>1, RestartStep DEF IInv
<1>3. /\ DOMAIN chan' = Conns /\ \A d \in Conns : DOMAIN chan'[d] = Servers
      /\ \A d \in Conns : \A r \in Servers :
            /\ chan'[d][r] = IF r = s THEN <<>> ELSE chan[d][r]
            /\ end'[d][r] = IF r = s /\ end[d][r] \in Alive THEN "closed" ELSE end[d][r]
  BY <1>1 DEF LinkRestart, IInv, Shapes, LinkInv, LinkTypeOK
<1>4. /\ DOMAIN view' = Servers /\ DOMAIN tables' = Servers
      /\ \A r \in Servers : DOMAIN tables'[r] = Servers
      /\ \A r, o \in Servers : tables'[r][o] = IF r = s THEN NoTable ELSE tables[r][o]
      /\ \A r \in Servers : r # s => tables'[r] = tables[r] /\ view'[r] = view[r]
      /\ \A n \in Nodes : view'[s][n] = NoView
  BY <1>1 DEF IInv, Shapes
<1>5. Shapes'
  BY <1>3, <1>4 DEF Shapes
<1>6. ViewIsMerged'
  <2>1. \A n : View(tables'[s], n) = NoView
    <3>1. \A o \in DOMAIN tables'[s] : tables'[s][o] = NoTable
      BY <1>4
    <3> QED  BY <3>1, ViewOfNothing
  <2> QED  BY <2>1, <1>4 DEF IInv, ViewIsMerged
<1>7. NoTableWithoutPeer'
  <2>1. \A r, o \in Servers : r # s => peerServers'[r][o] = peerServers[r][o]
    BY <1>1 DEF LinkRestart, IInv, LinkInv, LinkTypeOK
  <2> QED  BY <2>1, <1>4 DEF IInv, NoTableWithoutPeer
<1>8. ChanInv'
  <2> SUFFICES ASSUME NEW d \in Conns, NEW r \in Ends(d)
               PROVE  /\ IsSeq(chan'[d][r])
                      /\ end'[d][r] \notin Alive => chan'[d][r] = <<>>
                      /\ end'[d][r] \in Alive =>
                            TableFirst(chan'[d][r], end'[d][Peer(d, r)], tables'[r][Peer(d, r)])
    BY DEF ChanInv
  <2> DEFINE q == chan[d][r]
             e == end[d][Peer(d, r)]
             tb == tables[r][Peer(d, r)]
  <2>1. /\ IsSeq(q)
        /\ end[d][r] \notin Alive => q = <<>>
        /\ end[d][r] \in Alive => TableFirst(q, e, tb)
    BY DEF IInv, ChanInv
  <2>2. CASE r = s
    BY <2>2, <1>3, EmptyIsSeq DEF Alive
  <2>3. CASE r # s
    <3>1. /\ chan'[d][r] = q /\ end'[d][r] = end[d][r]
          /\ end'[d][Peer(d, r)] \in {e, "closed"} /\ tables'[r][Peer(d, r)] = tb
      BY <2>3, <1>3, <1>4
    <3> HIDE DEF q, e, tb
    <3>2. end[d][r] \in Alive => TableFirst(q, e, tb) /\ TableFirst(q, "closed", tb)
      BY <2>1, Weaker
    <3> QED  BY <2>1, <3>1, <3>2
  <2> QED  BY <2>2, <2>3
<1> QED  BY <1>2, <1>5, <1>6, <1>7, <1>8 DEF IInv

-----------------------------------------------------------------------------
LEMMA InitInv == Init => IInv
<1> SUFFICES ASSUME Init  PROVE IInv
  OBVIOUS
<1> USE ConnFacts
<1>1. LinkInv
  BY LinkInitInv DEF Init
<1>2. Shapes /\ ChanInv /\ NoTableWithoutPeer
  <2>1. \A c \in Conns : \A s \in Ends(c) : chan[c][s] = <<>> /\ end[c][s] = "none"
    BY DEF Init, LinkInit
  <2>2. Shapes /\ NoTableWithoutPeer
    BY DEF Init, LinkInit, Shapes, NoTableWithoutPeer
  <2> QED  BY <2>1, <2>2, EmptyIsSeq DEF ChanInv, Alive
<1>3. ViewIsMerged
  <2>1. \A s \in Servers : \A p \in DOMAIN tables[s] : tables[s][p] = NoTable
    BY DEF Init
  <2>2. \A s \in Servers : \A n : View(tables[s], n) = NoView
    BY <2>1, ViewOfNothing
  <2> QED  BY <2>2 DEF Init, ViewIsMerged
<1> QED  BY <1>1, <1>2, <1>3 DEF IInv

\* Every step keeps the invariant while connections do not overlap.
THEOREM NextInv == ASSUME ~Overlap  PROVE IInv /\ [Next]_vars => IInv'
<1> SUFFICES ASSUME IInv, [Next]_vars  PROVE IInv'
  OBVIOUS
<1> USE ConnFacts
<1>1. ASSUME NEW s \in Servers, NEW n \in Nodes, NEW t \in Kinds, NEW pw \in Reports,
             LocalSet(s, n, t, pw)
      PROVE  IInv'
  <2>1. Merged(s, s)
    BY <1>1, SetMerges DEF LocalSet, IInv
  <2> DEFINE m == [action |-> "set", node |-> n, type |-> t, power |-> pw]
  <2>2. chan' = Dispatch(s, m) /\ UNCHANGED <<peerServers, end>>
    BY <1>1 DEF LocalSet
  <2>3. m.action \in {"set", "clear"}
    OBVIOUS
  <2> HIDE DEF m
  <2> QED  BY <2>1, <2>2, <2>3, LocalChange
<1>2. ASSUME NEW s \in Servers, NEW n \in Nodes, NEW t \in Kinds, LocalClear(s, n, t)
      PROVE  IInv'
  <2>1. Merged(s, s)
    BY <1>2, ClearMerges DEF LocalClear, IInv
  <2> DEFINE m == [action |-> "clear", node |-> n, type |-> t]
  <2>2. chan' = Dispatch(s, m) /\ UNCHANGED <<peerServers, end>>
    BY <1>2 DEF LocalClear
  <2>3. m.action \in {"set", "clear"}
    OBVIOUS
  <2> HIDE DEF m
  <2> QED  BY <2>1, <2>2, <2>3, LocalChange
<1>3. ASSUME NEW c \in Conns, Open(c)  PROVE IInv'
  BY <1>3, OpenStep
<1>4. ASSUME NEW c \in Conns, NEW s \in Ends(c), Confirmed(c, s)  PROVE IInv'
  BY <1>4, ConfirmedStep
<1>5. ASSUME NEW c \in Conns, NEW s \in Ends(c), SetupPeerServer(c, s)  PROVE IInv'
  BY <1>5, SetupPeerServerStep
<1>6. ASSUME NEW c \in Conns, NEW s \in Ends(c), ReadTable(c, s)  PROVE IInv'
  <2>1. Reads(c, s, "table") /\ ReadData(c, s) /\ "table" \in Data
    BY <1>6 DEF ReadTable, Data
  <2>2. Merged(s, Peer(c, s)) /\ (end[c][s] # "setup" => tables' = tables)
    BY <1>6, TableMerges DEF ReadTable
  <2> QED  BY <2>1, <2>2, DataRead
<1>7. ASSUME NEW c \in Conns, NEW s \in Ends(c), ReadSet(c, s)  PROVE IInv'
  <2> DEFINE m == Head(chan[c][s])
  <2>1. Reads(c, s, "set") /\ ReadData(c, s) /\ "set" \in Data
    BY <1>7 DEF ReadSet, Data
  <2>2. Merged(s, Peer(c, s)) /\ (end[c][s] # "setup" => tables' = tables)
    <3>1. CASE end[c][s] = "setup"
      <4>1. SetState(s, Peer(c, s), m.node, m.type, m.power)
        BY <1>7, <3>1 DEF ReadSet
      <4> QED  BY <3>1, <4>1, SetMerges DEF IInv
    <3>2. CASE end[c][s] # "setup"
      <4>1. tables' = tables /\ view' = view
        BY <1>7, <3>2 DEF ReadSet
      <4> QED  BY <4>1 DEF Merged, IInv, Shapes, ViewIsMerged
    <3> QED  BY <3>1, <3>2
  <2> QED  BY <2>1, <2>2, DataRead
<1>8. ASSUME NEW c \in Conns, NEW s \in Ends(c), ReadClear(c, s)  PROVE IInv'
  <2> DEFINE m == Head(chan[c][s])
  <2>1. Reads(c, s, "clear") /\ ReadData(c, s) /\ "clear" \in Data
    BY <1>8 DEF ReadClear, Data
  <2>2. Merged(s, Peer(c, s)) /\ (end[c][s] # "setup" => tables' = tables)
    <3>1. CASE end[c][s] = "setup"
      <4>1. ClearState(s, Peer(c, s), m.node, m.type)
        BY <1>8, <3>1 DEF ReadClear
      <4> QED  BY <3>1, <4>1, ClearMerges DEF IInv
    <3>2. CASE end[c][s] # "setup"
      <4>1. tables' = tables /\ view' = view
        BY <1>8, <3>2 DEF ReadClear
      <4> QED  BY <4>1 DEF Merged, IInv, Shapes, ViewIsMerged
    <3> QED  BY <3>1, <3>2
  <2> QED  BY <2>1, <2>2, DataRead
<1>9. ASSUME NEW c \in Conns, NEW s \in Ends(c), Close(c, s)  PROVE IInv'
  BY <1>9, CloseStep
<1>10. ASSUME NEW s \in Servers, Restart(s)  PROVE IInv'
  BY <1>10, RestartedStep
<1>11. CASE UNCHANGED vars
  <2>1. /\ peerServers' = peerServers /\ end' = end /\ chan' = chan
        /\ tables' = tables /\ view' = view
    BY <1>11 DEF vars, linkVars
  <2>2. LinkInv'
    BY <2>1, LinkStepInv DEF IInv, LinkStep
  <2>3. Shapes' /\ ViewIsMerged' /\ NoTableWithoutPeer'
    BY <2>1 DEF IInv, Shapes, ViewIsMerged, NoTableWithoutPeer
  <2>4. ChanInv'
    BY <2>1 DEF IInv, ChanInv
  <2> QED  BY <2>2, <2>3, <2>4 DEF IInv
<1> QED  BY <1>1, <1>2, <1>3, <1>4, <1>5, <1>6, <1>7, <1>8, <1>9, <1>10, <1>11 DEF Next

\* The invariant holds in every reachable state, unless connections overlap.
THEOREM Invariance == ASSUME ~Overlap  PROVE Spec => []IInv
<1>1. IInv /\ [Next]_vars => IInv'
  BY NextInv
<1> QED  BY InitInv, <1>1, PTL DEF Spec

\* What a server sends to its peers goes to those it is connected to, and to each
\* of them.
THEOREM ListIsAlwaysExact == ASSUME ~Overlap  PROVE Spec => []ListIsExact
<1>1. IInv => ListIsExact
  BY DEF IInv, LinkInv, ListIsExact
<1> QED  BY Invariance, <1>1, PTL

\* When a connection ends, what was known through it is forgotten.
THEOREM NeverTableWithoutPeer == ASSUME ~Overlap  PROVE Spec => []NoTableWithoutPeer
<1>1. IInv => NoTableWithoutPeer
  BY DEF IInv
<1> QED  BY Invariance, <1>1, PTL

\* What is shown of a node is never out of step with the tables.
THEOREM ViewIsAlwaysMerged == ASSUME ~Overlap  PROVE Spec => []ViewIsMerged
<1>1. IInv => ViewIsMerged
  BY DEF IInv
<1> QED  BY Invariance, <1>1, PTL

\* Both together: what is shown is the merger of the tables of the peers there are.
THEOREM TablesAreAlwaysRight == ASSUME ~Overlap  PROVE Spec => []TablesAreRight
<1>1. IInv => TablesAreRight
  BY DEF IInv, TablesAreRight
<1> QED  BY Invariance, <1>1, PTL

-----------------------------------------------------------------------------
(***************************************************************************)
(* The copies.  While both ends are up, the receiver's table of the sender *)
(* and the messages on their way to it lead to the sender's own table.     *)
(***************************************************************************)

\* The receiver's table of the sender after message m.
After(tb, m) ==
    IF m.action = "table" THEN m.table
    ELSE IF m.action = "set"
    THEN Put(tb, m.node, SetConn(Lookup(tb, m.node), m.type, m.power))
    ELSE IF m.action = "clear" /\ m.node \in DOMAIN tb
    THEN LET new == ClearConn(tb[m.node], m.type)
         IN  IF new.conn = {} THEN Drop(tb, m.node) ELSE Put(tb, m.node, new)
    ELSE tb

\* The messages q, taken one after the other, turn table tb into goal.
Leads(q, tb, goal) ==
    \E h : /\ h[1] = tb /\ h[Len(q) + 1] = goal
           /\ \A i \in 1..Len(q) : h[i + 1] = After(h[i], q[i])

\* A channel to an end in state e: the information of the sender, which the end
\* waits for until it is set up, comes before what it would ignore.
Ready(q, e) ==
    IF e = "setup" THEN \A i \in 1..Len(q) : q[i].action \in Data
    ELSE /\ q # <<>> /\ q[1].action = "info"
         /\ \A i \in 2..Len(q) : q[i].action \in Data

\* The opening end has not read the confirmation, and the other end waits.
Greeting(c) ==
    /\ end[c][c.lo] = "open" /\ end[c][c.hi] = "open"
    /\ chan[c][c.hi] = <<>> /\ Len(chan[c][c.lo]) = 2
    /\ chan[c][c.lo][1].action = "confirm" /\ chan[c][c.lo][2].action = "info"

HandInv ==
    \A c \in Conns :
        end[c][c.lo] \in Alive /\ end[c][c.hi] \in Alive =>
            Greeting(c) \/ \A s \in Ends(c) : Ready(chan[c][s], end[c][s])

CopyInv ==
    \A c \in Conns : \A s \in Ends(c) :
        LET p == Peer(c, s)
        IN  end[c][s] \in Alive /\ end[c][p] = "setup" =>
                Leads(chan[c][s], tables[s][p], tables[p][p])

Copies == HandInv /\ CopyInv

LEMMA LeadsTail ==
    ASSUME NEW q, IsSeq(q), q # <<>>, NEW tb, NEW goal, Leads(q, tb, goal)
    PROVE  Leads(Tail(q), After(tb, Head(q)), goal)
<1>1. /\ Len(q) \in Nat \ {0} /\ Len(Tail(q)) = Len(q) - 1 /\ Head(q) = q[1]
      /\ \A i \in 1..Len(Tail(q)) : Tail(q)[i] = q[i + 1]
  BY TailOfSeq
<1>2. PICK h : /\ h[1] = tb /\ h[Len(q) + 1] = goal
               /\ \A i \in 1..Len(q) : h[i + 1] = After(h[i], q[i])
  BY DEF Leads
<1> DEFINE n == Len(q)
           t == Tail(q)
           g == [i \in 1..n |-> h[i + 1]]
<1>3. g[1] = After(tb, Head(q))
  <2>1. g[1] = h[1 + 1] /\ 1 \in 1..n
    BY <1>1
  <2> QED  BY <2>1, <1>1, <1>2
<1>4. g[n] = goal /\ \A i \in 1..(n - 1) : g[i] = h[i + 1] /\ g[i + 1] = h[i + 2]
  BY <1>1, <1>2
<1>5. ASSUME NEW i \in 1..(n - 1)  PROVE g[i + 1] = After(g[i], t[i])
  <2>1. i + 1 \in 1..n /\ (i + 1) + 1 = i + 2 /\ t[i] = q[i + 1]
    BY <1>1
  <2>2. h[(i + 1) + 1] = After(h[i + 1], q[i + 1])
    BY <1>2, <2>1
  <2> QED  BY <1>4, <2>1, <2>2
<1>6. Len(t) = n - 1 /\ Len(t) + 1 = n
  BY <1>1
<1> HIDE DEF g, n, t
<1>7. Leads(t, After(tb, Head(q)), goal)
  BY <1>3, <1>4, <1>5, <1>6 DEF Leads
<1> QED  BY <1>7 DEF t

LEMMA LeadsAppend ==
    ASSUME NEW q, IsSeq(q), NEW tb, NEW goal, Leads(q, tb, goal), NEW m
    PROVE  Leads(Append(q, m), tb, After(goal, m))
<1>1. /\ Len(q) \in Nat /\ Len(Append(q, m)) = Len(q) + 1
      /\ \A i \in 1..Len(q) : Append(q, m)[i] = q[i]
      /\ Append(q, m)[Len(q) + 1] = m
  BY AppendToSeq
<1>2. PICK h : /\ h[1] = tb /\ h[Len(q) + 1] = goal
               /\ \A i \in 1..Len(q) : h[i + 1] = After(h[i], q[i])
  BY DEF Leads
<1> DEFINE n == Len(q)
           a == Append(q, m)
           last == After(goal, m)
           g == [i \in 1..(n + 2) |-> IF i <= n + 1 THEN h[i] ELSE last]
<1> HIDE DEF last
<1>3. /\ \A i \in 1..(n + 1) : g[i] = h[i]
      /\ g[n + 2] = last /\ g[1] = h[1]
  BY <1>1
<1>4. ASSUME NEW i \in 1..(n + 1)  PROVE g[i + 1] = After(g[i], a[i])
  <2>1. CASE i \in 1..n
    <3>1. g[i + 1] = h[i + 1] /\ g[i] = h[i] /\ a[i] = q[i]
      BY <1>1, <1>3, <2>1
    <3> QED  BY <1>2, <2>1, <3>1
  <2>2. CASE i = n + 1
    <3>1. g[i] = h[n + 1] /\ a[i] = m /\ i + 1 = n + 2
      BY <1>1, <1>3, <2>2
    <3>2. g[i + 1] = last
      BY <1>3, <3>1
    <3> QED  BY <1>2, <3>1, <3>2 DEF last
  <2> QED  BY <1>1, <2>1, <2>2
<1>5. Len(a) = n + 1 /\ Len(a) + 1 = n + 2
  BY <1>1
<1> HIDE DEF g, n, a
<1>6. Leads(a, tb, last)
  BY <1>2, <1>3, <1>4, <1>5 DEF Leads
<1> QED  BY <1>6 DEF a, last

\* The table, when nothing that counts is on its way before it.
LEMMA LeadsTable ==
    ASSUME NEW q, IsSeq(q), \A i \in 1..Len(q) : q[i].action \notin Data, NEW tb,
           NEW m, m.action = "table"
    PROVE  Leads(Append(q, m), tb, m.table)
<1> DEFINE h == [i \in 1..(Len(q) + 1) |-> tb]
<1>1. Len(q) \in Nat
  BY AppendToSeq
<1>2. \A i \in 1..Len(q) : After(tb, q[i]) = tb
  BY DEF After, Data
<1>3. /\ h[1] = tb /\ h[Len(q) + 1] = tb
      /\ \A i \in 1..Len(q) : h[i] = tb /\ h[i + 1] = tb
  BY <1>1
<1> HIDE DEF h
<1>4. Leads(q, tb, tb)
  BY <1>2, <1>3 DEF Leads
<1>5. After(tb, m) = m.table
  BY DEF After
<1> QED  BY <1>4, <1>5, LeadsAppend

LEMMA LeadsNowhere ==
    ASSUME NEW tb, NEW goal, Leads(<<>>, tb, goal)
    PROVE  tb = goal
  BY EmptyIsSeq DEF Leads

\* Adding a table or a change, and taking a message.
LEMMA ReadyAppend ==
    ASSUME NEW q, IsSeq(q), NEW e, Ready(q, e), NEW m, m.action \in Data
    PROVE  Ready(Append(q, m), e)
<1> DEFINE a == Append(q, m)
<1>1. /\ Len(q) \in Nat /\ Len(a) = Len(q) + 1 /\ a[Len(q) + 1] = m
      /\ \A i \in 1..Len(q) : a[i] = q[i]
      /\ q # <<>> => Len(q) # 0
  BY AppendToSeq, TailOfSeq
<1>2. a # <<>>
  BY <1>1, EmptyIsSeq
<1> HIDE DEF a
<1>3. CASE e = "setup"
  <2>1. \A i \in 1..Len(q) : q[i].action \in Data
    BY <1>3 DEF Ready
  <2> QED  BY <1>1, <1>3, <2>1 DEF Ready, a
<1>4. CASE e # "setup"
  <2>1. q # <<>> /\ q[1].action = "info" /\ \A i \in 2..Len(q) : q[i].action \in Data
    BY <1>4 DEF Ready
  <2>2. a[1] = q[1]
    BY <1>1, <2>1
  <2>3. ASSUME NEW i \in 2..Len(a)  PROVE a[i].action \in Data
    <3>1. i = Len(q) + 1 \/ (i \in 2..Len(q) /\ i \in 1..Len(q))
      BY <1>1
    <3> QED  BY <1>1, <2>1, <3>1
  <2> QED  BY <1>2, <1>4, <2>1, <2>2, <2>3 DEF Ready, a
<1> QED  BY <1>3, <1>4

LEMMA ReadyTail ==
    ASSUME NEW q, IsSeq(q), q # <<>>, NEW e, Ready(q, e)
    PROVE  /\ Head(q).action \in Data => e = "setup"
           /\ Head(q).action = "info" => e # "setup"
           /\ Head(q).action # "confirm"
           /\ Ready(Tail(q), "setup")
<1>1. /\ Len(q) \in Nat \ {0} /\ Len(Tail(q)) = Len(q) - 1 /\ Head(q) = q[1]
      /\ \A i \in 1..Len(Tail(q)) : Tail(q)[i] = q[i + 1] /\ i + 1 \in 2..Len(q)
      /\ 1 \in 1..Len(q)
  BY TailOfSeq
<1> QED  BY <1>1 DEF Ready, Data

-----------------------------------------------------------------------------
\* Reading a table or a change at an end whose other end is up: the end is set up.
LEMMA DataReadCopies ==
    ASSUME IInv, ~Overlap, Copies, NEW c \in Conns, NEW s \in Ends(c), NEW a \in Data,
           Reads(c, s, a), ReadData(c, s), Merged(s, Peer(c, s)),
           end[c][s] = "setup" =>
              tables'[s][Peer(c, s)] = After(tables[s][Peer(c, s)], Head(chan[c][s]))
    PROVE  Copies'
<1> USE ConnFacts
<1> DEFINE p == Peer(c, s)
           q == chan[c][s]
<1>1. /\ q # <<>> /\ IsSeq(q) /\ Head(q).action \in Data
      /\ \A d \in Conns : \A r \in Servers :
            chan'[d][r] = IF d = c /\ r = s THEN Tail(q) ELSE chan[d][r]
      /\ end[c][s] \in Alive /\ end' = end /\ s \in Servers /\ p \in Servers /\ s # p
  BY TakenFacts DEF ReadData
<1>2. ASSUME end[c][p] \in Alive
      PROVE  /\ end[c][s] = "setup" /\ Ready(Tail(q), end[c][s])
             /\ \A r \in Ends(c) : Ready(chan[c][r], end[c][r])
  <2>1. end[c][c.lo] \in Alive /\ end[c][c.hi] \in Alive
    BY <1>1, <1>2 DEF Peer, Ends
  <2>2. Greeting(c) \/ \A r \in Ends(c) : Ready(chan[c][r], end[c][r])
    BY <2>1 DEF Copies, HandInv
  <2>3. ~Greeting(c)
    <3>1. ASSUME Greeting(c)  PROVE FALSE
      <4>1. q = chan[c][c.lo]
        BY <3>1, <1>1 DEF Greeting, Ends
      <4>2. q[1].action = "confirm"
        BY <3>1, <4>1 DEF Greeting
      <4> QED  BY <4>2, <1>1, TailOfSeq DEF Data
    <3> QED  BY <3>1
  <2>4. Ready(q, end[c][s])
    BY <2>2, <2>3
  <2>5. end[c][s] = "setup" /\ Ready(Tail(q), "setup")
    BY <2>4, <1>1, ReadyTail
  <2> QED  BY <2>2, <2>3, <2>5
<1>3. HandInv'
  <2> SUFFICES ASSUME NEW d \in Conns, end[d][d.lo] \in Alive, end[d][d.hi] \in Alive
               PROVE  Greeting(d)' \/ \A r \in Ends(d) : Ready(chan'[d][r], end[d][r])
    BY <1>1 DEF HandInv
  <2>1. CASE d = c
    <3>1. end[c][p] \in Alive
      BY <2>1 DEF Peer
    <3> HIDE DEF q
    <3> QED  BY <1>1, <1>2, <2>1, <3>1
  <2>2. CASE d # c
    <3>1. \A r \in Ends(d) : chan'[d][r] = chan[d][r]
      BY <1>1, <2>2
    <3>2. Greeting(d) \/ \A r \in Ends(d) : Ready(chan[d][r], end[d][r])
      BY DEF Copies, HandInv
    <3>3. Greeting(d) => Greeting(d)'
      BY <3>1, <1>1 DEF Greeting, Ends
    <3> QED  BY <3>1, <3>2, <3>3
  <2> QED  BY <2>1, <2>2
<1>4. CopyInv'
  <2> SUFFICES ASSUME NEW d \in Conns, NEW r \in Ends(d), end[d][r] \in Alive,
                      end[d][Peer(d, r)] = "setup"
               PROVE  Leads(chan'[d][r], tables'[r][Peer(d, r)],
                            tables'[Peer(d, r)][Peer(d, r)])
    BY <1>1 DEF CopyInv
  <2> DEFINE o == Peer(d, r)
  <2>1. Leads(chan[d][r], tables[r][o], tables[o][o]) /\ o \in Servers /\ r \in Servers
    BY DEF Copies, CopyInv
  <2>2. tables'[o][o] = tables[o][o]
    BY <1>1, <2>1 DEF Merged
  <2>3. CASE d = c /\ r = s
    <3>1. end[c][s] = "setup"
      BY <2>3, <1>2 DEF Alive
    <3>2. tables'[r][o] = After(tables[r][o], Head(q)) /\ chan'[d][r] = Tail(chan[d][r])
      BY <3>1, <2>3, <1>1
    <3>3. Leads(Tail(q), After(tables[r][o], Head(q)), tables[o][o])
      BY <2>1, <2>3, <1>1, LeadsTail
    <3> QED  BY <3>2, <3>3, <2>2, <2>3
  <2>4. CASE ~(d = c /\ r = s)
    <3>1. chan'[d][r] = chan[d][r]
      BY <2>4, <1>1, <2>1
    <3>2. ~(r = s /\ o = p)
      BY <2>4, <1>1, NoOther
    <3>3. tables'[r][o] = tables[r][o]
      BY <3>2, <2>1 DEF Merged
    <3> QED  BY <3>1, <3>3, <2>1, <2>2
  <2> QED  BY <2>3, <2>4
<1> QED  BY <1>3, <1>4 DEF Copies

\* A change of the server's own table goes to every peer that has the table or
\* will get it.
LEMMA LocalCopies ==
    ASSUME IInv, ~Overlap, Copies, NEW s \in Servers,
           NEW m, m.action \in {"set", "clear"},
           chan' = Dispatch(s, m), Merged(s, s), UNCHANGED <<peerServers, end>>,
           tables'[s][s] = After(tables[s][s], m)
    PROVE  Copies'
<1> USE ConnFacts
<1> DEFINE sent(d) == /\ \E p \in Servers : peerServers[s][p] = d
                      /\ end[d][Peer(d, s)] \in Alive
<1>1. \A d \in Conns : \A r \in Servers :
         chan'[d][r] = IF sent(d) /\ r = Peer(d, s) THEN Append(chan[d][r], m)
                       ELSE chan[d][r]
  <2>1. ASSUME NEW d \in Conns, NEW r \in Servers
        PROVE  chan'[d][r] = IF sent(d) /\ r = Peer(d, s) THEN Append(chan[d][r], m)
                             ELSE chan[d][r]
    <3>1. chan'[d] = IF sent(d) THEN [chan[d] EXCEPT ![Peer(d, s)] = Append(@, m)]
                     ELSE chan[d]
      BY DEF Dispatch
    <3>2. DOMAIN chan[d] = Servers
      BY DEF IInv, Shapes
    <3> HIDE DEF sent
    <3> QED  BY <3>1, <3>2
  <2> QED  BY <2>1
<1>2. ASSUME NEW d \in Conns, sent(d)
      PROVE  s \in Ends(d) /\ end[d][s] = "setup"
  <2>1. PICK p \in Servers : peerServers[s][p] = d
    BY <1>2
  <2>2. s # p /\ Ends(d) = {s, p} /\ end[d][s] = "setup"
    BY <2>1, ListedFacts DEF IInv
  <2> QED  BY <2>2
<1>3. ASSUME NEW d \in Conns, s \in Ends(d), end[d][s] = "setup",
             end[d][Peer(d, s)] \in Alive
      PROVE  sent(d)
  <2> DEFINE p == Peer(d, s)
             e == peerServers[s][p]
  <2>1. p \in Servers /\ e # NoConn
    BY <1>3 DEF IInv, LinkInv, SetupIsListed
  <2>2. e \in Conns /\ Ends(e) = {s, p} /\ end[e][s] = "setup"
    BY <2>1, ListedFacts DEF IInv
  <2>3. Ends(d) = {s, p}
    BY <1>3
  <2> HIDE DEF e
  <2>4. e = d
    BY <2>2, <2>3, <1>3, OneAlive DEF IInv, Alive
  <2> QED  BY <2>1, <2>4, <1>3 DEF e
<1>4. m.action \in Data
  BY DEF Data
<1>5. \A d \in Conns : \A r \in Ends(d) : IsSeq(chan[d][r])
  BY DEF IInv, ChanInv
<1> HIDE DEF sent
<1>6. HandInv'
  <2> SUFFICES ASSUME NEW d \in Conns, end[d][d.lo] \in Alive, end[d][d.hi] \in Alive
               PROVE  Greeting(d)' \/ \A r \in Ends(d) : Ready(chan'[d][r], end[d][r])
    BY DEF HandInv
  <2>1. Greeting(d) \/ \A r \in Ends(d) : Ready(chan[d][r], end[d][r])
    BY DEF Copies, HandInv
  <2>2. ASSUME Greeting(d)  PROVE Greeting(d)'
    <3>1. ~sent(d)
      BY <2>2, <1>2 DEF Greeting, Ends
    <3>2. \A r \in Ends(d) : chan'[d][r] = chan[d][r]
      BY <3>1, <1>1
    <3> QED  BY <2>2, <3>2 DEF Greeting, Ends
  <2>3. ASSUME \A r \in Ends(d) : Ready(chan[d][r], end[d][r]), NEW r \in Ends(d)
        PROVE  Ready(chan'[d][r], end[d][r])
    <3>2. d \in Conns /\ r \in Servers
      OBVIOUS
    <3>1. chan'[d][r] = chan[d][r] \/ chan'[d][r] = Append(chan[d][r], m)
      BY <3>2, <1>1
    <3>3. Ready(chan[d][r], end[d][r]) /\ IsSeq(chan[d][r])
      BY <2>3, <1>5
    <3>4. Ready(Append(chan[d][r], m), end[d][r])
      BY <3>3, <1>4, ReadyAppend
    <3> QED  BY <3>1, <3>3, <3>4
  <2> QED  BY <2>1, <2>2, <2>3
<1>7. CopyInv'
  <2> SUFFICES ASSUME NEW d \in Conns, NEW r \in Ends(d), end[d][r] \in Alive,
                      end[d][Peer(d, r)] = "setup"
               PROVE  Leads(chan'[d][r], tables'[r][Peer(d, r)],
                            tables'[Peer(d, r)][Peer(d, r)])
    BY DEF CopyInv
  <2> DEFINE o == Peer(d, r)
  <2>1. /\ Leads(chan[d][r], tables[r][o], tables[o][o])
        /\ o \in Servers /\ r \in Servers /\ o # r /\ o \in Ends(d)
    BY DEF Copies, CopyInv
  <2>2. tables'[r][o] = tables[r][o]
    BY <2>1 DEF Merged
  <2>3. CASE o = s
    <3>1. Peer(d, s) = r
      BY <2>1, <2>3
    <3>2. sent(d)
      BY <2>1, <2>3, <3>1, <1>3
    <3>3. chan'[d][r] = Append(chan[d][r], m)
      BY <3>1, <3>2, <1>1, <2>1
    <3>4. Leads(Append(chan[d][r], m), tables[r][o], After(tables[o][o], m))
      BY <2>1, <1>5, LeadsAppend
    <3> QED  BY <3>3, <3>4, <2>2, <2>3
  <2>4. CASE o # s
    <3>1. tables'[o][o] = tables[o][o]
      BY <2>1, <2>4 DEF Merged
    <3>2. ASSUME sent(d), r = Peer(d, s)  PROVE FALSE
      <4>1. s \in Ends(d)
        BY <3>2, <1>2
      <4> QED  BY <4>1, <3>2, <2>1, <2>4
    <3>3. chan'[d][r] = chan[d][r]
      BY <3>2, <1>1, <2>1
    <3> QED  BY <3>1, <3>3, <2>1, <2>2
  <2> QED  BY <2>3, <2>4
<1> QED  BY <1>6, <1>7 DEF Copies

\* The handshake: the opening end answers the confirmation with its information.
LEMMA ConfirmedCopies ==
    ASSUME IInv, Copies, NEW c \in Conns, NEW s \in Ends(c), Confirmed(c, s)
    PROVE  Copies'
<1> USE ConnFacts
<1> DEFINE m == [action |-> "info"]
           q == chan[c][s]
<1>1. /\ Reads(c, s, "confirm") /\ chan' = SendOn(Taken(c, s), c, s, m)
      /\ end' = end /\ tables' = tables
  BY DEF Confirmed, ReadConfirm
<1>2. m.action = "info"
  OBVIOUS
<1> HIDE DEF m
<1>3. \A d \in Conns : \A r \in Ends(d) :
         chan'[d][r] = IF d = c /\ r = s THEN Tail(q)
                       ELSE IF d = c /\ end[c][r] \in Alive THEN Append(chan[d][r], m)
                       ELSE chan[d][r]
  BY <1>1, AnswerFacts
<1>4. q # <<>> /\ IsSeq(q) /\ Head(q).action = "confirm" /\ end[c][s] \in Alive
  BY <1>1, TakenFacts
<1>5. ASSUME end[c][c.lo] \in Alive, end[c][c.hi] \in Alive
      PROVE  Greeting(c) /\ s = c.lo
  <2>1. ~Ready(q, end[c][s])
    BY <1>4, ReadyTail
  <2>2. Greeting(c)
    BY <2>1, <1>5 DEF Copies, HandInv
  <2> QED  BY <2>2, <1>4 DEF Greeting, Ends
<1>6. HandInv'
  <2> SUFFICES ASSUME NEW d \in Conns, end[d][d.lo] \in Alive, end[d][d.hi] \in Alive
               PROVE  Greeting(d)' \/ \A r \in Ends(d) : Ready(chan'[d][r], end[d][r])
    BY <1>1 DEF HandInv
  <2>1. CASE d = c
    <3>1. Greeting(c) /\ s = c.lo /\ c.hi \in Ends(c) /\ c.hi # s
      BY <2>1, <1>5 DEF Ends
    <3>2. chan'[c][c.lo] = Tail(q) /\ chan'[c][c.hi] = Append(<<>>, m)
      BY <3>1, <2>1, <1>3 DEF Greeting
    <3>3. Len(q) = 2 /\ q[2].action = "info"
      BY <3>1 DEF Greeting
    <3>4. Ready(Tail(q), "open")
      <4> DEFINE t == Tail(q)
      <4> HIDE DEF q
      <4>1. Len(t) = Len(q) - 1 /\ \A i \in 1..Len(t) : t[i] = q[i + 1]
        BY <1>4, TailOfSeq
      <4> HIDE DEF t
      <4>2. Len(t) = 1 /\ 1 \in 1..Len(t) /\ t[1] = q[2]
        BY <3>3, <4>1
      <4>3. t # <<>> /\ \A i \in 2..Len(t) : FALSE
        BY <4>2, EmptyIsSeq
      <4>4. Ready(t, "open")
        BY <3>3, <4>2, <4>3 DEF Ready
      <4> QED  BY <4>4 DEF t
    <3>6. Ready(Append(<<>>, m), "open")
      <4>1. Append(<<>>, m) = <<m>>
        OBVIOUS
      <4>2. Len(<<m>>) = 1 /\ <<m>>[1] = m
        OBVIOUS
      <4>3. <<m>> # <<>> /\ \A i \in 2..1 : FALSE
        OBVIOUS
      <4> HIDE DEF m
      <4> QED  BY <4>1, <4>2, <4>3, <1>2 DEF Ready
    <3> HIDE DEF q
    <3> QED  BY <2>1, <3>1, <3>2, <3>4, <3>6 DEF Greeting, Ends
  <2>2. CASE d # c
    <3>1. \A r \in Ends(d) : chan'[d][r] = chan[d][r]
      BY <1>3, <2>2
    <3>2. Greeting(d) \/ \A r \in Ends(d) : Ready(chan[d][r], end[d][r])
      BY DEF Copies, HandInv
    <3>3. Greeting(d) => Greeting(d)'
      BY <3>1, <1>1 DEF Greeting, Ends
    <3> QED  BY <3>1, <3>2, <3>3
  <2> QED  BY <2>1, <2>2
<1>7. CopyInv'
  <2> SUFFICES ASSUME NEW d \in Conns, NEW r \in Ends(d), end[d][r] \in Alive,
                      end[d][Peer(d, r)] = "setup"
               PROVE  Leads(chan'[d][r], tables[r][Peer(d, r)],
                            tables[Peer(d, r)][Peer(d, r)])
    BY <1>1 DEF CopyInv
  <2>1. d # c
    <3>1. ASSUME d = c  PROVE FALSE
      <4>1. Ends(c) = {r, Peer(c, r)}
        BY <3>1
      <4>2. end[c][c.lo] \in Alive /\ end[c][c.hi] \in Alive
        BY <3>1, <4>1 DEF Ends, Alive
      <4>3. Greeting(c)
        BY <4>2, <1>5
      <4> QED  BY <4>1, <4>3, <3>1 DEF Greeting, Ends
    <3> QED  BY <3>1
  <2>2. chan'[d][r] = chan[d][r]
    BY <2>1, <1>3
  <2> QED  BY <2>2 DEF Copies, CopyInv
<1> QED  BY <1>6, <1>7 DEF Copies

\* An end is set up, and what it sends first is its table.
LEMMA SetupCopies ==
    ASSUME IInv, Copies, NEW c \in Conns, NEW s \in Ends(c), SetupPeerServer(c, s)
    PROVE  Copies'
<1> USE ConnFacts
<1> DEFINE m == [action |-> "table", table |-> tables[s][s]]
           q == chan[c][s]
           p == Peer(c, s)
           sets == end[c][s] # "setup"
<1>1. /\ Reads(c, s, "info") /\ tables' = tables
      /\ ~sets => chan' = Taken(c, s) /\ end' = end
      /\ sets => /\ end' = [end EXCEPT ![c][s] = "setup"]
                 /\ chan' = SendOn(Taken(c, s), c, s, m)
  BY DEF SetupPeerServer, ReadInfo
<1>2. m.action = "table" /\ m.table = tables[s][s]
  OBVIOUS
<1> HIDE DEF m
<1>3. \A d \in Conns : \A r \in Ends(d) :
         chan'[d][r] = IF d = c /\ r = s THEN Tail(q)
                       ELSE IF d = c /\ end[c][r] \in Alive /\ sets
                            THEN Append(chan[d][r], m)
                       ELSE chan[d][r]
  <2>1. CASE sets
    BY <1>1, <2>1, AnswerFacts
  <2>2. CASE ~sets
    BY <1>1, <2>2, TakenFacts
  <2> QED  BY <2>1, <2>2
<1>4. \A d \in Conns : \A r \in Servers :
         end'[d][r] = IF d = c /\ r = s THEN "setup" ELSE end[d][r]
  BY <1>1 DEF IInv, LinkInv, LinkTypeOK
<1>5. /\ q # <<>> /\ IsSeq(q) /\ Head(q).action = "info" /\ end[c][s] \in Alive
      /\ s \in Servers /\ p \in Servers /\ p # s /\ p \in Ends(c) /\ Peer(c, p) = s
      /\ IsSeq(chan[c][p]) /\ Ends(c) = {s, p}
  <2>1. s \in Servers /\ p \in Servers /\ p # s /\ p \in Ends(c) /\ Ends(c) = {s, p}
    OBVIOUS
  <2>2. Peer(c, p) = s
    BY <2>1
  <2> QED  BY <2>1, <2>2, <1>1, TakenFacts DEF IInv, ChanInv
\* When the other end is up, this end is set up now and had sent no table.
<1>6. ASSUME end[c][p] \in Alive
      PROVE  /\ sets /\ Ready(Tail(q), "setup") /\ Ready(chan[c][p], end[c][p])
             /\ \A i \in 1..Len(chan[c][p]) : chan[c][p][i].action \notin Data
  <2>1. end[c][c.lo] \in Alive /\ end[c][c.hi] \in Alive
    BY <1>5, <1>6 DEF Ends
  <2>2. ~Greeting(c)
    <3>1. ASSUME Greeting(c)  PROVE FALSE
      <4>1. q = chan[c][c.lo]
        BY <3>1, <1>5 DEF Greeting, Ends
      <4>2. q[1].action = "confirm"
        BY <3>1, <4>1 DEF Greeting
      <4> QED  BY <4>2, <1>5, TailOfSeq
    <3> QED  BY <3>1
  <2>3. \A r \in Ends(c) : Ready(chan[c][r], end[c][r])
    BY <2>1, <2>2 DEF Copies, HandInv
  <2>4. sets /\ Ready(Tail(q), "setup")
    BY <2>3, <1>5, ReadyTail
  <2>5. end[c][Peer(c, p)] \in {"none", "open"}
    BY <2>4, <1>5 DEF Alive
  <2>6. TableFirst(chan[c][p], end[c][Peer(c, p)], tables[p][Peer(c, p)])
    BY <1>5, <1>6 DEF IInv, ChanInv
  <2> QED  BY <2>3, <2>4, <2>5, <2>6, <1>5 DEF TableFirst
<1>7. HandInv'
  <2> SUFFICES ASSUME NEW d \in Conns, end'[d][d.lo] \in Alive, end'[d][d.hi] \in Alive
               PROVE  Greeting(d)' \/ \A r \in Ends(d) : Ready(chan'[d][r], end'[d][r])
    BY DEF HandInv
  <2>1. CASE d = c
    <3>1. end[c][p] \in Alive
      BY <2>1, <1>4, <1>5 DEF Ends
    <3>2. chan'[c][s] = Tail(q) /\ chan'[c][p] = Append(chan[c][p], m)
      BY <3>1, <1>3, <1>5, <1>6
    <3>3. end'[c][s] = "setup" /\ end'[c][p] = end[c][p]
      BY <1>4, <1>5
    <3>4. Ready(Append(chan[c][p], m), end[c][p])
      BY <3>1, <1>2, <1>5, <1>6, ReadyAppend DEF Data
    <3> HIDE DEF q, p
    <3> QED  BY <2>1, <3>1, <3>2, <3>3, <3>4, <1>5, <1>6
  <2>2. CASE d # c
    <3>1. \A r \in Ends(d) : chan'[d][r] = chan[d][r] /\ end'[d][r] = end[d][r]
      BY <1>3, <1>4, <2>2
    <3>2. Greeting(d) \/ \A r \in Ends(d) : Ready(chan[d][r], end[d][r])
      BY <3>1 DEF Copies, HandInv, Ends
    <3>3. Greeting(d) => Greeting(d)'
      BY <3>1 DEF Greeting, Ends
    <3> QED  BY <3>1, <3>2, <3>3
  <2> QED  BY <2>1, <2>2
<1>8. CopyInv'
  <2> SUFFICES ASSUME NEW d \in Conns, NEW r \in Ends(d), end'[d][r] \in Alive,
                      end'[d][Peer(d, r)] = "setup"
               PROVE  Leads(chan'[d][r], tables[r][Peer(d, r)],
                            tables[Peer(d, r)][Peer(d, r)])
    BY <1>1 DEF CopyInv
  <2>1. CASE d = c /\ r = s
    <3>1. end[c][p] = "setup"
      BY <2>1, <1>4, <1>5
    <3>2. Leads(q, tables[s][p], tables[p][p])
      BY <3>1, <1>5 DEF Copies, CopyInv
    <3>3. After(tables[s][p], Head(q)) = tables[s][p]
      BY <1>5 DEF After
    <3>4. Leads(Tail(q), tables[s][p], tables[p][p])
      BY <3>2, <3>3, <1>5, LeadsTail
    <3> QED  BY <2>1, <3>4, <1>3
  <2>2. CASE d = c /\ r = p
    <3>1. end[c][p] \in Alive
      BY <2>2, <1>4, <1>5
    <3>2. chan'[c][p] = Append(chan[c][p], m)
      BY <3>1, <1>3, <1>5, <1>6
    <3>3. Leads(Append(chan[c][p], m), tables[p][s], m.table)
      BY <3>1, <1>2, <1>5, <1>6, LeadsTable
    <3> QED  BY <2>2, <3>2, <3>3, <1>2, <1>5
  <2>3. CASE d # c
    <3>1. chan'[d][r] = chan[d][r] /\ end[d][r] \in Alive /\ end[d][Peer(d, r)] = "setup"
      BY <2>3, <1>3, <1>4
    <3> QED  BY <3>1 DEF Copies, CopyInv
  <2> QED  BY <2>1, <2>2, <2>3, <1>5
<1> QED  BY <1>7, <1>8 DEF Copies

\* A connection begins with a greeting.
LEMMA OpenCopies ==
    ASSUME IInv, Copies, NEW c \in Conns, Open(c)
    PROVE  Copies'
<1> USE ConnFacts
<1> DEFINE hello == <<[action |-> "confirm"], [action |-> "info"]>>
<1>1. /\ end[c][c.lo] = "none" /\ end[c][c.hi] = "none" /\ tables' = tables
      /\ chan' = [chan EXCEPT ![c][c.lo] = hello]
      /\ end' = [end EXCEPT ![c] = [s \in Servers |->
                    IF s \in Ends(c) THEN "open" ELSE "none"]]
  BY DEF Open, Connect, IInv, LinkInv, BegunAtBoth
<1>2. Len(hello) = 2 /\ hello[1].action = "confirm" /\ hello[2].action = "info"
  OBVIOUS
<1> HIDE DEF hello
<1>3. /\ \A d \in Conns : \A r \in Servers :
            /\ chan'[d][r] = IF d = c /\ r = c.lo THEN hello ELSE chan[d][r]
            /\ d # c => end'[d][r] = end[d][r]
      /\ \A r \in Ends(c) : end'[c][r] = "open"
  BY <1>1 DEF IInv, Shapes, LinkInv, LinkTypeOK
<1>4. HandInv'
  <2> SUFFICES ASSUME NEW d \in Conns, end'[d][d.lo] \in Alive, end'[d][d.hi] \in Alive
               PROVE  Greeting(d)' \/ \A r \in Ends(d) : Ready(chan'[d][r], end'[d][r])
    BY DEF HandInv
  <2>1. CASE d = c
    <3>1. chan[c][c.hi] = <<>>
      BY <1>1 DEF IInv, ChanInv, Alive, Ends
    <3> QED  BY <2>1, <3>1, <1>2, <1>3 DEF Greeting, Ends
  <2>2. CASE d # c
    <3>1. \A r \in Ends(d) : chan'[d][r] = chan[d][r] /\ end'[d][r] = end[d][r]
      BY <1>3, <2>2
    <3>2. Greeting(d) \/ \A r \in Ends(d) : Ready(chan[d][r], end[d][r])
      BY <3>1 DEF Copies, HandInv, Ends
    <3>3. Greeting(d) => Greeting(d)'
      BY <3>1 DEF Greeting, Ends
    <3> QED  BY <3>1, <3>2, <3>3
  <2> QED  BY <2>1, <2>2
<1>5. CopyInv'
  <2> SUFFICES ASSUME NEW d \in Conns, NEW r \in Ends(d), end'[d][r] \in Alive,
                      end'[d][Peer(d, r)] = "setup"
               PROVE  Leads(chan'[d][r], tables[r][Peer(d, r)],
                            tables[Peer(d, r)][Peer(d, r)])
    BY <1>1 DEF CopyInv
  <2>1. d # c
    BY <1>3
  <2>2. chan'[d][r] = chan[d][r] /\ end[d][r] \in Alive /\ end[d][Peer(d, r)] = "setup"
    BY <2>1, <1>3
  <2> QED  BY <2>2 DEF Copies, CopyInv
<1> QED  BY <1>4, <1>5 DEF Copies

\* Ends close.  A step that closes ends of some connections, and touches neither
\* the channels of the others nor the tables that are copied over them.
LEMMA ClosingCopies ==
    ASSUME Copies,
           \A d \in Conns : \A r \in Servers : end'[d][r] \in {end[d][r], "closed"},
           \A d \in Conns : \A r \in Ends(d) :
              end'[d][r] \in Alive /\ end'[d][Peer(d, r)] \in Alive =>
                 /\ chan'[d][r] = chan[d][r]
                 /\ tables'[r][Peer(d, r)] = tables[r][Peer(d, r)]
                 /\ tables'[Peer(d, r)][Peer(d, r)] = tables[Peer(d, r)][Peer(d, r)]
    PROVE  Copies'
<1> USE ConnFacts
<1>1. \A d \in Conns : \A r \in Servers : end'[d][r] \in Alive => end'[d][r] = end[d][r]
  BY DEF Alive
<1>2. HandInv'
  <2> SUFFICES ASSUME NEW d \in Conns, end'[d][d.lo] \in Alive, end'[d][d.hi] \in Alive
               PROVE  Greeting(d)' \/ \A r \in Ends(d) : Ready(chan'[d][r], end'[d][r])
    BY DEF HandInv
  <2>1. \A r \in Ends(d) : end'[d][r] \in Alive /\ end'[d][Peer(d, r)] \in Alive
    BY DEF Ends
  <2>2. \A r \in Ends(d) : chan'[d][r] = chan[d][r] /\ end'[d][r] = end[d][r]
    BY <2>1, <1>1
  <2>3. Greeting(d) \/ \A r \in Ends(d) : Ready(chan[d][r], end[d][r])
    BY <2>2 DEF Copies, HandInv, Ends
  <2>4. Greeting(d) => Greeting(d)'
    BY <2>2 DEF Greeting, Ends
  <2> QED  BY <2>2, <2>3, <2>4
<1>3. CopyInv'
  <2> SUFFICES ASSUME NEW d \in Conns, NEW r \in Ends(d), end'[d][r] \in Alive,
                      end'[d][Peer(d, r)] = "setup"
               PROVE  Leads(chan'[d][r], tables'[r][Peer(d, r)],
                            tables'[Peer(d, r)][Peer(d, r)])
    BY DEF CopyInv
  <2>1. end'[d][Peer(d, r)] \in Alive
    BY DEF Alive
  <2>2. end[d][r] \in Alive /\ end[d][Peer(d, r)] = "setup"
    BY <2>1, <1>1
  <2>3. Leads(chan[d][r], tables[r][Peer(d, r)], tables[Peer(d, r)][Peer(d, r)])
    BY <2>2 DEF Copies, CopyInv
  <2> QED  BY <2>1, <2>3
<1> QED  BY <1>2, <1>3 DEF Copies

LEMMA CloseCopies ==
    ASSUME IInv, ~Overlap, Copies, NEW c \in Conns, NEW s \in Ends(c), Close(c, s)
    PROVE  Copies'
<1> USE ConnFacts
<1> DEFINE p == Peer(c, s)
<1>1. /\ end[c][s] \in Alive
      /\ end' = [end EXCEPT ![c][s] = "closed"] /\ chan' = [chan EXCEPT ![c][s] = <<>>]
      /\ \/ Update(s, p, NoTable, DOMAIN tables[s][p])
         \/ tables' = tables
  BY DEF Close, LinkClose, ForgetPeer
<1>2. \A d \in Conns : \A r \in Servers :
         /\ chan'[d][r] = IF d = c /\ r = s THEN <<>> ELSE chan[d][r]
         /\ end'[d][r] = IF d = c /\ r = s THEN "closed" ELSE end[d][r]
  BY <1>1 DEF IInv, Shapes, LinkInv, LinkTypeOK
<1>3. \A r, o \in Servers : ~(r = s /\ o = p) => tables'[r][o] = tables[r][o]
  BY <1>1 DEF Update, IInv, Shapes
<1>4. ASSUME NEW d \in Conns, NEW r \in Ends(d), end'[d][r] \in Alive,
             end'[d][Peer(d, r)] \in Alive
      PROVE  /\ chan'[d][r] = chan[d][r]
             /\ tables'[r][Peer(d, r)] = tables[r][Peer(d, r)]
             /\ tables'[Peer(d, r)][Peer(d, r)] = tables[Peer(d, r)][Peer(d, r)]
  <2>1. r # Peer(d, r) /\ r \in Servers /\ Peer(d, r) \in Servers /\ Ends(d) = {r, Peer(d, r)}
    OBVIOUS
  <2>2. d # c
    <3>1. ASSUME d = c  PROVE FALSE
      <4>1. s = r \/ s = Peer(d, r)
        BY <3>1, <2>1
      <4> QED  BY <4>1, <3>1, <1>2, <2>1, <1>4 DEF Alive
    <3> QED  BY <3>1
  <2>3. end[d][r] \in Alive /\ chan'[d][r] = chan[d][r]
    BY <2>1, <2>2, <1>2, <1>4
  <2>4. ~(r = s /\ Peer(d, r) = p)
    BY <2>2, <2>3, <1>1, NoOther
  <2>5. ~(Peer(d, r) = s /\ Peer(d, r) = p)
    OBVIOUS
  <2> QED  BY <2>1, <2>3, <2>4, <2>5, <1>3
<1>5. \A d \in Conns : \A r \in Servers : end'[d][r] \in {end[d][r], "closed"}
  BY <1>2
<1> QED  BY <1>4, <1>5, ClosingCopies

LEMMA RestartCopies ==
    ASSUME IInv, Copies, NEW s \in Servers, Restart(s)
    PROVE  Copies'
<1> USE ConnFacts
<1>1. /\ LinkRestart(s)
      /\ tables' = [tables EXCEPT ![s] = [p \in Servers |-> NoTable]]
  BY DEF Restart
<1>2. \A d \in Conns : \A r \in Servers :
         /\ chan'[d][r] = IF r = s THEN <<>> ELSE chan[d][r]
         /\ end'[d][r] = IF r = s /\ end[d][r] \in Alive THEN "closed" ELSE end[d][r]
  BY <1>1 DEF LinkRestart, IInv, Shapes, LinkInv, LinkTypeOK
<1>3. \A r \in Servers : r # s => tables'[r] = tables[r]
  BY <1>1 DEF IInv, Shapes
<1>4. ASSUME NEW d \in Conns, NEW r \in Ends(d), end'[d][r] \in Alive,
             end'[d][Peer(d, r)] \in Alive
      PROVE  /\ chan'[d][r] = chan[d][r]
             /\ tables'[r][Peer(d, r)] = tables[r][Peer(d, r)]
             /\ tables'[Peer(d, r)][Peer(d, r)] = tables[Peer(d, r)][Peer(d, r)]
  <2>1. r # s /\ Peer(d, r) # s
    BY <1>2, <1>4 DEF Alive
  <2> QED  BY <2>1, <1>2, <1>3
<1>5. \A d \in Conns : \A r \in Servers : end'[d][r] \in {end[d][r], "closed"}
  BY <1>2
<1> QED  BY <1>4, <1>5, ClosingCopies

\* Every step keeps it.
LEMMA NextCopies == ASSUME ~Overlap  PROVE IInv /\ Copies /\ [Next]_vars => Copies'
<1> SUFFICES ASSUME IInv, Copies, [Next]_vars  PROVE Copies'
  OBVIOUS
<1> USE ConnFacts
<1>1. ASSUME NEW s \in Servers, NEW n \in Nodes, NEW t \in Kinds, NEW pw \in Reports,
             LocalSet(s, n, t, pw)
      PROVE  Copies'
  <2> DEFINE m == [action |-> "set", node |-> n, type |-> t, power |-> pw]
  <2>1. Merged(s, s)
    BY <1>1, SetMerges DEF LocalSet, IInv
  <2>2. chan' = Dispatch(s, m) /\ UNCHANGED <<peerServers, end>>
    BY <1>1 DEF LocalSet
  <2>3. tables'[s][s] = Put(tables[s][s], n, SetConn(Lookup(tables[s][s], n), t, pw))
    BY <1>1, SetTable DEF LocalSet, IInv
  <2>4. After(tables[s][s], m) = Put(tables[s][s], n, SetConn(Lookup(tables[s][s], n), t, pw))
    BY DEF After
  <2>5. m.action \in {"set", "clear"}
    OBVIOUS
  <2> HIDE DEF m
  <2> QED  BY <2>1, <2>2, <2>3, <2>4, <2>5, LocalCopies
<1>2. ASSUME NEW s \in Servers, NEW n \in Nodes, NEW t \in Kinds, LocalClear(s, n, t)
      PROVE  Copies'
  <2> DEFINE m == [action |-> "clear", node |-> n, type |-> t]
  <2>1. Merged(s, s)
    BY <1>2, ClearMerges DEF LocalClear, IInv
  <2>2. chan' = Dispatch(s, m) /\ UNCHANGED <<peerServers, end>>
    BY <1>2 DEF LocalClear
  <2>3. tables'[s][s] = Cleared(tables[s][s], n, t)
    BY <1>2, ClearTable DEF LocalClear, IInv
  <2>4. After(tables[s][s], m) = Cleared(tables[s][s], n, t)
    BY DEF After, Cleared
  <2>5. m.action \in {"set", "clear"}
    OBVIOUS
  <2> HIDE DEF m
  <2> QED  BY <2>1, <2>2, <2>3, <2>4, <2>5, LocalCopies
<1>3. ASSUME NEW c \in Conns, Open(c)  PROVE Copies'
  BY <1>3, OpenCopies
<1>4. ASSUME NEW c \in Conns, NEW s \in Ends(c), Confirmed(c, s)  PROVE Copies'
  BY <1>4, ConfirmedCopies
<1>5. ASSUME NEW c \in Conns, NEW s \in Ends(c), SetupPeerServer(c, s)  PROVE Copies'
  BY <1>5, SetupCopies
<1>6. ASSUME NEW c \in Conns, NEW s \in Ends(c), ReadTable(c, s)  PROVE Copies'
  <2> DEFINE p == Peer(c, s)
             tb == Head(chan[c][s]).table
  <2>1. /\ Reads(c, s, "table") /\ ReadData(c, s) /\ "table" \in Data
        /\ Head(chan[c][s]).action = "table"
    BY <1>6 DEF ReadTable, Data, Reads
  <2>2. Merged(s, p)
    BY <1>6, TableMerges
  <2>3. ASSUME end[c][s] = "setup"
        PROVE  tables'[s][p] = After(tables[s][p], Head(chan[c][s]))
    <3>1. Update(s, p, tb, DOMAIN tb)
      BY <1>6, <2>3 DEF ReadTable
    <3>2. tables'[s][p] = tb
      BY <3>1 DEF Update, IInv, Shapes
    <3> QED  BY <3>2, <2>1 DEF After
  <2> QED  BY <2>1, <2>2, <2>3, DataReadCopies
<1>7. ASSUME NEW c \in Conns, NEW s \in Ends(c), ReadSet(c, s)  PROVE Copies'
  <2> DEFINE m == Head(chan[c][s])
             p == Peer(c, s)
  <2>1. Reads(c, s, "set") /\ ReadData(c, s) /\ "set" \in Data /\ m.action = "set"
    BY <1>7 DEF ReadSet, Data, Reads
  <2>2. CASE end[c][s] = "setup"
    <3>1. SetState(s, p, m.node, m.type, m.power)
      BY <1>7, <2>2 DEF ReadSet
    <3>2. Merged(s, p)
      BY <3>1, SetMerges DEF IInv
    <3>3. tables'[s][p] = Put(tables[s][p], m.node,
                              SetConn(Lookup(tables[s][p], m.node), m.type, m.power))
      BY <3>1, SetTable DEF IInv
    <3>4. tables'[s][p] = After(tables[s][p], m)
      BY <3>3, <2>1 DEF After
    <3> QED  BY <2>1, <3>2, <3>4, DataReadCopies
  <2>3. CASE end[c][s] # "setup"
    <3>1. tables' = tables /\ view' = view
      BY <1>7, <2>3 DEF ReadSet
    <3>2. Merged(s, p)
      BY <3>1 DEF Merged, IInv, Shapes, ViewIsMerged
    <3> QED  BY <2>1, <2>3, <3>2, DataReadCopies
  <2> QED  BY <2>2, <2>3
<1>8. ASSUME NEW c \in Conns, NEW s \in Ends(c), ReadClear(c, s)  PROVE Copies'
  <2> DEFINE m == Head(chan[c][s])
             p == Peer(c, s)
  <2>1. Reads(c, s, "clear") /\ ReadData(c, s) /\ "clear" \in Data /\ m.action = "clear"
    BY <1>8 DEF ReadClear, Data, Reads
  <2>2. CASE end[c][s] = "setup"
    <3>1. ClearState(s, p, m.node, m.type)
      BY <1>8, <2>2 DEF ReadClear
    <3>2. Merged(s, p)
      BY <3>1, ClearMerges DEF IInv
    <3>3. tables'[s][p] = Cleared(tables[s][p], m.node, m.type)
      BY <3>1, ClearTable DEF IInv
    <3>4. tables'[s][p] = After(tables[s][p], m)
      BY <3>3, <2>1 DEF After, Cleared
    <3> QED  BY <2>1, <3>2, <3>4, DataReadCopies
  <2>3. CASE end[c][s] # "setup"
    <3>1. tables' = tables /\ view' = view
      BY <1>8, <2>3 DEF ReadClear
    <3>2. Merged(s, p)
      BY <3>1 DEF Merged, IInv, Shapes, ViewIsMerged
    <3> QED  BY <2>1, <2>3, <3>2, DataReadCopies
  <2> QED  BY <2>2, <2>3
<1>9. ASSUME NEW c \in Conns, NEW s \in Ends(c), Close(c, s)  PROVE Copies'
  BY <1>9, CloseCopies
<1>10. ASSUME NEW s \in Servers, Restart(s)  PROVE Copies'
  BY <1>10, RestartCopies
<1>11. CASE UNCHANGED vars
  <2>1. end' = end /\ chan' = chan /\ tables' = tables
    BY <1>11 DEF vars, linkVars
  <2> QED  BY <2>1 DEF Copies, HandInv, Greeting, CopyInv
<1> QED  BY <1>1, <1>2, <1>3, <1>4, <1>5, <1>6, <1>7, <1>8, <1>9, <1>10, <1>11 DEF Next

\* While a connection is in use at both ends and nothing is on its way, the copy
\* of the peer's table is the peer's table, unless connections overlap.
THEOREM CopiesAlwaysAgree == ASSUME ~Overlap  PROVE Spec => []CopyAgrees
<1>1. Init => Copies
  <2>1. Init => \A c \in Conns : \A s \in Ends(c) : end[c][s] = "none"
    BY ConnFacts DEF Init, LinkInit
  <2> QED  BY <2>1, ConnFacts DEF Copies, HandInv, CopyInv, Alive, Ends
<1>2. IInv /\ [Next]_vars => IInv'
  BY NextInv
<1>3. IInv /\ Copies /\ [Next]_vars => Copies'
  BY NextCopies
<1>4. IInv /\ Copies => CopyAgrees
  <2> SUFFICES ASSUME IInv, Copies, NEW s \in Servers, NEW p \in Servers,
                      peerServers[s][p] # NoConn, peerServers[s][p] = peerServers[p][s],
                      chan[peerServers[s][p]][s] = <<>>
               PROVE  tables[s][p] = tables[p][p]
    BY DEF CopyAgrees
  <2> DEFINE c == peerServers[s][p]
  <2>1. /\ c \in Conns /\ s # p /\ Ends(c) = {s, p}
        /\ end[c][s] = "setup" /\ end[c][p] = "setup" /\ chan[c][s] = <<>>
    BY ListedFacts DEF IInv
  <2> HIDE DEF c
  <2>2. s \in Ends(c) /\ Peer(c, s) = p
    BY <2>1, ConnFacts
  <2>3. Leads(<<>>, tables[s][p], tables[p][p])
    BY <2>1, <2>2 DEF Copies, CopyInv, Alive
  <2> QED  BY <2>3, LeadsNowhere
<1> QED  BY InitInv, <1>1, <1>2, <1>3, <1>4, PTL DEF Spec
=============================================================================
