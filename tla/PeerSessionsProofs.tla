------------------------- MODULE PeerSessionsProofs -------------------------
(***************************************************************************)
(* Proofs about PeerSessions for any number of servers, users, sessions    *)
(* and connections: the sessions of a user are counted right although one  *)
(* count at a time is made again, and, as long as a connection is not      *)
(* opened while the other end still holds the previous one, the three      *)
(* tables of the peers' sessions agree.                                    *)
(***************************************************************************)
EXTENDS PeerSessions, PeerLinksInv, FiniteSetTheorems, TLAPS

Seqs == INSTANCE SequenceTheorems

-----------------------------------------------------------------------------
(***************************************************************************)
(* The connections between the servers.                                    *)
(***************************************************************************)

\* Taking a message from a channel, and putting one into it.
LEMMA TailOfSeq ==
    ASSUME NEW q, IsSeq(q), q # <<>>
    PROVE  /\ IsSeq(Tail(q)) /\ Len(q) \in Nat \ {0} /\ Len(Tail(q)) = Len(q) - 1
           /\ Head(q) = q[1]
           /\ \A i \in 1..Len(Tail(q)) : Tail(q)[i] = q[i + 1]
<1>1. PICK M : q \in Seq(M)
  BY DEF IsSeq
<1>2. /\ Tail(q) \in Seq(M) /\ Len(Tail(q)) = Len(q) - 1
      /\ \A i \in 1..Len(Tail(q)) : Tail(q)[i] = q[i + 1]
  BY <1>1, Seqs!HeadTailProperties
<1>3. Len(q) \in Nat \ {0} /\ Head(q) = q[1]
  BY <1>1
<1> QED  BY <1>2, <1>3 DEF IsSeq

LEMMA AppendToSeq ==
    ASSUME NEW q, IsSeq(q), NEW m
    PROVE  /\ IsSeq(Append(q, m)) /\ Len(q) \in Nat /\ Len(Append(q, m)) = Len(q) + 1
           /\ \A i \in 1..Len(q) : Append(q, m)[i] = q[i]
           /\ Append(q, m)[Len(q) + 1] = m
<1>1. PICK M : q \in Seq(M)
  BY DEF IsSeq
<1>2. q \in Seq(M \cup {m}) /\ m \in M \cup {m}
  BY <1>1, Seqs!SeqMonotonic
<1>3. Append(q, m) \in Seq(M \cup {m})
  BY <1>2
<1> QED  BY <1>2, <1>3 DEF IsSeq

LEMMA ConcatOfSeqs ==
    ASSUME NEW q, IsSeq(q), NEW w, IsSeq(w)
    PROVE  /\ IsSeq(q \o w) /\ Len(q) \in Nat /\ Len(w) \in Nat
           /\ Len(q \o w) = Len(q) + Len(w)
           /\ \A i \in 1..Len(q) : (q \o w)[i] = q[i]
           /\ \A i \in 1..Len(q \o w) : i \notin 1..Len(q) =>
                 i - Len(q) \in 1..Len(w) /\ (q \o w)[i] = w[i - Len(q)]
<1>1. PICK M : q \in Seq(M)
  BY DEF IsSeq
<1>2. PICK N : w \in Seq(N)
  BY DEF IsSeq
<1>3. q \in Seq(M \cup N) /\ w \in Seq(M \cup N)
  BY <1>1, <1>2, Seqs!SeqMonotonic
<1>4. /\ q \o w \in Seq(M \cup N) /\ Len(q \o w) = Len(q) + Len(w)
      /\ \A i \in 1..(Len(q) + Len(w)) :
            (q \o w)[i] = IF i <= Len(q) THEN q[i] ELSE w[i - Len(q)]
  BY <1>3, Seqs!ConcatProperties
<1>5. Len(q) \in Nat /\ Len(w) \in Nat
  BY <1>3
<1> QED  BY <1>4, <1>5 DEF IsSeq

LEMMA EmptyIsSeq == IsSeq(<<>>) /\ Len(<<>>) = 0
  BY DEF IsSeq

-----------------------------------------------------------------------------
\* The two ends of a connection.
LEMMA ConnFacts ==
    /\ NoConn \notin Conns
    /\ \A c \in Conns :
          /\ c.lo \in Servers /\ c.hi \in Servers /\ c.lo # c.hi /\ c.n \in 1..MaxConns
          /\ c = [lo |-> c.lo, hi |-> c.hi, n |-> c.n] /\ c.lo < c.hi
          /\ \A s \in Ends(c) : /\ s \in Servers /\ Peer(c, s) \in Servers
                                /\ s # Peer(c, s) /\ Ends(c) = {s, Peer(c, s)}
<1>1. NoConn \notin Conns
  BY PeerAssumption DEF NoConn, Conns
<1>2. ASSUME NEW c \in Conns
      PROVE  /\ c.lo \in Servers /\ c.hi \in Servers /\ c.lo # c.hi /\ c.n \in 1..MaxConns
             /\ c = [lo |-> c.lo, hi |-> c.hi, n |-> c.n] /\ c.lo < c.hi
  <2>1. /\ c.lo \in Servers /\ c.hi \in Servers /\ c.n \in 1..MaxConns /\ c.lo < c.hi
        /\ c = [lo |-> c.lo, hi |-> c.hi, n |-> c.n]
    BY DEF Conns
  <2>2. c.lo # c.hi
    BY <2>1, PeerAssumption
  <2> QED  BY <2>1, <2>2
<1>3. ASSUME NEW c \in Conns, NEW s \in Ends(c)
      PROVE  /\ s \in Servers /\ Peer(c, s) \in Servers
             /\ s # Peer(c, s) /\ Ends(c) = {s, Peer(c, s)}
  BY <1>2 DEF Ends, Peer
<1> QED  BY <1>1, <1>2, <1>3

\* Two connections of the same two servers differ in their number.
LEMMA SameEnds ==
    ASSUME NEW c \in Conns, NEW d \in Conns, Ends(c) = Ends(d), c # d
    PROVE  c.lo = d.lo /\ c.hi = d.hi /\ (c.n < d.n \/ d.n < c.n)
<1>1. c.lo = d.lo /\ c.hi = d.hi
  BY ConnFacts, PeerAssumption DEF Ends
<1>2. c.n # d.n
  BY <1>1, ConnFacts
<1> QED  BY <1>1, <1>2, ConnFacts

\* While connections do not overlap, two servers have one that is not closed.
LEMMA OneAlive ==
    ASSUME LinkInv, ~Overlap, NEW c \in Conns, NEW d \in Conns,
           NEW s \in Ends(c), NEW r \in Ends(d),
           Ends(c) = Ends(d), end[c][s] \in Alive, end[d][r] \in Alive
    PROVE  c = d
<1> SUFFICES ASSUME c # d  PROVE FALSE
  OBVIOUS
<1>1. /\ c.lo = d.lo /\ c.hi = d.hi /\ (c.n < d.n \/ d.n < c.n)
      /\ s \in {c.lo, c.hi} /\ r \in {d.lo, d.hi}
  BY SameEnds DEF Ends
<1>2. end[c][c.lo] # "none" /\ end[d][d.lo] # "none"
  BY <1>1 DEF LinkInv, BegunAtBoth, Alive
<1>3. CASE c.n < d.n
  BY <1>1, <1>2, <1>3 DEF LinkInv, Successive, Alive
<1>4. CASE d.n < c.n
  BY <1>1, <1>2, <1>4 DEF LinkInv, Successive, Alive
<1> QED  BY <1>1, <1>3, <1>4

\* What is on the list of connected servers.
LEMMA ListedFacts ==
    ASSUME LinkInv, NEW s \in Servers, NEW p \in Servers, peerServers[s][p] # NoConn
    PROVE  /\ peerServers[s][p] \in Conns /\ s # p
           /\ Ends(peerServers[s][p]) = {s, p} /\ end[peerServers[s][p]][s] = "setup"
<1>1. peerServers[s][p] \in Conns
  BY DEF LinkInv, LinkTypeOK
<1>2. /\ s # p /\ Ends(peerServers[s][p]) = {s, p}
      /\ end[peerServers[s][p]][s] = "setup"
  BY DEF LinkInv, ListedIsSetup
<1> QED  BY <1>1, <1>2

\* At first no connection is begun and none listed.
LEMMA LinkInitInv == LinkInit => LinkInv
<1> SUFFICES ASSUME LinkInit  PROVE LinkInv
  OBVIOUS
<1>1. \A c \in Conns : \A s \in Servers : end[c][s] = "none"
  BY DEF LinkInit
<1>2. \A s, p \in Servers : peerServers[s][p] = NoConn
  BY DEF LinkInit
<1>3. LinkTypeOK
  BY DEF LinkInit, LinkTypeOK, EndStates
<1>4. BegunAtBoth /\ Successive /\ SetupIsListed
  BY <1>1, ConnFacts DEF BegunAtBoth, Successive, SetupIsListed
<1>5. ListedIsSetup
  BY <1>2 DEF ListedIsSetup
<1> QED  BY <1>3, <1>4, <1>5 DEF LinkInv

-----------------------------------------------------------------------------
\* A connection begins.
LEMMA BeginsStep ==
    ASSUME LinkInv, NEW c \in Conns, Begins(c)
    PROVE  LinkInv'
<1> USE ConnFacts
<1>1. /\ end[c][c.lo] = "none" /\ end[c][c.hi] = "none" /\ peerServers' = peerServers
      /\ \A d \in Conns : \A s \in Servers :
            end'[d][s] = IF d = c THEN (IF s \in Ends(c) THEN "open" ELSE "none")
                         ELSE end[d][s]
  BY DEF Begins, LinkInv, LinkTypeOK, BegunAtBoth
<1>2. LinkTypeOK'
  BY DEF Begins, LinkInv, LinkTypeOK, EndStates
<1>3. BegunAtBoth'
  BY <1>1 DEF LinkInv, BegunAtBoth, Ends
<1>4. ListedIsSetup'
  <2>1. \A s \in Ends(c) : end[c][s] # "setup"
    BY <1>1 DEF Ends
  <2> SUFFICES ASSUME NEW s \in Servers, NEW p \in Servers, peerServers[s][p] # NoConn
               PROVE  /\ s # p /\ Ends(peerServers[s][p]) = {s, p}
                      /\ end'[peerServers[s][p]][s] = "setup"
    BY <1>1 DEF ListedIsSetup
  <2>2. /\ peerServers[s][p] \in Conns /\ s # p
        /\ Ends(peerServers[s][p]) = {s, p} /\ end[peerServers[s][p]][s] = "setup"
    BY ListedFacts
  <2>3. peerServers[s][p] # c
    BY <2>1, <2>2
  <2> QED  BY <1>1, <2>2, <2>3
<1>5. ASSUME ~Overlap  PROVE Successive' /\ SetupIsListed'
  <2>1. SetupIsListed'
    BY <1>1, <1>5 DEF LinkInv, SetupIsListed
  <2>2. ASSUME NEW e \in Conns, NEW d \in Conns, e.lo = d.lo, e.hi = d.hi, d.n < e.n,
               end'[e][e.lo] # "none"
        PROVE  end'[d][d.lo] = "closed" /\ end'[d][d.hi] = "closed"
    <3>1. CASE e = c
      <4>1. d # c
        BY <2>2, <3>1
      <4>2. end[d][d.lo] = "closed" /\ end[d][d.hi] = "closed"
        BY <1>5, <2>2, <3>1 DEF Begins
      <4> QED  BY <1>1, <4>1, <4>2
    <3>2. CASE e # c
      <4>1. end[d][d.lo] = "closed" /\ end[d][d.hi] = "closed"
        BY <1>1, <1>5, <2>2, <3>2 DEF LinkInv, Successive
      <4>2. d # c
        BY <4>1, <1>1
      <4> QED  BY <1>1, <4>1, <4>2
    <3> QED  BY <3>1, <3>2
  <2> QED  BY <2>1, <2>2 DEF Successive
<1> QED  BY <1>2, <1>3, <1>4, <1>5 DEF LinkInv

\* A connection is set up at one end.
LEMMA SetUpStep ==
    ASSUME LinkInv, NEW c \in Conns, NEW s \in Ends(c), IsSetUp(c, s)
    PROVE  LinkInv'
<1> USE ConnFacts
<1>1. /\ end[c][s] \in Alive
      /\ \A d \in Conns : \A r \in Servers :
            end'[d][r] = IF d = c /\ r = s THEN "setup" ELSE end[d][r]
      /\ \A r, p \in Servers :
            peerServers'[r][p] = IF r = s /\ p = Peer(c, s) THEN c ELSE peerServers[r][p]
  BY DEF IsSetUp, LinkInv, LinkTypeOK
<1>2. LinkTypeOK'
  BY DEF IsSetUp, LinkInv, LinkTypeOK, EndStates
<1>3. BegunAtBoth'
  BY <1>1 DEF LinkInv, BegunAtBoth, Alive
<1>4. ListedIsSetup'
  <2> SUFFICES ASSUME NEW r \in Servers, NEW p \in Servers, peerServers'[r][p] # NoConn
               PROVE  /\ r # p /\ Ends(peerServers'[r][p]) = {r, p}
                      /\ end'[peerServers'[r][p]][r] = "setup"
    BY DEF ListedIsSetup
  <2>1. CASE r = s /\ p = Peer(c, s)
    BY <1>1, <2>1
  <2>2. CASE ~(r = s /\ p = Peer(c, s))
    <3>1. peerServers'[r][p] = peerServers[r][p]
      BY <1>1, <2>2
    <3>2. /\ peerServers[r][p] \in Conns /\ r # p
          /\ Ends(peerServers[r][p]) = {r, p} /\ end[peerServers[r][p]][r] = "setup"
      BY <3>1, ListedFacts
    <3> QED  BY <3>1, <3>2, <1>1
  <2> QED  BY <2>1, <2>2
<1>5. ASSUME ~Overlap  PROVE Successive' /\ SetupIsListed'
  <2>1. Successive'
    BY <1>1, <1>5 DEF LinkInv, Successive, Alive
  <2>2. SetupIsListed'
    BY <1>1, <1>5 DEF LinkInv, SetupIsListed
  <2> QED  BY <2>1, <2>2
<1> QED  BY <1>2, <1>3, <1>4, <1>5 DEF LinkInv

\* A connection ends at one end.  Unless connections overlap, no other of the
\* two servers is set up, so that none is left without its place on the list.
LEMMA ClosedStep ==
    ASSUME LinkInv, NEW c \in Conns, NEW s \in Ends(c), IsClosed(c, s)
    PROVE  LinkInv'
<1> USE ConnFacts
<1>1. /\ end[c][s] \in Alive
      /\ \A d \in Conns : \A r \in Servers :
            end'[d][r] = IF d = c /\ r = s THEN "closed" ELSE end[d][r]
      /\ \A r, p \in Servers :
            peerServers'[r][p] = IF end[c][s] = "setup" /\ r = s /\ p = Peer(c, s)
                                 THEN NoConn ELSE peerServers[r][p]
  BY DEF IsClosed, LinkInv, LinkTypeOK
<1>2. LinkTypeOK'
  BY DEF IsClosed, LinkInv, LinkTypeOK, EndStates
<1>3. BegunAtBoth'
  BY <1>1 DEF LinkInv, BegunAtBoth, Alive
<1>4. ListedIsSetup'
  <2> SUFFICES ASSUME NEW r \in Servers, NEW p \in Servers, peerServers'[r][p] # NoConn
               PROVE  /\ r # p /\ Ends(peerServers'[r][p]) = {r, p}
                      /\ end'[peerServers'[r][p]][r] = "setup"
    BY DEF ListedIsSetup
  <2> DEFINE d == peerServers[r][p]
  <2>3. peerServers'[r][p] = d /\ ~(end[c][s] = "setup" /\ r = s /\ p = Peer(c, s))
    BY <1>1
  <2>1. /\ peerServers'[r][p] = d /\ d \in Conns
        /\ ~(end[c][s] = "setup" /\ r = s /\ p = Peer(c, s))
        /\ r # p /\ Ends(d) = {r, p} /\ end[d][r] = "setup"
    BY <2>3, ListedFacts
  <2> HIDE DEF d
  <2>2. ~(d = c /\ r = s)
    BY <2>1
  <2> QED  BY <1>1, <2>1, <2>2
<1>5. ASSUME ~Overlap  PROVE Successive' /\ SetupIsListed'
  <2>1. Successive'
    BY <1>1, <1>5 DEF LinkInv, Successive, Alive
  <2>2. ASSUME NEW d \in Conns, NEW r \in Ends(d), end'[d][r] = "setup"
        PROVE  peerServers'[r][Peer(d, r)] # NoConn
    <3>1. end[d][r] = "setup" /\ ~(d = c /\ r = s)
      BY <1>1, <2>2
    <3>2. peerServers[r][Peer(d, r)] # NoConn
      BY <1>5, <3>1 DEF LinkInv, SetupIsListed
    <3>3. ASSUME end[c][s] = "setup", r = s, Peer(d, r) = Peer(c, s)  PROVE FALSE
      <4>1. Ends(c) = Ends(d)
        <5>1. Ends(c) = {s, Peer(c, s)}
          BY ConnFacts
        <5>2. Ends(d) = {r, Peer(d, r)}
          BY ConnFacts
        <5> QED  BY <5>1, <5>2, <3>3
      <4> QED  BY <4>1, <3>1, <3>3, <1>1, <1>5, OneAlive DEF Alive
    <3> QED  BY <3>2, <3>3, <1>1
  <2> QED  BY <2>1, <2>2 DEF SetupIsListed
<1> QED  BY <1>2, <1>3, <1>4, <1>5 DEF LinkInv

\* A server starts again.
LEMMA RestartStep ==
    ASSUME LinkInv, NEW s \in Servers, LinkRestart(s)
    PROVE  LinkInv'
<1> USE ConnFacts
<1>1. /\ \A d \in Conns : \A r \in Servers :
            end'[d][r] = IF end[d][s] \in Alive /\ r = s THEN "closed" ELSE end[d][r]
      /\ \A r, p \in Servers :
            peerServers'[r][p] = IF r = s THEN NoConn ELSE peerServers[r][p]
  BY DEF LinkRestart, LinkInv, LinkTypeOK
<1>2. LinkTypeOK'
  BY DEF LinkRestart, LinkInv, LinkTypeOK, EndStates
<1>3. BegunAtBoth'
  BY <1>1 DEF LinkInv, BegunAtBoth, Alive
<1>4. ListedIsSetup'
  <2> SUFFICES ASSUME NEW r \in Servers, NEW p \in Servers, peerServers'[r][p] # NoConn
               PROVE  /\ r # p /\ Ends(peerServers'[r][p]) = {r, p}
                      /\ end'[peerServers'[r][p]][r] = "setup"
    BY DEF ListedIsSetup
  <2>1. r # s /\ peerServers'[r][p] = peerServers[r][p]
    BY <1>1
  <2>2. /\ peerServers[r][p] \in Conns /\ r # p
        /\ Ends(peerServers[r][p]) = {r, p} /\ end[peerServers[r][p]][r] = "setup"
    BY <2>1, ListedFacts
  <2> QED  BY <1>1, <2>1, <2>2
<1>5. ASSUME ~Overlap  PROVE Successive' /\ SetupIsListed'
  <2>1. Successive'
    BY <1>1, <1>5 DEF LinkInv, Successive, Alive
  <2>2. SetupIsListed'
    BY <1>1, <1>5 DEF LinkInv, SetupIsListed, Alive
  <2> QED  BY <2>1, <2>2
<1> QED  BY <1>2, <1>3, <1>4, <1>5 DEF LinkInv

\* Every step keeps the invariant of the connections.
LEMMA LinkStepInv ==
    ASSUME LinkInv, LinkStep
    PROVE  LinkInv'
<1>1. CASE UNCHANGED <<peerServers, end>>
  <2>1. peerServers' = peerServers /\ end' = end
    BY <1>1
  <2>2. LinkTypeOK' /\ BegunAtBoth' /\ ListedIsSetup'
    BY <2>1 DEF LinkInv, LinkTypeOK, BegunAtBoth, ListedIsSetup
  <2>3. ASSUME ~Overlap  PROVE Successive' /\ SetupIsListed'
    BY <2>1, <2>3 DEF LinkInv, Successive, SetupIsListed
  <2> QED  BY <2>2, <2>3 DEF LinkInv
<1>2. ASSUME NEW c \in Conns, Begins(c)  PROVE LinkInv'
  BY <1>2, BeginsStep
<1>3. ASSUME NEW c \in Conns, NEW s \in Ends(c), IsSetUp(c, s)  PROVE LinkInv'
  BY <1>3, SetUpStep
<1>4. ASSUME NEW c \in Conns, NEW s \in Ends(c), IsClosed(c, s)  PROVE LinkInv'
  BY <1>4, ClosedStep
<1>5. ASSUME NEW s \in Servers, LinkRestart(s)  PROVE LinkInv'
  BY <1>5, RestartStep
<1> QED  BY <1>1, <1>2, <1>3, <1>4, <1>5 DEF LinkStep

-----------------------------------------------------------------------------
\* A list of exactly the elements of S.
ListOf(list, S) == list \in Seq(S) /\ IsInjective(list) /\ ToSet(list) = S

\* The three tables of one server: each session of a peer's list is routed to
\* that peer, nothing else is, and it is in the list of its user.
TablesAgree(one, two, three) ==
    /\ DOMAIN one \subseteq Servers /\ DOMAIN three = DOMAIN one
    /\ \A p \in DOMAIN one :
          /\ ListOf(one[p], ToSet(one[p]))
          /\ \A x \in ToSet(one[p]) : x \in Sessions /\ x.at = p
          /\ \A u \in Users :
                ListOf(Listed(three[p], u), {x \in ToSet(one[p]) : x.user = u})
    /\ DOMAIN two \subseteq Sessions
    /\ \A x \in Sessions :
          x \in DOMAIN two <=> x.at \in DOMAIN one /\ x \in ToSet(one[x.at])
    /\ \A x \in DOMAIN two : two[x] = x.at

-----------------------------------------------------------------------------
\* Appending what is not in the list.
LEMMA AppendList ==
    ASSUME NEW S, NEW list \in Seq(S), NEW s \in S,
           IsInjective(list), s \notin ToSet(list)
    PROVE  /\ Append(list, s) \in Seq(S)
           /\ IsInjective(Append(list, s))
           /\ ToSet(Append(list, s)) = ToSet(list) \cup {s}
<1> DEFINE a == Append(list, s)
<1>1. /\ a \in Seq(S) /\ Len(a) = Len(list) + 1
      /\ DOMAIN list = 1..Len(list) /\ DOMAIN a = 1..(Len(list) + 1)
      /\ \A i \in 1..Len(list) : a[i] = list[i]
      /\ a[Len(list) + 1] = s /\ Len(list) \in Nat
  OBVIOUS
<1> HIDE DEF a
<1>2. IsInjective(a)
  BY <1>1 DEF IsInjective, ToSet
<1>3. ToSet(a) = ToSet(list) \cup {s}
  BY <1>1 DEF ToSet
<1> QED  BY <1>1, <1>2, <1>3 DEF a

\* The length of what follows place i in a list of n.
LEMMA RestLength ==
    ASSUME NEW n \in Nat, NEW i \in 1..n
    PROVE  (IF i + 1 <= n THEN n - (i + 1) + 1 ELSE 0) = n - i
OBVIOUS

\* Taking out the element at place i.
LEMMA RemoveAtList ==
    ASSUME NEW S, NEW list \in Seq(S), IsInjective(list), NEW i \in 1..Len(list)
    PROVE  /\ RemoveAt(list, i) \in Seq(S)
           /\ IsInjective(RemoveAt(list, i))
           /\ ToSet(RemoveAt(list, i)) = ToSet(list) \ {list[i]}
<1> DEFINE w == RemoveAt(list, i)
           s == list[i]
<1>1. i \in 1..Len(list) /\ list[i] = s
  OBVIOUS
<1> HIDE DEF s
<1>2. /\ w \in Seq(S) /\ Len(w) = Len(list) - 1 /\ DOMAIN list = 1..Len(list)
      /\ DOMAIN w = 1..(Len(list) - 1) /\ Len(list) \in Nat
      /\ \A k \in 1..(Len(list) - 1) :
            w[k] = IF k < i THEN list[k] ELSE list[k + 1]
  <2> DEFINE p == SubSeq(list, 1, i - 1)
             q == SubSeq(list, i + 1, Len(list))
  <2>1. Len(list) \in Nat /\ DOMAIN list = 1..Len(list) /\ i \in Nat \ {0}
    BY <1>1
  <2>2. /\ p \in Seq(S) /\ Len(p) = i - 1
        /\ \A k \in 1..(i - 1) : p[k] = list[k]
    <3>1. i - 1 \in Int /\ \A k \in 1..(i - 1) : list[k] \in S
      BY <1>1, <2>1
    <3> QED  BY <1>1, <2>1, <3>1, Seqs!SubSeqProperties
  <2>3. /\ q \in Seq(S) /\ Len(q) = Len(list) - i
        /\ \A k \in 1..(Len(list) - i) : q[k] = list[k + i]
    <3>1. i + 1 \in Int /\ \A k \in (i + 1)..Len(list) : list[k] \in S
      BY <1>1, <2>1
    <3>2. /\ q \in Seq(S)
          /\ Len(q) = IF i + 1 <= Len(list) THEN Len(list) - (i + 1) + 1 ELSE 0
          /\ \A k \in 1..(Len(list) - (i + 1) + 1) : q[k] = list[i + 1 + k - 1]
      BY <1>1, <2>1, <3>1, Seqs!SubSeqProperties
    <3> HIDE DEF q
    <3>3. Len(q) = Len(list) - i
      <4>1. (IF i + 1 <= Len(list) THEN Len(list) - (i + 1) + 1 ELSE 0) = Len(list) - i
        BY <1>1, <2>1, RestLength
      <4> QED  BY <3>2, <4>1
    <3>4. ASSUME NEW k \in 1..(Len(list) - i)  PROVE q[k] = list[k + i]
      <4>1. k \in 1..(Len(list) - (i + 1) + 1) /\ i + 1 + k - 1 = k + i
        BY <1>1, <2>1
      <4> QED  BY <3>2, <4>1
    <3> QED  BY <3>2, <3>3, <3>4
  <2> HIDE DEF p, q
  <2>5. /\ p \o q \in Seq(S) /\ Len(p \o q) = Len(p) + Len(q)
        /\ DOMAIN (p \o q) = 1..Len(p \o q)
        /\ \A k \in 1..(Len(p) + Len(q)) :
              (p \o q)[k] = IF k <= Len(p) THEN p[k] ELSE q[k - Len(p)]
    <3>1. /\ p \o q \in Seq(S) /\ Len(p \o q) = Len(p) + Len(q)
          /\ \A k \in 1..(Len(p) + Len(q)) :
                (p \o q)[k] = IF k <= Len(p) THEN p[k] ELSE q[k - Len(p)]
      BY <2>2, <2>3, Seqs!ConcatProperties
    <3> QED  BY <3>1
  <2>7. ASSUME NEW k \in 1..(Len(list) - 1)
        PROVE  (p \o q)[k] = IF k < i THEN list[k] ELSE list[k + 1]
    <3>1. CASE k < i
      BY <3>1, <1>1, <2>1, <2>2, <2>3, <2>5
    <3>2. CASE ~(k < i)
      <4>1. (p \o q)[k] = q[k - (i - 1)] /\ k - (i - 1) \in 1..(Len(list) - i)
        BY <3>2, <1>1, <2>1, <2>2, <2>3, <2>5
      <4>2. q[k - (i - 1)] = list[k - (i - 1) + i]
        BY <4>1, <2>3
      <4> QED  BY <4>1, <4>2, <3>2, <2>1
    <3> QED  BY <3>1, <3>2
  <2>6. w = p \o q
    BY DEF RemoveAt, p, q
  <2>8. /\ p \o q \in Seq(S) /\ Len(p \o q) = Len(list) - 1
        /\ DOMAIN (p \o q) = 1..(Len(list) - 1)
    BY <2>1, <2>2, <2>3, <2>5
  <2> HIDE DEF w
  <2> QED  BY <2>1, <2>6, <2>7, <2>8
<1> HIDE DEF w
<1>3. IsInjective(w)
  <2> SUFFICES ASSUME NEW k \in DOMAIN w, NEW l \in DOMAIN w, w[k] = w[l]
               PROVE  k = l
    BY DEF IsInjective
  <2> DEFINE At(m) == IF m < i THEN m ELSE m + 1
  <2>1. ASSUME NEW m \in DOMAIN w  PROVE At(m) \in DOMAIN list /\ w[m] = list[At(m)]
    BY <1>1, <1>2
  <2>2. list[At(k)] = list[At(l)] /\ At(k) \in DOMAIN list /\ At(l) \in DOMAIN list
    BY <2>1
  <2>3. At(k) = At(l)
    <3> HIDE DEF At
    <3> QED  BY <2>2 DEF IsInjective
  <2>4. k \in Nat /\ l \in Nat /\ i \in Nat
    BY <1>1, <1>2
  <2> QED  BY <2>3, <2>4
<1>4. ASSUME NEW x \in ToSet(w)  PROVE x \in ToSet(list) /\ x # s
  <2>1. PICK k \in 1..(Len(list) - 1) : w[k] = x
    BY <1>2 DEF ToSet
  <2>2. CASE k < i
    <3>1. x = list[k] /\ k \in 1..Len(list) /\ k # i
      BY <2>1, <2>2, <1>1, <1>2
    <3> QED  BY <3>1, <1>1, <1>2 DEF ToSet, IsInjective
  <2>3. CASE ~(k < i)
    <3>1. x = list[k + 1] /\ k + 1 \in 1..Len(list) /\ k + 1 # i
      BY <2>1, <2>3, <1>1, <1>2
    <3> QED  BY <3>1, <1>1, <1>2 DEF ToSet, IsInjective
  <2> QED  BY <2>2, <2>3
<1>5. ASSUME NEW x \in ToSet(list), x # s  PROVE x \in ToSet(w)
  <2>1. PICK k \in 1..Len(list) : list[k] = x
    BY <1>2 DEF ToSet
  <2>2. CASE k < i
    BY <2>1, <2>2, <1>1, <1>2 DEF ToSet
  <2>3. CASE ~(k < i)
    <3>1. k - 1 \in 1..(Len(list) - 1) /\ w[k - 1] = x
      BY <2>1, <2>3, <1>1, <1>2, <1>5
    <3> QED  BY <3>1, <1>2 DEF ToSet
  <2> QED  BY <2>2, <2>3
<1> HIDE DEF w
<1>6. ToSet(w) = ToSet(list) \ {s}
  BY <1>4, <1>5
<1> QED  BY <1>2, <1>3, <1>6 DEF w, s

\* A finite set as a list.
LEMMA SetToSeqList ==
    ASSUME NEW S, IsFiniteSet(S)
    PROVE  /\ SetToSeq(S) \in Seq(S)
           /\ IsInjective(SetToSeq(S))
           /\ ToSet(SetToSeq(S)) = S
<1> DEFINE n == Cardinality(S)
           l == SetToSeq(S)
<1>1. n \in Nat /\ ExistsBijection(1..n, S)
  BY FS_CardinalityType
<1>2. \E f \in [1..n -> S] : IsInjective(f)
  BY <1>1, Zenon DEF ExistsBijection, Bijection, Injection
<1>3. l \in [1..n -> S] /\ IsInjective(l)
  BY <1>2, Zenon DEF SetToSeq
<1> HIDE DEF l
<1>4. l \in Surjection(1..n, S)
  <2>1. Cardinality(1..n) = n
    BY <1>1, FS_Interval
  <2>2. l \in Injection(1..n, S)
    BY <1>3 DEF Injection
  <2> QED  BY <2>1, <2>2, FS_Injection
<1>5. ToSet(l) = S
  BY <1>3, <1>4 DEF ToSet, Surjection
<1>6. l \in Seq(S)
  BY <1>1, <1>3
<1> QED  BY <1>3, <1>5, <1>6 DEF l

-----------------------------------------------------------------------------
LEMMA EmptyList == ListOf(<<>>, {})
  BY DEF ListOf, IsInjective, ToSet

LEMMA AddedList ==
    ASSUME NEW list, NEW S, ListOf(list, S), NEW x, x \notin S
    PROVE  ListOf(Append(list, x), S \cup {x})
<1>1. list \in Seq(S \cup {x}) /\ x \in S \cup {x}
  BY Seqs!SeqMonotonic DEF ListOf
<1> QED  BY <1>1, AppendList DEF ListOf

LEMMA ListWithout ==
    ASSUME NEW list, NEW S, ListOf(list, S), NEW x
    PROVE  ListOf(RemoveFirst(list, x), S \ {x})
<1>1. list \in Seq(S) /\ IsInjective(list) /\ ToSet(list) = S
      /\ Len(list) \in Nat /\ DOMAIN list = 1..Len(list)
  BY DEF ListOf
<1>2. CASE \E i \in 1..Len(list) : list[i] = x
  <2>1. PICK i \in 1..Len(list) : list[i] = x
    BY <1>2
  <2>2. {j \in 1..Len(list) : list[j] = x} = {i}
    BY <1>1, <2>1 DEF IsInjective
  <2>3. Min({i}) = i
    BY <2>1 DEF Min
  <2>4. RemoveFirst(list, x) = RemoveAt(list, i)
    BY <1>2, <2>2, <2>3, Zenon DEF RemoveFirst, SelectInSeq
  <2> DEFINE w == RemoveAt(list, i)
  <2>5. w \in Seq(S) /\ IsInjective(w) /\ ToSet(w) = S \ {x}
    BY <1>1, <2>1, RemoveAtList
  <2> HIDE DEF w
  <2>6. w \in Seq(S \ {x})
    <3>1. \A j \in 1..Len(w) : w[j] \in S \ {x}
      BY <2>5 DEF ToSet
    <3> QED  BY <2>5, <3>1
  <2> QED  BY <2>4, <2>5, <2>6 DEF ListOf, w
<1>3. CASE ~\E i \in 1..Len(list) : list[i] = x
  <2>1. RemoveFirst(list, x) = list
    BY <1>3, Zenon DEF RemoveFirst
  <2>2. x \notin S
    BY <1>1, <1>3 DEF ToSet
  <2>3. S \ {x} = S
    BY <2>2
  <2> QED  BY <2>1, <2>3
<1> QED  BY <1>2, <1>3

LEMMA ListOfSet ==
    ASSUME NEW S, S \subseteq Sessions
    PROVE  ListOf(SetToSeq(S), S)
<1>1. IsFiniteSet(S)
  BY SessionsAssumption, FS_Subset
<1> QED  BY <1>1, SetToSeqList DEF ListOf

-----------------------------------------------------------------------------
\* What each message and the end of a peer make of the tables of a server.
LEMMA NothingAgrees == TablesAgree(<<>>, <<>>, <<>>)
  BY DEF TablesAgree

LEMMA StartAgrees ==
    ASSUME NEW o, NEW t, NEW h, TablesAgree(o, t, h), NEW x \in Sessions,
           x.at \in DOMAIN o, x \notin ToSet(o[x.at])
    PROVE  TablesAgree([o EXCEPT ![x.at] = Append(@, x)], Put(t, {x}, x.at),
                       Put(h, {x.at}, With(h[x.at], x)))
<1> DEFINE p == x.at
           one == [o EXCEPT ![p] = Append(@, x)]
           two == Put(t, {x}, p)
           three == Put(h, {p}, With(h[p], x))
<1>1. /\ DOMAIN one = DOMAIN o /\ one[p] = Append(o[p], x)
      /\ \A q \in DOMAIN o : q # p => one[q] = o[q]
  OBVIOUS
<1>2. /\ DOMAIN two = DOMAIN t \cup {x} /\ two[x] = p
      /\ \A y \in DOMAIN t : y # x => two[y] = t[y]
  BY DEF Put
<1>3. /\ DOMAIN three = DOMAIN h \cup {p} /\ three[p] = With(h[p], x)
      /\ \A q \in DOMAIN h : q # p => three[q] = h[q]
  BY DEF Put
<1>4. ASSUME NEW u
      PROVE  Listed(With(h[p], x), u) = IF u = x.user THEN Append(Listed(h[p], u), x)
                                        ELSE Listed(h[p], u)
  BY DEF With, Listed, Put
<1> HIDE DEF one, two, three
<1>5. /\ DOMAIN o \subseteq Servers /\ DOMAIN h = DOMAIN o /\ DOMAIN t \subseteq Sessions
      /\ \A y \in Sessions : y \in DOMAIN t <=> y.at \in DOMAIN o /\ y \in ToSet(o[y.at])
      /\ \A y \in DOMAIN t : t[y] = y.at
  BY DEF TablesAgree
<1>6. /\ ListOf(one[p], ToSet(o[p]) \cup {x}) /\ ToSet(one[p]) = ToSet(o[p]) \cup {x}
      /\ ListOf(one[p], ToSet(one[p]))
  <2>1. ListOf(o[p], ToSet(o[p]))
    BY DEF TablesAgree
  <2>2. ListOf(one[p], ToSet(o[p]) \cup {x})
    BY <1>1, <2>1, AddedList
  <2> QED  BY <2>2 DEF ListOf
<1>7. ASSUME NEW q \in DOMAIN one
      PROVE  /\ ListOf(one[q], ToSet(one[q]))
             /\ \A y \in ToSet(one[q]) : y \in Sessions /\ y.at = q
             /\ \A u \in Users :
                   ListOf(Listed(three[q], u), {y \in ToSet(one[q]) : y.user = u})
  <2>1. CASE q # p
    BY <2>1, <1>1, <1>3, <1>5 DEF TablesAgree
  <2>2. CASE q = p
    <3>1. \A y \in ToSet(one[p]) : y \in Sessions /\ y.at = p
      BY <1>1, <1>6 DEF TablesAgree
    <3>2. ASSUME NEW u \in Users
          PROVE  ListOf(Listed(three[p], u), {y \in ToSet(one[p]) : y.user = u})
      <4> DEFINE l == Listed(h[p], u)
                 S == {y \in ToSet(o[p]) : y.user = u}
      <4>1. ListOf(l, S)
        BY DEF TablesAgree
      <4>2. CASE u = x.user
        <5>1. {y \in ToSet(one[p]) : y.user = u} = S \cup {x}
          BY <1>6, <4>2
        <5>2. x \notin S
          OBVIOUS
        <5>3. Listed(three[p], u) = Append(l, x)
          BY <1>3, <1>4, <4>2
        <5> HIDE DEF l, S
        <5> QED  BY <4>1, <5>1, <5>2, <5>3, AddedList
      <4>3. CASE u # x.user
        <5>1. {y \in ToSet(one[p]) : y.user = u} = S
          BY <1>6, <4>3
        <5>2. Listed(three[p], u) = l
          BY <1>3, <1>4, <4>3
        <5> QED  BY <4>1, <5>1, <5>2
      <4> QED  BY <4>2, <4>3
    <3> QED  BY <2>2, <3>1, <3>2, <1>6
  <2> QED  BY <2>1, <2>2
<1>8. \A y \in Sessions : y \in DOMAIN two <=> y.at \in DOMAIN one /\ y \in ToSet(one[y.at])
  BY <1>1, <1>2, <1>5, <1>6
<1>9. DOMAIN two \subseteq Sessions /\ \A y \in DOMAIN two : two[y] = y.at
  BY <1>2, <1>5
<1>10. TablesAgree(one, two, three)
  <2>1. DOMAIN one \subseteq Servers /\ DOMAIN three = DOMAIN one
    BY <1>1, <1>3, <1>5
  <2> QED  BY <2>1, <1>7, <1>8, <1>9 DEF TablesAgree
<1> QED  BY <1>10 DEF one, two, three

LEMMA EndAgrees ==
    ASSUME NEW o, NEW t, NEW h, TablesAgree(o, t, h), NEW x \in Sessions, x.at \in DOMAIN o
    PROVE  TablesAgree([o EXCEPT ![x.at] = RemoveFirst(@, x)], Restrict(t, DOMAIN t \ {x}),
                       [h EXCEPT ![x.at] = Without(@, x)])
<1> DEFINE p == x.at
           one == [o EXCEPT ![p] = RemoveFirst(@, x)]
           two == Restrict(t, DOMAIN t \ {x})
           three == [h EXCEPT ![p] = Without(@, x)]
<1>5. /\ DOMAIN o \subseteq Servers /\ DOMAIN h = DOMAIN o /\ DOMAIN t \subseteq Sessions
      /\ \A y \in Sessions : y \in DOMAIN t <=> y.at \in DOMAIN o /\ y \in ToSet(o[y.at])
      /\ \A y \in DOMAIN t : t[y] = y.at
  BY DEF TablesAgree
<1>1. /\ DOMAIN one = DOMAIN o /\ one[p] = RemoveFirst(o[p], x)
      /\ \A q \in DOMAIN o : q # p => one[q] = o[q]
  OBVIOUS
<1>2. /\ DOMAIN two = DOMAIN t \ {x} /\ \A y \in DOMAIN t : y # x => two[y] = t[y]
  BY DEF Restrict
<1>3. /\ DOMAIN three = DOMAIN h /\ three[p] = Without(h[p], x)
      /\ \A q \in DOMAIN h : q # p => three[q] = h[q]
  BY <1>5
<1>4. ASSUME NEW u
      PROVE  Listed(Without(h[p], x), u) = IF u = x.user THEN RemoveFirst(Listed(h[p], u), x)
                                           ELSE Listed(h[p], u)
  <2> DEFINE lists == h[p]
             rest == RemoveFirst(Listed(lists, x.user), x)
  <2>1. CASE rest = <<>>
    <3>1. Without(lists, x) = [v \in DOMAIN lists \ {x.user} |-> lists[v]]
      BY <2>1 DEF Without, Restrict
    <3> HIDE DEF lists
    <3>2. Listed(Without(lists, x), u) = IF u = x.user THEN <<>> ELSE Listed(lists, u)
      BY <3>1 DEF Listed
    <3>3. u = x.user => RemoveFirst(Listed(lists, u), x) = <<>>
      BY <2>1
    <3> QED  BY <3>2, <3>3 DEF lists
  <2>2. CASE rest # <<>>
    <3>1. Without(lists, x) = [lists EXCEPT ![x.user] = rest]
      BY <2>2 DEF Without
    <3>2. CASE x.user \in DOMAIN lists
      <4> HIDE DEF lists, rest
      <4>1. Listed(Without(lists, x), u) = IF u = x.user THEN rest ELSE Listed(lists, u)
        BY <3>1, <3>2 DEF Listed
      <4> QED  BY <4>1 DEF lists, rest
    <3>3. CASE x.user \notin DOMAIN lists
      <4>1. rest = RemoveFirst(<<>>, x)
        BY <3>3 DEF Listed
      <4>2. ~\E i \in 1..Len(<<>>) : <<>>[i] = x
        OBVIOUS
      <4>3. RemoveFirst(<<>>, x) = <<>>
        BY <4>2, Zenon DEF RemoveFirst
      <4> QED  BY <2>2, <4>1, <4>3
    <3> QED  BY <3>2, <3>3
  <2> QED  BY <2>1, <2>2
<1> HIDE DEF one, two, three
<1>6. /\ ListOf(one[p], ToSet(o[p]) \ {x}) /\ ToSet(one[p]) = ToSet(o[p]) \ {x}
      /\ ListOf(one[p], ToSet(one[p]))
  <2>1. ListOf(o[p], ToSet(o[p]))
    BY DEF TablesAgree
  <2>2. ListOf(one[p], ToSet(o[p]) \ {x})
    BY <1>1, <2>1, ListWithout
  <2> QED  BY <2>2 DEF ListOf
<1>7. ASSUME NEW q \in DOMAIN one
      PROVE  /\ ListOf(one[q], ToSet(one[q]))
             /\ \A y \in ToSet(one[q]) : y \in Sessions /\ y.at = q
             /\ \A u \in Users :
                   ListOf(Listed(three[q], u), {y \in ToSet(one[q]) : y.user = u})
  <2>1. CASE q # p
    BY <2>1, <1>1, <1>3, <1>5 DEF TablesAgree
  <2>2. CASE q = p
    <3>1. \A y \in ToSet(one[p]) : y \in Sessions /\ y.at = p
      BY <1>1, <1>6 DEF TablesAgree
    <3>2. ASSUME NEW u \in Users
          PROVE  ListOf(Listed(three[p], u), {y \in ToSet(one[p]) : y.user = u})
      <4> DEFINE l == Listed(h[p], u)
                 S == {y \in ToSet(o[p]) : y.user = u}
      <4>1. ListOf(l, S)
        BY DEF TablesAgree
      <4>2. CASE u = x.user
        <5>1. {y \in ToSet(one[p]) : y.user = u} = S \ {x}
          BY <1>6, <4>2
        <5>3. Listed(three[p], u) = RemoveFirst(l, x)
          BY <1>3, <1>4, <4>2
        <5> HIDE DEF l, S
        <5> QED  BY <4>1, <5>1, <5>3, ListWithout
      <4>3. CASE u # x.user
        <5>1. {y \in ToSet(one[p]) : y.user = u} = S
          BY <1>6, <4>3
        <5>2. Listed(three[p], u) = l
          BY <1>3, <1>4, <4>3
        <5> QED  BY <4>1, <5>1, <5>2
      <4> QED  BY <4>2, <4>3
    <3> QED  BY <2>2, <3>1, <3>2, <1>6
  <2> QED  BY <2>1, <2>2
<1>8. \A y \in Sessions : y \in DOMAIN two <=> y.at \in DOMAIN one /\ y \in ToSet(one[y.at])
  BY <1>1, <1>2, <1>5, <1>6
<1>9. DOMAIN two \subseteq Sessions /\ \A y \in DOMAIN two : two[y] = y.at
  BY <1>2, <1>5
<1>10. TablesAgree(one, two, three)
  <2>1. DOMAIN one \subseteq Servers /\ DOMAIN three = DOMAIN one
    BY <1>1, <1>3, <1>5
  <2> QED  BY <2>1, <1>7, <1>8, <1>9 DEF TablesAgree
<1> QED  BY <1>10 DEF one, two, three

LEMMA TableAgrees ==
    ASSUME NEW o, NEW t, NEW h, TablesAgree(o, t, h), NEW p \in Servers, p \notin DOMAIN o,
           NEW list, ListOf(list, ToSet(list)),
           \A x \in ToSet(list) : x \in Sessions /\ x.at = p
    PROVE  TablesAgree(Put(o, {p}, list), Put(t, ToSet(list), p),
                       Put(h, {p}, [u \in {x.user : x \in ToSet(list)} |-> OfUser(list, u)]))
<1> DEFINE ofUsers == [u \in {x.user : x \in ToSet(list)} |-> OfUser(list, u)]
           one == Put(o, {p}, list)
           two == Put(t, ToSet(list), p)
           three == Put(h, {p}, ofUsers)
<1>1. /\ DOMAIN one = DOMAIN o \cup {p} /\ one[p] = list
      /\ \A q \in DOMAIN o : one[q] = o[q]
  BY DEF Put
<1>2. /\ DOMAIN two = DOMAIN t \cup ToSet(list)
      /\ \A y \in DOMAIN two : two[y] = IF y \in ToSet(list) THEN p ELSE t[y]
  BY DEF Put
<1>5. /\ DOMAIN o \subseteq Servers /\ DOMAIN h = DOMAIN o /\ DOMAIN t \subseteq Sessions
      /\ \A y \in Sessions : y \in DOMAIN t <=> y.at \in DOMAIN o /\ y \in ToSet(o[y.at])
      /\ \A y \in DOMAIN t : t[y] = y.at
  BY DEF TablesAgree
<1>3. /\ DOMAIN three = DOMAIN h \cup {p} /\ three[p] = ofUsers
      /\ \A q \in DOMAIN h : three[q] = h[q]
  BY <1>5 DEF Put
<1>4. ASSUME NEW u
      PROVE  ListOf(Listed(ofUsers, u), {x \in ToSet(list) : x.user = u})
  <2> DEFINE S == {x \in ToSet(list) : x.user = u}
  <2>1. CASE S = {}
    <3>1. u \notin DOMAIN ofUsers
      BY <2>1
    <3>2. Listed(ofUsers, u) = <<>>
      BY <3>1 DEF Listed
    <3> QED  BY <2>1, <3>2, EmptyList
  <2>2. CASE S # {}
    <3>1. Listed(ofUsers, u) = SetToSeq(S)
      BY <2>2, Zenon DEF Listed, OfUser
    <3>2. S \subseteq Sessions
      OBVIOUS
    <3> HIDE DEF S
    <3>3. ListOf(SetToSeq(S), S)
      BY <3>2, ListOfSet
    <3> QED  BY <3>1, <3>3 DEF S
  <2> QED  BY <2>1, <2>2
<1> HIDE DEF ofUsers, one, two, three
<1>7. ASSUME NEW q \in DOMAIN one
      PROVE  /\ ListOf(one[q], ToSet(one[q]))
             /\ \A y \in ToSet(one[q]) : y \in Sessions /\ y.at = q
             /\ \A u \in Users :
                   ListOf(Listed(three[q], u), {y \in ToSet(one[q]) : y.user = u})
  <2>1. CASE q # p
    BY <2>1, <1>1, <1>3, <1>5 DEF TablesAgree
  <2>2. CASE q = p
    BY <2>2, <1>1, <1>3, <1>4
  <2> QED  BY <2>1, <2>2
<1>8. \A y \in Sessions : y \in DOMAIN two <=> y.at \in DOMAIN one /\ y \in ToSet(one[y.at])
  BY <1>1, <1>2, <1>5
<1>9. DOMAIN two \subseteq Sessions /\ \A y \in DOMAIN two : two[y] = y.at
  BY <1>2, <1>5
<1>10. TablesAgree(one, two, three)
  <2>1. DOMAIN one \subseteq Servers /\ DOMAIN three = DOMAIN one
    BY <1>1, <1>3, <1>5
  <2> QED  BY <2>1, <1>7, <1>8, <1>9 DEF TablesAgree
<1> QED  BY <1>10 DEF one, two, three, ofUsers

LEMMA ForgetAgrees ==
    ASSUME NEW o, NEW t, NEW h, TablesAgree(o, t, h), NEW p
    PROVE  TablesAgree(Restrict(o, DOMAIN o \ {p}),
                       Restrict(t, DOMAIN t \ (IF p \in DOMAIN o THEN ToSet(o[p]) ELSE {})),
                       Restrict(h, DOMAIN h \ {p}))
<1> DEFINE gone == IF p \in DOMAIN o THEN ToSet(o[p]) ELSE {}
           one == Restrict(o, DOMAIN o \ {p})
           two == Restrict(t, DOMAIN t \ gone)
           three == Restrict(h, DOMAIN h \ {p})
<1>1. DOMAIN one = DOMAIN o \ {p} /\ \A q \in DOMAIN one : one[q] = o[q]
  BY DEF Restrict
<1>2. DOMAIN two = DOMAIN t \ gone /\ \A y \in DOMAIN two : two[y] = t[y]
  BY DEF Restrict
<1>3. DOMAIN three = DOMAIN h \ {p} /\ \A q \in DOMAIN three : three[q] = h[q]
  BY DEF Restrict
<1>5. /\ DOMAIN o \subseteq Servers /\ DOMAIN h = DOMAIN o /\ DOMAIN t \subseteq Sessions
      /\ \A y \in Sessions : y \in DOMAIN t <=> y.at \in DOMAIN o /\ y \in ToSet(o[y.at])
      /\ \A y \in DOMAIN t : t[y] = y.at
      /\ \A q \in DOMAIN o : \A y \in ToSet(o[q]) : y.at = q
  BY DEF TablesAgree
<1> HIDE DEF one, two, three
<1>7. ASSUME NEW q \in DOMAIN one
      PROVE  /\ ListOf(one[q], ToSet(one[q]))
             /\ \A y \in ToSet(one[q]) : y \in Sessions /\ y.at = q
             /\ \A u \in Users :
                   ListOf(Listed(three[q], u), {y \in ToSet(one[q]) : y.user = u})
  BY <1>1, <1>3, <1>5 DEF TablesAgree
<1>8. \A y \in Sessions : y \in DOMAIN two <=> y.at \in DOMAIN one /\ y \in ToSet(one[y.at])
  BY <1>1, <1>2, <1>5
<1>9. DOMAIN two \subseteq Sessions /\ \A y \in DOMAIN two : two[y] = y.at
  BY <1>2, <1>5
<1>10. TablesAgree(one, two, three)
  <2>1. DOMAIN one \subseteq Servers /\ DOMAIN three = DOMAIN one
    BY <1>1, <1>3, <1>5
  <2> QED  BY <2>1, <1>7, <1>8, <1>9 DEF TablesAgree
<1> QED  BY <1>10 DEF one, two, three

-----------------------------------------------------------------------------
\* The sum over no peer at all.
LEMMA SumOfNone ==
    ASSUME NEW base, NEW f, DOMAIN f = {}
    PROVE  FoldFunction(+, base, f) = base
<1> DEFINE Iter(g, s) == IF s = {} THEN base
                         ELSE LET x == CHOOSE x \in s : TRUE
                              IN  f[x] + g[s \ {x}]
           iter[s \in SUBSET {}] == Iter(iter, s)
<1>1. \E g : g = [s \in SUBSET {} |-> Iter(g, s)]
  <2>1. [s \in {{}} |-> base] = [s \in SUBSET {} |-> Iter([t \in {{}} |-> base], s)]
    OBVIOUS
  <2> QED  BY <2>1
<1>2. iter = [s \in SUBSET {} |-> Iter(iter, s)]
  BY <1>1
<1>3. iter[{}] = base
  BY <1>2
<1>4. FoldFunction(+, base, f) = iter[{}]
  BY DEF FoldFunction, FoldFunctionOnSet, MapThenFoldSet
<1> QED  BY <1>3, <1>4

\* The count of a user depends on the user's own sessions and lists only.
LEMMA CountOfNothing ==
    ASSUME NEW own, own = {}, NEW u  PROVE Count(own, <<>>, u) = 0
<1> DEFINE f == [p \in DOMAIN <<>> |-> Len(Listed(<<>>[p], u))]
           base == Cardinality({x \in own : x.user = u})
<1>1. base = 0
  <2>1. {x \in own : x.user = u} = {}
    OBVIOUS
  <2> QED  BY <2>1, FS_EmptySet, Zenon
<1>2. DOMAIN f = {}
  OBVIOUS
<1>3. Count(own, <<>>, u) = FoldFunction(+, base, f)
  BY DEF Count
<1> HIDE DEF f, base
<1> QED  BY <1>1, <1>2, <1>3, SumOfNone

LEMMA CountKept ==
    ASSUME NEW own, NEW own2, NEW peers, NEW peers2, NEW u,
           \A x : x.user = u => (x \in own <=> x \in own2),
           DOMAIN peers = DOMAIN peers2,
           \A p \in DOMAIN peers : Listed(peers[p], u) = Listed(peers2[p], u)
    PROVE  Count(own, peers, u) = Count(own2, peers2, u)
<1> DEFINE f(h) == [p \in DOMAIN h |-> Len(Listed(h[p], u))]
           base(o) == Cardinality({x \in o : x.user = u})
<1>1. f(peers) = f(peers2)
  OBVIOUS
<1>2. base(own) = base(own2)
  <2>1. {x \in own : x.user = u} = {x \in own2 : x.user = u}
    OBVIOUS
  <2> QED  BY <2>1
<1>3. Count(own, peers, u) = FoldFunction(+, base(own), f(peers))
  BY DEF Count
<1>4. Count(own2, peers2, u) = FoldFunction(+, base(own2), f(peers2))
  BY DEF Count
<1> HIDE DEF f, base
<1> QED  BY <1>1, <1>2, <1>3, <1>4

-----------------------------------------------------------------------------
\* The domains of the variables.
Shapes ==
    /\ DOMAIN status = Sessions /\ DOMAIN sessionsCount = Servers
    /\ DOMAIN wsPeerSessions = Servers /\ DOMAIN wsPeerSessions2 = Servers
    /\ DOMAIN wsPeerSessions3 = Servers /\ DOMAIN uncounted = Servers
    /\ \A s \in Servers : /\ DOMAIN sessionsCount[s] = Users
                          /\ DOMAIN wsPeerSessions[s] = DOMAIN wsPeerSessions3[s]

CountInv == Shapes /\ SessionsAreCounted

\* A step that is about server s only, as to what is counted.
AboutOnly(s) ==
    /\ DOMAIN status' = Sessions /\ DOMAIN sessionsCount' = Servers
    /\ DOMAIN wsPeerSessions' = Servers /\ DOMAIN wsPeerSessions2' = Servers
    /\ DOMAIN wsPeerSessions3' = Servers /\ DOMAIN uncounted' = Servers
    /\ DOMAIN sessionsCount'[s] = Users
    /\ DOMAIN wsPeerSessions'[s] = DOMAIN wsPeerSessions3'[s]
    /\ \A r \in Servers \ {s} :
          /\ sessionsCount'[r] = sessionsCount[r] /\ wsPeerSessions'[r] = wsPeerSessions[r]
          /\ uncounted'[r] = uncounted[r]
          /\ wsPeerSessions3'[r] = wsPeerSessions3[r] /\ Own(r)' = Own(r)

LEMMA CountedAtOne ==
    ASSUME CountInv, NEW s \in Servers, AboutOnly(s),
           \A u \in Users : u \notin uncounted'[s] =>
              sessionsCount'[s][u] = Count(Own(s)', wsPeerSessions3'[s], u)
    PROVE  CountInv'
<1>1. Shapes'
  BY DEF CountInv, Shapes, AboutOnly
<1>2. ASSUME NEW r \in Servers, NEW u \in Users, u \notin uncounted'[r]
      PROVE  sessionsCount'[r][u] = Count(Own(r)', wsPeerSessions3'[r], u)
  <2>1. CASE r = s
    BY <1>2, <2>1
  <2>2. CASE r # s
    <3>1. /\ sessionsCount'[r] = sessionsCount[r] /\ Own(r)' = Own(r)
          /\ wsPeerSessions3'[r] = wsPeerSessions3[r] /\ uncounted'[r] = uncounted[r]
      BY <2>2 DEF AboutOnly
    <3>2. sessionsCount[r][u] = Count(Own(r), wsPeerSessions3[r], u)
      BY <1>2, <3>1 DEF CountInv, SessionsAreCounted
    <3> QED  BY <3>1, <3>2
  <2> QED  BY <2>1, <2>2
<1> QED  BY <1>1, <1>2 DEF CountInv, SessionsAreCounted

\* One count is made again, of the user whose sessions the step is about, or is
\* not, and then the user is noted as not counted.
LEMMA CountedForOne ==
    ASSUME CountInv, NEW s \in Servers, NEW there, NEW own, NEW peers, NEW v,
           Recount(s, there, own, peers, v),
           own = Own(s)', peers = wsPeerSessions3'[s],
           DOMAIN status' = Sessions, DOMAIN wsPeerSessions' = Servers,
           DOMAIN wsPeerSessions2' = Servers, DOMAIN wsPeerSessions3' = Servers,
           DOMAIN wsPeerSessions'[s] = DOMAIN wsPeerSessions[s],
           DOMAIN peers = DOMAIN wsPeerSessions3[s],
           \A y : y.user # v => (y \in own <=> y \in Own(s)),
           \A u \in Users : u # v =>
              \A p \in DOMAIN peers : Listed(peers[p], u) = Listed(wsPeerSessions3[s][p], u),
           \A r \in Servers \ {s} :
              /\ wsPeerSessions'[r] = wsPeerSessions[r] /\ Own(r)' = Own(r)
              /\ wsPeerSessions3'[r] = wsPeerSessions3[r]
    PROVE  CountInv'
<1>1. /\ DOMAIN sessionsCount' = Servers /\ DOMAIN sessionsCount'[s] = Users
      /\ DOMAIN uncounted' = Servers
      /\ \A r \in Servers \ {s} : /\ sessionsCount'[r] = sessionsCount[r]
                                  /\ uncounted'[r] = uncounted[r]
      /\ \A u \in Users :
            IF u = v
            THEN u \notin uncounted'[s] => sessionsCount'[s][u] = Count(own, peers, v)
            ELSE /\ sessionsCount'[s][u] = sessionsCount[s][u]
                 /\ u \in uncounted'[s] <=> u \in uncounted[s]
  <2>1. CASE there
    BY <2>1 DEF Recount, CountInv, Shapes
  <2>2. CASE ~there
    BY <2>2 DEF Recount, CountInv, Shapes
  <2> QED  BY <2>1, <2>2
<1>2. AboutOnly(s)
  BY <1>1 DEF AboutOnly, CountInv, Shapes
<1>3. ASSUME NEW u \in Users, u \notin uncounted'[s]
      PROVE  sessionsCount'[s][u] = Count(own, peers, u)
  <2>1. CASE u = v
    BY <1>1, <1>3, <2>1
  <2>2. CASE u # v
    <3>1. Count(Own(s), wsPeerSessions3[s], u) = Count(own, peers, u)
      BY <2>2, CountKept
    <3>2. sessionsCount[s][u] = Count(Own(s), wsPeerSessions3[s], u)
      BY <1>1, <1>3, <2>2 DEF CountInv, SessionsAreCounted
    <3> QED  BY <1>1, <2>2, <3>1, <3>2
  <2> QED  BY <2>1, <2>2
<1> QED  BY <1>2, <1>3, CountedAtOne

\* Nothing of what is counted changes.
LEMMA NothingCounted ==
    ASSUME CountInv, \A r \in Servers : Own(r)' = Own(r), DOMAIN status' = Sessions,
           UNCHANGED <<tableVars, countVars>>
    PROVE  CountInv'
<1>1. /\ wsPeerSessions' = wsPeerSessions /\ wsPeerSessions2' = wsPeerSessions2
      /\ wsPeerSessions3' = wsPeerSessions3 /\ sessionsCount' = sessionsCount
      /\ uncounted' = uncounted
  BY DEF tableVars, countVars
<1> QED  BY <1>1 DEF CountInv, Shapes, SessionsAreCounted

\* A server closes sessions of a user.
LEMMA ClosesCounted ==
    ASSUME CountInv, NEW s \in Servers, NEW v, NEW there, NEW X, X \subseteq Own(s),
           \A x \in X : x.user = v, CloseSessions(s, v, X, there), UNCHANGED tableVars
    PROVE  CountInv'
<1> DEFINE own == Own(s) \ X
<1>0. Shapes
  BY DEF CountInv
<1>1. /\ status' = [x \in Sessions |-> IF x \in X THEN "ended" ELSE status[x]]
      /\ wsPeerSessions' = wsPeerSessions /\ wsPeerSessions2' = wsPeerSessions2
      /\ wsPeerSessions3' = wsPeerSessions3
  BY DEF CloseSessions, tableVars
<1>2. /\ DOMAIN status' = Sessions /\ Own(s)' = own
      /\ \A r \in Servers \ {s} : Own(r)' = Own(r)
  BY <1>1 DEF Own
<1>3. CASE X = {} /\ UNCHANGED countVars
  <2>1. \A r \in Servers : Own(r)' = Own(r)
    BY <1>2, <1>3
  <2>2. UNCHANGED <<tableVars, countVars>>
    BY <1>3
  <2> QED  BY <1>2, <2>1, <2>2, NothingCounted
<1>4. CASE Recount(s, there, own, wsPeerSessions3[s], v)
  <2>1. \A y : y.user # v => (y \in own <=> y \in Own(s))
    OBVIOUS
  <2> HIDE DEF own
  <2> QED  BY <1>0, <1>1, <1>2, <1>4, <2>1, CountedForOne DEF Shapes
<1> QED  BY <1>3, <1>4 DEF CloseSessions

\* A server starts anew, by itself or because its code threw.
LEMMA AnewCounted ==
    ASSUME CountInv, NEW s \in Servers, StartsAnew(s)
    PROVE  CountInv'
<1>1. /\ status' = [x \in Sessions |->
                      IF x.at = s /\ status[x] \in {"asking", "listed"} THEN "ended"
                      ELSE status[x]]
      /\ wsPeerSessions' = [wsPeerSessions EXCEPT ![s] = <<>>]
      /\ wsPeerSessions2' = [wsPeerSessions2 EXCEPT ![s] = <<>>]
      /\ wsPeerSessions3' = [wsPeerSessions3 EXCEPT ![s] = <<>>]
      /\ sessionsCount' = [sessionsCount EXCEPT ![s] = [u \in Users |-> 0]]
      /\ uncounted' = [uncounted EXCEPT ![s] = {}]
  BY DEF StartsAnew
<1>2. \A r \in Servers : Own(r)' = IF r = s THEN {} ELSE Own(r)
  BY <1>1 DEF Own
<1>3. AboutOnly(s)
  BY <1>1, <1>2 DEF AboutOnly, CountInv, Shapes
<1>4. ASSUME NEW u \in Users
      PROVE  sessionsCount'[s][u] = Count(Own(s)', wsPeerSessions3'[s], u)
  <2>1. sessionsCount'[s][u] = 0 /\ wsPeerSessions3'[s] = <<>> /\ Own(s)' = {}
    BY <1>1, <1>2 DEF CountInv, Shapes
  <2>2. Count({}, <<>>, u) = 0
    BY CountOfNothing
  <2> QED  BY <2>1, <2>2
<1> QED  BY <1>3, <1>4, CountedAtOne

\* All the counts are made again, of a server whose own sessions are the same.
LEMMA CountedForAll ==
    ASSUME CountInv, NEW s \in Servers, RecountAll(s, Own(s), wsPeerSessions3'[s]),
           status' = status, DOMAIN wsPeerSessions' = Servers,
           DOMAIN wsPeerSessions2' = Servers, DOMAIN wsPeerSessions3' = Servers,
           DOMAIN wsPeerSessions'[s] = DOMAIN wsPeerSessions3'[s],
           \A r \in Servers \ {s} : /\ wsPeerSessions'[r] = wsPeerSessions[r]
                                    /\ wsPeerSessions3'[r] = wsPeerSessions3[r]
    PROVE  CountInv'
<1>1. \A r \in Servers : Own(r)' = Own(r)
  BY DEF Own
<1>2. /\ DOMAIN sessionsCount' = Servers /\ DOMAIN sessionsCount'[s] = Users
      /\ DOMAIN uncounted' = Servers
      /\ \A r \in Servers \ {s} : /\ sessionsCount'[r] = sessionsCount[r]
                                  /\ uncounted'[r] = uncounted[r]
      /\ \A u \in Users : sessionsCount'[s][u] = Count(Own(s), wsPeerSessions3'[s], u)
  BY DEF RecountAll, CountInv, Shapes
<1>3. AboutOnly(s)
  BY <1>1, <1>2 DEF AboutOnly, CountInv, Shapes
<1> QED  BY <1>1, <1>2, <1>3, CountedAtOne

-----------------------------------------------------------------------------
\* The lists of the other users, when a session of one is added or taken out.
LEMMA WithAtOne ==
    ASSUME NEW lists, NEW x, NEW u, u # x.user
    PROVE  /\ Listed(With(lists, x), u) = Listed(lists, u)
           /\ Listed(Without(lists, x), u) = Listed(lists, u)
<1>1. Listed(With(lists, x), u) = Listed(lists, u)
  BY DEF With, Put, Listed
<1>2. Listed(Without(lists, x), u) = Listed(lists, u)
  <2> DEFINE rest == RemoveFirst(Listed(lists, x.user), x)
             less == Restrict(lists, DOMAIN lists \ {x.user})
             put == [lists EXCEPT ![x.user] = rest]
  <2>1. Listed(less, u) = Listed(lists, u)
    BY DEF Restrict, Listed
  <2>2. Listed(put, u) = Listed(lists, u)
    <3> HIDE DEF rest
    <3> QED  BY DEF Listed
  <2>3. Without(lists, x) = less \/ Without(lists, x) = put
    BY Zenon DEF Without
  <2> HIDE DEF less, put
  <2> QED  BY <2>1, <2>2, <2>3
<1> QED  BY <1>1, <1>2

\* What the message about a session makes of the tables of its reader.
LEMMA StartTables ==
    ASSUME Shapes, NEW c \in Conns, NEW s \in Ends(c), NEW p, p = Peer(c, s), NEW x,
           wsPeerSessions' = [wsPeerSessions EXCEPT ![s][p] = Append(@, x)],
           wsPeerSessions2' = [wsPeerSessions2 EXCEPT ![s] = Put(@, {x}, p)],
           NEW lists,
           wsPeerSessions3' = [wsPeerSessions3 EXCEPT ![s] = Put(@, {p}, With(lists, x))]
    PROVE  /\ DOMAIN wsPeerSessions' = Servers /\ DOMAIN wsPeerSessions2' = Servers
           /\ DOMAIN wsPeerSessions3' = Servers
           /\ wsPeerSessions'[s] = [wsPeerSessions[s] EXCEPT ![p] = Append(@, x)]
           /\ wsPeerSessions2'[s] = Put(wsPeerSessions2[s], {x}, p)
           /\ wsPeerSessions3'[s] = Put(wsPeerSessions3[s], {p}, With(lists, x))
           /\ \A r \in Servers \ {s} : /\ wsPeerSessions'[r] = wsPeerSessions[r]
                                       /\ wsPeerSessions2'[r] = wsPeerSessions2[r]
                                       /\ wsPeerSessions3'[r] = wsPeerSessions3[r]
<1>1. s \in Servers
  BY ConnFacts
<1> QED  BY <1>1 DEF Shapes

LEMMA EndTables ==
    ASSUME Shapes, NEW c \in Conns, NEW s \in Ends(c), NEW p, p = Peer(c, s), NEW x,
           wsPeerSessions' = [wsPeerSessions EXCEPT ![s][p] = RemoveFirst(@, x)],
           wsPeerSessions2' = [wsPeerSessions2 EXCEPT ![s] = Restrict(@, DOMAIN @ \ {x})],
           wsPeerSessions3' = [wsPeerSessions3 EXCEPT ![s][p] = Without(@, x)],
           p \in DOMAIN wsPeerSessions[s]
    PROVE  /\ DOMAIN wsPeerSessions' = Servers /\ DOMAIN wsPeerSessions2' = Servers
           /\ DOMAIN wsPeerSessions3' = Servers
           /\ wsPeerSessions'[s] = [wsPeerSessions[s] EXCEPT ![p] = RemoveFirst(@, x)]
           /\ wsPeerSessions2'[s] = Restrict(wsPeerSessions2[s], DOMAIN wsPeerSessions2[s] \ {x})
           /\ wsPeerSessions3'[s] = [wsPeerSessions3[s] EXCEPT ![p] = Without(@, x)]
           /\ \A r \in Servers \ {s} : /\ wsPeerSessions'[r] = wsPeerSessions[r]
                                       /\ wsPeerSessions2'[r] = wsPeerSessions2[r]
                                       /\ wsPeerSessions3'[r] = wsPeerSessions3[r]
<1>1. s \in Servers
  BY ConnFacts
<1> QED  BY <1>1 DEF Shapes

LEMMA CountInit == Init => CountInv
<1> SUFFICES ASSUME Init  PROVE CountInv
  OBVIOUS
<1>1. /\ status = [x \in Sessions |-> "none"]
      /\ wsPeerSessions = [s \in Servers |-> <<>>] /\ wsPeerSessions2 = [s \in Servers |-> <<>>]
      /\ wsPeerSessions3 = [s \in Servers |-> <<>>]
      /\ sessionsCount = [s \in Servers |-> [u \in Users |-> 0]]
      /\ uncounted = [s \in Servers |-> {}]
  BY DEF Init
<1>2. \A s \in Servers : Own(s) = {}
  BY <1>1 DEF Own
<1>3. \A s \in Servers, u \in Users : Count(Own(s), wsPeerSessions3[s], u) = 0
  BY <1>1, <1>2, CountOfNothing
<1> QED  BY <1>1, <1>3 DEF CountInv, Shapes, SessionsAreCounted

\* Every step keeps the counts, whatever messages come.
THEOREM NextCounted == CountInv /\ [Next]_vars => CountInv'
<1> SUFFICES ASSUME CountInv, [Next]_vars  PROVE CountInv'
  OBVIOUS
<1> USE ConnFacts
<1>0. Shapes
  BY DEF CountInv
<1>1. ASSUME NEW x \in Sessions, Ask(x) \/ CloseUnheard(x) \/ SecondClose(x)  PROVE CountInv'
  <2>1. \/ status' = status
        \/ status[x] = "none" /\ status' = [status EXCEPT ![x] = "asking"]
    BY <1>1 DEF Ask, CloseUnheard, SecondClose
  <2>2. DOMAIN status' = Sessions /\ \A r \in Servers : Own(r)' = Own(r)
    BY <2>1, <1>0 DEF Own, Shapes
  <2>3. UNCHANGED <<tableVars, countVars>>
    BY <1>1 DEF Ask, CloseUnheard, SecondClose
  <2> QED  BY <2>2, <2>3, NothingCounted
<1>2. ASSUME NEW x \in Sessions, SessionStart(x)  PROVE CountInv'
  <2> DEFINE own == Own(x.at) \cup {x}
             there == x.user \in users[x.at]
  <2>1. /\ status[x] = "asking" /\ status' = [status EXCEPT ![x] = "listed"]
        /\ Recount(x.at, there, own, wsPeerSessions3[x.at], x.user)
        /\ wsPeerSessions' = wsPeerSessions /\ wsPeerSessions2' = wsPeerSessions2
        /\ wsPeerSessions3' = wsPeerSessions3
    BY <1>2 DEF SessionStart, tableVars
  <2>2. /\ x.at \in Servers /\ DOMAIN status' = Sessions /\ Own(x.at)' = own
        /\ \A r \in Servers \ {x.at} : Own(r)' = Own(r)
    BY <2>1, <1>0, SessionsAssumption DEF Own, Shapes
  <2>3. \A y : y.user # x.user => (y \in own <=> y \in Own(x.at))
    OBVIOUS
  <2> HIDE DEF own, there
  <2> QED  BY <2>1, <2>2, <2>3, <1>0, CountedForOne DEF Shapes
<1>3. ASSUME NEW x \in Sessions, SessionEnd(x) \/ SessionStopped(x)  PROVE CountInv'
  <2>1. /\ status[x] = "listed" /\ UNCHANGED tableVars
        /\ CloseSessions(x.at, x.user, {x}, x.user \in users[x.at])
    BY <1>3 DEF SessionEnd, SessionStopped
  <2>2. x.at \in Servers /\ {x} \subseteq Own(x.at)
    BY <2>1, SessionsAssumption DEF Own
  <2> QED  BY <2>1, <2>2, ClosesCounted
<1>4. ASSUME NEW s \in Servers, Restart(s)  PROVE CountInv'
  BY <1>4, AnewCounted DEF Restart
<1>5. ASSUME UNCHANGED <<status, tableVars, countVars>>  PROVE CountInv'
  BY <1>5, <1>0, NothingCounted DEF Own, Shapes
<1>12. ASSUME NEW s \in Servers, NEW u, DeleteUser(s, u)  PROVE CountInv'
  <2>1. CloseSessions(s, u, Hearing(s, u), FALSE) /\ UNCHANGED tableVars
    BY <1>12 DEF DeleteUser
  <2>2. Hearing(s, u) \subseteq Own(s) /\ \A x \in Hearing(s, u) : x.user = u
    BY DEF Hearing
  <2> QED  BY <2>1, <2>2, ClosesCounted
<1>13. ASSUME NEW c \in Conns, NEW s \in Ends(c), ReadBus(c, s)  PROVE CountInv'
  <2> DEFINE u == Head(chan[c][s]).user
  <2>1. CASE Ignored(c, s)
    BY <1>5, <2>1 DEF Ignored, lifeVars
  <2>2. CASE ~Ignored(c, s)
    <3>1. CloseSessions(s, u, Hearing(s, u), u \in users[s]) /\ UNCHANGED tableVars
      BY <1>13, <2>2 DEF ReadBus
    <3>2. Hearing(s, u) \subseteq Own(s) /\ \A x \in Hearing(s, u) : x.user = u
      BY DEF Hearing
    <3> HIDE DEF u
    <3> QED  BY <3>1, <3>2, ClosesCounted
  <2> QED  BY <2>1, <2>2
<1>6. ASSUME NEW c \in Conns, \/ Open(c)
                              \/ \E s \in Ends(c) : Confirmed(c, s) \/ SetupPeerServer(c, s)
      PROVE  CountInv'
  BY <1>5, <1>6 DEF Open, Confirmed, SetupPeerServer, lifeVars
<1>7. ASSUME NEW c \in Conns, NEW s \in Ends(c), Close(c, s)  PROVE CountInv'
  <2> DEFINE p == Peer(c, s)
  <2>1. CASE end[c][s] = "setup"
    <3>1. ForgetSessions(s, p) /\ status' = status
      BY <1>7, <2>1 DEF Close, lifeVars
    <3>2. /\ DOMAIN wsPeerSessions' = Servers /\ DOMAIN wsPeerSessions2' = Servers
          /\ DOMAIN wsPeerSessions3' = Servers
          /\ wsPeerSessions'[s] = Restrict(wsPeerSessions[s], DOMAIN wsPeerSessions[s] \ {p})
          /\ wsPeerSessions3'[s] = Restrict(wsPeerSessions3[s], DOMAIN wsPeerSessions3[s] \ {p})
          /\ \A r \in Servers \ {s} : /\ wsPeerSessions'[r] = wsPeerSessions[r]
                                      /\ wsPeerSessions3'[r] = wsPeerSessions3[r]
          /\ RecountAll(s, Own(s), wsPeerSessions3'[s])
      BY <3>1, <1>0 DEF ForgetSessions, Shapes
    <3>3. DOMAIN wsPeerSessions'[s] = DOMAIN wsPeerSessions3'[s]
      BY <3>2, <1>0 DEF Shapes, Restrict
    <3> QED  BY <3>1, <3>2, <3>3, CountedForAll
  <2>2. CASE end[c][s] # "setup"
    BY <1>5, <1>7, <2>2 DEF Close, lifeVars
  <2> QED  BY <2>1, <2>2
<1>8. ASSUME NEW c \in Conns, NEW s \in Ends(c), ReadTable(c, s)  PROVE CountInv'
  <2>1. CASE Ignored(c, s)
    BY <1>5, <2>1 DEF Ignored, lifeVars
  <2>2. CASE ~Ignored(c, s)
    <3> DEFINE p == Peer(c, s)
               list == Head(chan[c][s]).sessionsTable
               ofUsers == [u \in {x.user : x \in ToSet(list)} |-> OfUser(list, u)]
    <3>1. /\ wsPeerSessions' = [wsPeerSessions EXCEPT ![s] = Put(@, {p}, list)]
          /\ wsPeerSessions2' = [wsPeerSessions2 EXCEPT ![s] = Put(@, ToSet(list), p)]
          /\ wsPeerSessions3' = [wsPeerSessions3 EXCEPT ![s] = Put(@, {p}, ofUsers)]
          /\ RecountAll(s, Own(s), wsPeerSessions3'[s]) /\ status' = status
      BY <1>8, <2>2 DEF ReadTable, lifeVars
    <3> HIDE DEF list, ofUsers
    <3>2. /\ DOMAIN wsPeerSessions' = Servers /\ DOMAIN wsPeerSessions2' = Servers
          /\ DOMAIN wsPeerSessions3' = Servers
          /\ wsPeerSessions'[s] = Put(wsPeerSessions[s], {p}, list)
          /\ wsPeerSessions3'[s] = Put(wsPeerSessions3[s], {p}, ofUsers)
          /\ \A r \in Servers \ {s} : /\ wsPeerSessions'[r] = wsPeerSessions[r]
                                      /\ wsPeerSessions3'[r] = wsPeerSessions3[r]
      BY <3>1, <1>0 DEF Shapes
    <3>3. DOMAIN wsPeerSessions'[s] = DOMAIN wsPeerSessions3'[s]
      BY <3>2, <1>0 DEF Shapes, Put
    <3> QED  BY <3>1, <3>2, <3>3, CountedForAll
  <2> QED  BY <2>1, <2>2
<1>9. ASSUME NEW c \in Conns, NEW s \in Ends(c), ReadStart(c, s)  PROVE CountInv'
  <2> DEFINE p == Peer(c, s)
             x == Head(chan[c][s]).sessionid
             lists == IF p \in DOMAIN wsPeerSessions3[s] THEN wsPeerSessions3[s][p] ELSE <<>>
  <2>1. CASE Ignored(c, s)
    BY <1>5, <2>1 DEF Ignored, lifeVars
  <2>2. CASE StartsAnew(s)
    BY <2>2, AnewCounted
  <2>3. CASE ~Ignored(c, s) /\ ~StartsAnew(s)
    <3>1. /\ p \in DOMAIN wsPeerSessions[s] /\ status' = status
          /\ wsPeerSessions' = [wsPeerSessions EXCEPT ![s][p] = Append(@, x)]
          /\ wsPeerSessions2' = [wsPeerSessions2 EXCEPT ![s] = Put(@, {x}, p)]
          /\ wsPeerSessions3' = [wsPeerSessions3 EXCEPT ![s] = Put(@, {p}, With(lists, x))]
          /\ Recount(s, x.user \in users[s], Own(s), wsPeerSessions3'[s], x.user)
      BY <1>9, <2>3, <1>0 DEF ReadStart, Shapes, lifeVars
    <3> HIDE DEF x, lists
    <3>2. /\ DOMAIN wsPeerSessions' = Servers /\ DOMAIN wsPeerSessions2' = Servers
          /\ DOMAIN wsPeerSessions3' = Servers
          /\ wsPeerSessions'[s] = [wsPeerSessions[s] EXCEPT ![p] = Append(@, x)]
          /\ wsPeerSessions3'[s] = Put(wsPeerSessions3[s], {p}, With(lists, x))
          /\ \A r \in Servers \ {s} : /\ wsPeerSessions'[r] = wsPeerSessions[r]
                                      /\ wsPeerSessions3'[r] = wsPeerSessions3[r]
      BY <3>1, <1>0, StartTables
    <3>3. \A r \in Servers : Own(r)' = Own(r)
      BY <3>1 DEF Own
    <3>4. DOMAIN wsPeerSessions'[s] = DOMAIN wsPeerSessions[s]
      BY <3>2
    <3>7. /\ p \in DOMAIN wsPeerSessions3[s]
          /\ DOMAIN wsPeerSessions3'[s] = DOMAIN wsPeerSessions3[s]
          /\ \A o \in DOMAIN wsPeerSessions3[s] : wsPeerSessions3'[s][o] =
                IF o = p THEN With(lists, x) ELSE wsPeerSessions3[s][o]
      <4>1. p \in DOMAIN wsPeerSessions3[s]
        BY <3>1, <1>0 DEF Shapes
      <4>2. wsPeerSessions3'[s] = Put(wsPeerSessions3[s], {p}, With(lists, x))
        BY <3>2
      <4> QED  BY <4>1, <4>2 DEF Put
    <3>5. \A u \in Users : u # x.user =>
             \A o \in DOMAIN wsPeerSessions3'[s] :
                Listed(wsPeerSessions3'[s][o], u) = Listed(wsPeerSessions3[s][o], u)
      BY <3>7, WithAtOne DEF lists
    <3>6. DOMAIN status' = Sessions
      BY <3>1, <1>0 DEF Shapes
    <3>8. \A r \in Servers \ {s} : /\ wsPeerSessions'[r] = wsPeerSessions[r]
                                     /\ wsPeerSessions3'[r] = wsPeerSessions3[r]
      BY <3>2
    <3>9. /\ Recount(s, x.user \in users[s], Own(s), wsPeerSessions3'[s], x.user)
          /\ DOMAIN wsPeerSessions' = Servers /\ DOMAIN wsPeerSessions2' = Servers
          /\ DOMAIN wsPeerSessions3' = Servers
      BY <3>1, <3>2
    <3> QED  BY <3>3, <3>4, <3>5, <3>6, <3>7, <3>8, <3>9, CountedForOne
  <2> QED  BY <2>1, <2>2, <2>3
<1>10. ASSUME NEW c \in Conns, NEW s \in Ends(c), ReadEnd(c, s)  PROVE CountInv'
  <2> DEFINE p == Peer(c, s)
             x == Head(chan[c][s]).sessionid
  <2>1. CASE Ignored(c, s)
    BY <1>5, <2>1 DEF Ignored, lifeVars
  <2>2. CASE StartsAnew(s)
    BY <2>2, AnewCounted
  <2>3. CASE ~Ignored(c, s) /\ ~StartsAnew(s)
    <3>1. /\ p \in DOMAIN wsPeerSessions[s] /\ status' = status
          /\ wsPeerSessions' = [wsPeerSessions EXCEPT ![s][p] = RemoveFirst(@, x)]
          /\ wsPeerSessions2' = [wsPeerSessions2 EXCEPT ![s] = Restrict(@, DOMAIN @ \ {x})]
          /\ wsPeerSessions3' = [wsPeerSessions3 EXCEPT ![s][p] = Without(@, x)]
          /\ Recount(s, x.user \in users[s], Own(s), wsPeerSessions3'[s], x.user)
      BY <1>10, <2>3 DEF ReadEnd, lifeVars
    <3> HIDE DEF x
    <3>2. /\ DOMAIN wsPeerSessions' = Servers /\ DOMAIN wsPeerSessions2' = Servers
          /\ DOMAIN wsPeerSessions3' = Servers
          /\ wsPeerSessions'[s] = [wsPeerSessions[s] EXCEPT ![p] = RemoveFirst(@, x)]
          /\ wsPeerSessions3'[s] = [wsPeerSessions3[s] EXCEPT ![p] = Without(@, x)]
          /\ \A r \in Servers \ {s} : /\ wsPeerSessions'[r] = wsPeerSessions[r]
                                      /\ wsPeerSessions3'[r] = wsPeerSessions3[r]
      BY <3>1, <1>0, EndTables
    <3>3. \A r \in Servers : Own(r)' = Own(r)
      BY <3>1 DEF Own
    <3>4. /\ p \in DOMAIN wsPeerSessions3[s]
          /\ DOMAIN wsPeerSessions'[s] = DOMAIN wsPeerSessions[s]
          /\ DOMAIN wsPeerSessions3'[s] = DOMAIN wsPeerSessions3[s]
          /\ \A o \in DOMAIN wsPeerSessions3[s] : wsPeerSessions3'[s][o] =
                IF o = p THEN Without(wsPeerSessions3[s][p], x) ELSE wsPeerSessions3[s][o]
      BY <3>1, <3>2, <1>0 DEF Shapes
    <3>5. \A u \in Users : u # x.user =>
             \A o \in DOMAIN wsPeerSessions3'[s] :
                Listed(wsPeerSessions3'[s][o], u) = Listed(wsPeerSessions3[s][o], u)
      BY <3>4, WithAtOne
    <3>6. DOMAIN status' = Sessions
      BY <3>1, <1>0 DEF Shapes
    <3> QED  BY <3>1, <3>2, <3>3, <3>4, <3>5, <3>6, CountedForOne
  <2> QED  BY <2>1, <2>2, <2>3
<1>11. CASE UNCHANGED vars
  BY <1>5, <1>11 DEF vars, lifeVars
<1>14. ASSUME NEW s \in Servers, NEW u, ChangeAccount(s, u)  PROVE CountInv'
  BY <1>5, <1>14 DEF ChangeAccount, lifeVars
<1> QED  BY <1>1, <1>2, <1>3, <1>4, <1>6, <1>7, <1>8, <1>9, <1>10, <1>11, <1>12, <1>13, <1>14
        DEF Next

\* The number of sessions a server shows of a user is always that of the user's
\* sessions it has itself and knows of its peers: to count one user again after a
\* start or an end is enough, and a connection that overlaps another, or code that
\* throws, changes nothing about it.
THEOREM SessionsAreAlwaysCounted == Spec => []SessionsAreCounted
<1>1. CountInv => SessionsAreCounted
  BY DEF CountInv
<1> QED  BY CountInit, NextCounted, <1>1, PTL DEF Spec

-----------------------------------------------------------------------------
\* The messages that change the receiver's tables, and the sessions one of them
\* brings.
Data == {"sessionsTable", "sessionStart", "sessionEnd"}
Brings(m) ==
    IF m.action = "sessionsTable" THEN ToSet(m.sessionsTable)
    ELSE IF m.action = "sessionStart" THEN {m.sessionid} ELSE {}

\* The sessions of server p that were ever listed, and those server s knows of.
Started(p) == {x \in Sessions : x.at = p /\ status[x] \in {"listed", "ended"}}
Knows(s, p) == p \in DOMAIN wsPeerSessions[s]
Known(s, p) == IF Knows(s, p) THEN ToSet(wsPeerSessions[s][p]) ELSE {}

\* A message of a server whose sessions that were ever listed are B.
MessageOf(m, B) ==
    /\ Brings(m) \subseteq B
    /\ m.action = "sessionsTable" => ListOf(m.sessionsTable, ToSet(m.sessionsTable))
    /\ m.action = "sessionEnd" => m.sessionid \in B \cup {NoSession}

\* Channel q from a server with those sessions, whose end is in state e, to one
\* that knows the set known of them, and has a list of the server if has.  No
\* session comes twice, and the list comes to who has none.
ComesOnce(q, e, has, known, B) ==
    /\ e \in {"none", "open"} => ~has /\ \A i \in 1..Len(q) : q[i].action \notin Data
    /\ \A i \in 1..Len(q) : MessageOf(q[i], B) /\ Brings(q[i]) \cap known = {}
    /\ \A i, j \in 1..Len(q) : i # j => Brings(q[i]) \cap Brings(q[j]) = {}
    /\ \A i \in 1..Len(q) : q[i].action = "sessionsTable" =>
          ~has /\ \A j \in 1..Len(q) : q[j].action = "sessionsTable" => j = i

LEMMA TakeKeeps ==
    ASSUME NEW q, IsSeq(q), q # <<>>, NEW e, NEW has \in BOOLEAN, NEW known, NEW B,
           ComesOnce(q, e, has, known, B),
           NEW has2 \in BOOLEAN, has2 => has \/ Head(q).action = "sessionsTable",
           NEW known2, known2 \subseteq known \cup Brings(Head(q))
    PROVE  /\ IsSeq(Tail(q)) /\ ComesOnce(Tail(q), e, has2, known2, B)
           /\ MessageOf(Head(q), B) /\ Brings(Head(q)) \cap known = {}
           /\ Head(q).action = "sessionsTable" => ~has
<1> DEFINE t == Tail(q)
<1>1. /\ Len(q) \in Nat \ {0} /\ Len(t) = Len(q) - 1 /\ Head(q) = q[1] /\ IsSeq(t)
      /\ \A i \in 1..Len(t) : t[i] = q[i + 1]
  BY TailOfSeq
<1>2. \A i \in 1..Len(t) : i + 1 \in 1..Len(q) /\ i + 1 # 1
  BY <1>1
<1>3. 1 \in 1..Len(q)
  BY <1>1
<1> HIDE DEF t
<1>4. /\ MessageOf(q[1], B) /\ Brings(q[1]) \cap known = {}
      /\ q[1].action = "sessionsTable" =>
            ~has /\ \A j \in 1..Len(q) : q[j].action = "sessionsTable" => j = 1
  BY <1>3 DEF ComesOnce
<1>5. ASSUME e \in {"none", "open"}
      PROVE  ~has2 /\ \A i \in 1..Len(t) : t[i].action \notin Data
  <2>1. ~has /\ \A i \in 1..Len(q) : q[i].action \notin Data
    BY <1>5 DEF ComesOnce
  <2>2. q[1].action # "sessionsTable"
    BY <2>1, <1>3 DEF Data
  <2> QED  BY <2>1, <2>2, <1>1, <1>2
<1>6. ASSUME NEW i \in 1..Len(t)
      PROVE  MessageOf(t[i], B) /\ Brings(t[i]) \cap known2 = {}
  <2>1. /\ MessageOf(q[i + 1], B) /\ Brings(q[i + 1]) \cap known = {}
        /\ Brings(q[i + 1]) \cap Brings(q[1]) = {}
    BY <1>2, <1>3 DEF ComesOnce
  <2> QED  BY <2>1, <1>1
<1>7. ASSUME NEW i \in 1..Len(t), NEW j \in 1..Len(t), i # j
      PROVE  Brings(t[i]) \cap Brings(t[j]) = {}
  <2>1. i + 1 # j + 1
    BY <1>7
  <2>2. Brings(q[i + 1]) \cap Brings(q[j + 1]) = {}
    BY <1>2, <2>1 DEF ComesOnce
  <2> QED  BY <2>2, <1>1
<1>8. ASSUME NEW i \in 1..Len(t), t[i].action = "sessionsTable"
      PROVE  ~has2 /\ \A j \in 1..Len(t) : t[j].action = "sessionsTable" => j = i
  <2>1. q[i + 1].action = "sessionsTable" /\ i + 1 \in 1..Len(q)
    BY <1>1, <1>2, <1>8
  <2>2. ~has /\ \A j \in 1..Len(q) : q[j].action = "sessionsTable" => j = i + 1
    BY <2>1 DEF ComesOnce
  <2>3. q[1].action # "sessionsTable"
    BY <2>2, <1>2, <1>3
  <2>4. \A j \in 1..Len(t) : t[j].action = "sessionsTable" => j + 1 = i + 1
    BY <2>2, <1>1, <1>2
  <2> QED  BY <2>2, <2>3, <2>4, <1>1
<1>9. ComesOnce(t, e, has2, known2, B)
  BY <1>5, <1>6, <1>7, <1>8 DEF ComesOnce
<1> QED  BY <1>1, <1>4, <1>9 DEF t

LEMMA AddKeeps ==
    ASSUME NEW q, IsSeq(q), NEW e, NEW e2, NEW has \in BOOLEAN, NEW known, NEW B, NEW B2, NEW m,
           ComesOnce(q, e, has, known, B), B \subseteq B2, MessageOf(m, B2),
           Brings(m) \cap known = {},
           \A i \in 1..Len(q) : Brings(m) \cap Brings(q[i]) = {},
           m.action = "sessionsTable" =>
              ~has /\ \A i \in 1..Len(q) : q[i].action # "sessionsTable",
           e2 \in {"none", "open"} => e \in {"none", "open"} /\ m.action \notin Data
    PROVE  IsSeq(Append(q, m)) /\ ComesOnce(Append(q, m), e2, has, known, B2)
<1> DEFINE a == Append(q, m)
           n == Len(q) + 1
<1>1. /\ Len(q) \in Nat /\ Len(a) = n /\ a[n] = m /\ IsSeq(a)
      /\ \A i \in 1..Len(q) : a[i] = q[i]
  BY AppendToSeq
<1> HIDE DEF a
<1>2. \A i \in 1..Len(a) : i \in 1..Len(q) \/ i = n
  BY <1>1
<1> HIDE DEF n
<1>3. \A i \in 1..Len(q) : MessageOf(q[i], B2) /\ Brings(q[i]) \cap known = {}
  BY DEF ComesOnce, MessageOf
<1>4. ASSUME e2 \in {"none", "open"}
      PROVE  ~has /\ \A i \in 1..Len(a) : a[i].action \notin Data
  <2>1. ~has /\ \A i \in 1..Len(q) : q[i].action \notin Data
    BY <1>4 DEF ComesOnce
  <2> QED  BY <1>1, <1>2, <1>4, <2>1
<1>5. \A i \in 1..Len(a) : MessageOf(a[i], B2) /\ Brings(a[i]) \cap known = {}
  BY <1>1, <1>2, <1>3
<1>6. ASSUME NEW i \in 1..Len(a), NEW j \in 1..Len(a), i # j
      PROVE  Brings(a[i]) \cap Brings(a[j]) = {}
  <2>1. CASE i \in 1..Len(q) /\ j \in 1..Len(q)
    BY <2>1, <1>1, <1>6 DEF ComesOnce
  <2>2. CASE i = n \/ j = n
    BY <2>2, <1>1, <1>2, <1>6
  <2> QED  BY <2>1, <2>2, <1>2
<1>7. ASSUME NEW i \in 1..Len(a), a[i].action = "sessionsTable"
      PROVE  ~has /\ \A j \in 1..Len(a) : a[j].action = "sessionsTable" => j = i
  <2>1. CASE i \in 1..Len(q)
    <3>1. q[i].action = "sessionsTable"
      BY <2>1, <1>1, <1>7
    <3>2. ~has /\ \A j \in 1..Len(q) : q[j].action = "sessionsTable" => j = i
      BY <2>1, <3>1 DEF ComesOnce
    <3> QED  BY <2>1, <3>1, <3>2, <1>1, <1>2
  <2>2. CASE i = n
    BY <2>2, <1>1, <1>2, <1>7
  <2> QED  BY <2>1, <2>2, <1>2
<1>8. ComesOnce(a, e2, has, known, B2)
  BY <1>4, <1>5, <1>6, <1>7 DEF ComesOnce
<1> QED  BY <1>1, <1>8 DEF a

\* The messages that a server sends of its sessions, of which those that were ever
\* listed are B before and B2 after: what they bring is new, and comes once.
News(w, B, B2) ==
    /\ IsSeq(w) /\ B \subseteq B2
    /\ \A i \in 1..Len(w) : /\ MessageOf(w[i], B2) /\ w[i].action # "sessionsTable"
                            /\ Brings(w[i]) \cap B = {}
    /\ \A i, j \in 1..Len(w) : i # j => Brings(w[i]) \cap Brings(w[j]) = {}

LEMMA NewsKeep ==
    ASSUME NEW q, IsSeq(q), NEW e, NEW has \in BOOLEAN, NEW known, NEW B, NEW B2, NEW w,
           ComesOnce(q, e, has, known, B), known \subseteq B, News(w, B, B2),
           e \notin {"none", "open"}
    PROVE  IsSeq(q \o w) /\ ComesOnce(q \o w, e, has, known, B2)
<1> DEFINE a == q \o w
           n == Len(q)
<1>1. /\ IsSeq(a) /\ \A i \in 1..n : a[i] = q[i]
      /\ \A i \in 1..Len(a) : i \notin 1..n => i - n \in 1..Len(w) /\ a[i] = w[i - n]
      /\ n \in Nat /\ Len(a) \in Nat
  BY ConcatOfSeqs DEF News
<1> HIDE DEF a
<1>2. \A i \in 1..n : MessageOf(q[i], B2) /\ Brings(q[i]) \cap known = {} /\ Brings(q[i]) \subseteq B
  BY DEF ComesOnce, MessageOf, News
<1>3. \A i \in 1..Len(a) : i \notin 1..n =>
         /\ MessageOf(a[i], B2) /\ a[i].action # "sessionsTable" /\ Brings(a[i]) \cap B = {}
  BY <1>1 DEF News
<1>4. \A i \in 1..Len(a) : MessageOf(a[i], B2) /\ Brings(a[i]) \cap known = {}
  BY <1>1, <1>2, <1>3
<1>5. ASSUME NEW i \in 1..Len(a), NEW j \in 1..Len(a), i # j
      PROVE  Brings(a[i]) \cap Brings(a[j]) = {}
  <2>1. CASE i \in 1..n /\ j \in 1..n
    BY <2>1, <1>1, <1>5 DEF ComesOnce
  <2>2. CASE i \in 1..n /\ j \notin 1..n
    BY <2>2, <1>1, <1>2, <1>3
  <2>3. CASE i \notin 1..n /\ j \in 1..n
    BY <2>3, <1>1, <1>2, <1>3
  <2>4. CASE i \notin 1..n /\ j \notin 1..n
    <3>1. i - n \in 1..Len(w) /\ j - n \in 1..Len(w) /\ a[i] = w[i - n] /\ a[j] = w[j - n]
      BY <2>4, <1>1
    <3>2. i - n # j - n
      BY <1>1, <1>5
    <3> QED  BY <3>1, <3>2 DEF News
  <2> QED  BY <2>1, <2>2, <2>3, <2>4
<1>6. ASSUME NEW i \in 1..Len(a), a[i].action = "sessionsTable"
      PROVE  ~has /\ \A j \in 1..Len(a) : a[j].action = "sessionsTable" => j = i
  <2>1. \A j \in 1..Len(a) : a[j].action = "sessionsTable" => j \in 1..n
    BY <1>3
  <2>2. i \in 1..n /\ q[i].action = "sessionsTable"
    BY <1>1, <1>6, <2>1
  <2>3. ~has /\ \A j \in 1..n : q[j].action = "sessionsTable" => j = i
    BY <2>2 DEF ComesOnce
  <2> QED  BY <1>1, <2>1, <2>3
<1> HIDE DEF n
<1>7. ComesOnce(a, e, has, known, B2)
  BY <1>4, <1>5, <1>6 DEF ComesOnce
<1> QED  BY <1>1, <1>7 DEF a

LEMMA WeakerKeeps ==
    ASSUME NEW q, NEW e, NEW has \in BOOLEAN, NEW known, NEW B, ComesOnce(q, e, has, known, B),
           NEW e2, NEW has2 \in BOOLEAN, NEW known2, NEW B2,
           e2 \in {"none", "open"} => e \in {"none", "open"},
           has2 => has, known2 \subseteq known, B \subseteq B2
    PROVE  ComesOnce(q, e2, has2, known2, B2)
<1>1. \A i \in 1..Len(q) : MessageOf(q[i], B2) /\ Brings(q[i]) \cap known2 = {}
  BY DEF ComesOnce, MessageOf
<1> QED  BY <1>1 DEF ComesOnce

-----------------------------------------------------------------------------
\* What is on its way to end s of connection c.
EndOK(c, s) ==
    LET p == Peer(c, s) IN
    /\ IsSeq(chan[c][s])
    /\ end[c][s] \notin Alive => chan[c][s] = <<>>
    /\ end[c][s] \in Alive =>
          ComesOnce(chan[c][s], end[c][p], Knows(s, p), Known(s, p), Started(p))

ChanInv ==
    /\ DOMAIN chan = Conns /\ \A c \in Conns : DOMAIN chan[c] = Servers
    /\ \A c \in Conns : \A s \in Ends(c) : EndOK(c, s)

\* The lists are of connected peers, and of sessions these have had.
PeersOnly ==
    \A s, p \in Servers : Knows(s, p) =>
        s # p /\ peerServers[s][p] # NoConn /\ Known(s, p) \subseteq Started(p)

Agreement ==
    \A s \in Servers :
        TablesAgree(wsPeerSessions[s], wsPeerSessions2[s], wsPeerSessions3[s])

RouteInv == LinkInv /\ ChanInv /\ PeersOnly /\ Agreement
IInv == CountInv /\ RouteInv

-----------------------------------------------------------------------------
\* What a step may do at an end.
LEMMA EndKept ==
    ASSUME NEW d \in Conns, NEW r \in Ends(d), EndOK(d, r), NEW p, p = Peer(d, r),
           chan'[d][r] = chan[d][r], end'[d][r] = end[d][r],
           end'[d][p] \in {"none", "open"} => end[d][p] \in {"none", "open"},
           end[d][r] \in Alive =>
              (Knows(r, p)' => Knows(r, p)) /\ Known(r, p)' \subseteq Known(r, p),
           Started(p) \subseteq Started(p)'
    PROVE  EndOK(d, r)'
<1>1. CASE end[d][r] \notin Alive
  BY <1>1 DEF EndOK
<1>2. CASE end[d][r] \in Alive
  <2>1. ComesOnce(chan[d][r], end[d][p], Knows(r, p), Known(r, p), Started(p))
    BY <1>2 DEF EndOK
  <2>2. Knows(r, p) \in BOOLEAN /\ Knows(r, p)' \in BOOLEAN
    BY DEF Knows
  <2>3. ComesOnce(chan[d][r], end'[d][p], Knows(r, p)', Known(r, p)', Started(p)')
    BY <1>2, <2>1, <2>2, WeakerKeeps
  <2> QED  BY <1>2, <2>3 DEF EndOK
<1> QED  BY <1>1, <1>2

LEMMA EndEmpty ==
    ASSUME NEW d \in Conns, NEW r \in Ends(d), chan'[d][r] = <<>>, end'[d][r] \notin Alive
    PROVE  EndOK(d, r)'
BY EmptyIsSeq DEF EndOK

LEMMA EndAdds ==
    ASSUME NEW d \in Conns, NEW r \in Ends(d), EndOK(d, r), NEW p, p = Peer(d, r), NEW m,
           end[d][r] \in Alive, end'[d][r] = end[d][r],
           chan'[d][r] = Append(chan[d][r], m),
           Knows(r, p)' = Knows(r, p), Known(r, p)' = Known(r, p),
           Started(p) \subseteq Started(p)', MessageOf(m, Started(p)'),
           Brings(m) \cap Known(r, p) = {},
           \A i \in 1..Len(chan[d][r]) : Brings(m) \cap Brings(chan[d][r][i]) = {},
           m.action = "sessionsTable" =>
              ~Knows(r, p) /\ \A i \in 1..Len(chan[d][r]) : chan[d][r][i].action # "sessionsTable",
           end'[d][p] \in {"none", "open"} => end[d][p] \in {"none", "open"} /\ m.action \notin Data
    PROVE  EndOK(d, r)'
<1>1. /\ IsSeq(chan[d][r])
      /\ ComesOnce(chan[d][r], end[d][p], Knows(r, p), Known(r, p), Started(p))
  BY DEF EndOK
<1>2. Knows(r, p) \in BOOLEAN
  BY DEF Knows
<1>3. /\ IsSeq(Append(chan[d][r], m))
      /\ ComesOnce(Append(chan[d][r], m), end'[d][p], Knows(r, p), Known(r, p), Started(p)')
  <2> DEFINE q == chan[d][r]
             e == end[d][p]
             e2 == end'[d][p]
             has == Knows(r, p)
             known == Known(r, p)
             B == Started(p)
             B2 == Started(p)'
  <2>1. /\ IsSeq(q) /\ has \in BOOLEAN /\ ComesOnce(q, e, has, known, B)
        /\ B \subseteq B2 /\ MessageOf(m, B2) /\ Brings(m) \cap known = {}
        /\ \A i \in 1..Len(q) : Brings(m) \cap Brings(q[i]) = {}
        /\ m.action = "sessionsTable" =>
              ~has /\ \A i \in 1..Len(q) : q[i].action # "sessionsTable"
        /\ e2 \in {"none", "open"} => e \in {"none", "open"} /\ m.action \notin Data
    BY <1>1, <1>2
  <2> HIDE DEF q, e, e2, has, known, B, B2
  <2>2. IsSeq(Append(q, m)) /\ ComesOnce(Append(q, m), e2, has, known, B2)
    BY <2>1, AddKeeps
  <2> QED  BY <2>2 DEF q, e2, has, known, B2
<1> QED  BY <1>3 DEF EndOK

LEMMA EndTold ==
    ASSUME NEW d \in Conns, NEW r \in Ends(d), EndOK(d, r), NEW p, p = Peer(d, r), NEW w,
           end[d][r] \in Alive, end'[d][r] = end[d][r], end'[d][p] = end[d][p],
           end[d][p] \notin {"none", "open"}, chan'[d][r] = chan[d][r] \o w,
           Knows(r, p)' = Knows(r, p), Known(r, p)' = Known(r, p),
           Known(r, p) \subseteq Started(p), News(w, Started(p), Started(p)')
    PROVE  EndOK(d, r)'
<1>1. /\ IsSeq(chan[d][r])
      /\ ComesOnce(chan[d][r], end[d][p], Knows(r, p), Known(r, p), Started(p))
  BY DEF EndOK
<1>2. Knows(r, p) \in BOOLEAN
  BY DEF Knows
<1>3. /\ IsSeq(chan[d][r] \o w)
      /\ ComesOnce(chan[d][r] \o w, end[d][p], Knows(r, p), Known(r, p), Started(p)')
  <2> DEFINE q == chan[d][r]
             e == end[d][p]
             has == Knows(r, p)
             known == Known(r, p)
             B == Started(p)
             B2 == Started(p)'
  <2>1. /\ IsSeq(q) /\ has \in BOOLEAN /\ ComesOnce(q, e, has, known, B)
        /\ known \subseteq B /\ News(w, B, B2) /\ e \notin {"none", "open"}
    BY <1>1, <1>2
  <2> HIDE DEF q, e, has, known, B, B2
  <2>2. IsSeq(q \o w) /\ ComesOnce(q \o w, e, has, known, B2)
    BY <2>1, NewsKeep
  <2> QED  BY <2>2 DEF q, e, has, known, B2
<1> QED  BY <1>3 DEF EndOK

LEMMA EndTakes ==
    ASSUME NEW d \in Conns, NEW r \in Ends(d), EndOK(d, r), NEW p, p = Peer(d, r),
           end[d][r] \in Alive, chan[d][r] # <<>>, end'[d][r] \in Alive,
           end'[d][p] = end[d][p], chan'[d][r] = Tail(chan[d][r]),
           Started(p) \subseteq Started(p)',
           Knows(r, p)' => Knows(r, p) \/ Head(chan[d][r]).action = "sessionsTable",
           Known(r, p)' \subseteq Known(r, p) \cup Brings(Head(chan[d][r]))
    PROVE  EndOK(d, r)'
<1>1. /\ IsSeq(chan[d][r])
      /\ ComesOnce(chan[d][r], end[d][p], Knows(r, p), Known(r, p), Started(p))
  BY DEF EndOK
<1>2. Knows(r, p) \in BOOLEAN /\ Knows(r, p)' \in BOOLEAN
  BY DEF Knows
<1>3. /\ IsSeq(Tail(chan[d][r]))
      /\ ComesOnce(Tail(chan[d][r]), end[d][p], Knows(r, p)', Known(r, p)', Started(p)')
  <2> DEFINE q == chan[d][r]
             e == end[d][p]
             has == Knows(r, p)
             has2 == Knows(r, p)'
             known == Known(r, p)
             known2 == Known(r, p)'
             B == Started(p)
             B2 == Started(p)'
  <2>1. /\ IsSeq(q) /\ q # <<>> /\ has \in BOOLEAN /\ ComesOnce(q, e, has, known, B)
        /\ has2 \in BOOLEAN /\ (has2 => has \/ Head(q).action = "sessionsTable")
        /\ known2 \subseteq known \cup Brings(Head(q)) /\ B \subseteq B2
    BY <1>1, <1>2
  <2> HIDE DEF q, e, has, has2, known, known2, B, B2
  <2>2. IsSeq(Tail(q)) /\ ComesOnce(Tail(q), e, has2, known2, B)
    BY <2>1, TakeKeeps
  <2>3. ComesOnce(Tail(q), e, has2, known2, B2)
    BY <2>1, <2>2, WeakerKeeps
  <2> QED  BY <2>2, <2>3 DEF q, e, has2, known2, B2
<1> QED  BY <1>3 DEF EndOK

\* The tables and the sessions of a server are as they were.
LEMMA KnownKept ==
    ASSUME NEW r, NEW p, wsPeerSessions'[r] = wsPeerSessions[r]
    PROVE  Knows(r, p)' = Knows(r, p) /\ Known(r, p)' = Known(r, p)
BY DEF Knows, Known

-----------------------------------------------------------------------------
\* Steps that change no table.
TablesKept == wsPeerSessions' = wsPeerSessions /\ wsPeerSessions2' = wsPeerSessions2
              /\ wsPeerSessions3' = wsPeerSessions3

LEMMA AgreementKept == ASSUME Agreement, TablesKept  PROVE Agreement'
  BY DEF Agreement, TablesKept

LEMMA PeersKept ==
    ASSUME PeersOnly, TablesKept, \A p \in Servers : Started(p) \subseteq Started(p)',
           \A s, p \in Servers : peerServers'[s][p] = NoConn => peerServers[s][p] = NoConn
    PROVE  PeersOnly'
<1> SUFFICES ASSUME NEW s \in Servers, NEW p \in Servers, Knows(s, p)'
             PROVE  s # p /\ peerServers'[s][p] # NoConn /\ Known(s, p)' \subseteq Started(p)'
  BY DEF PeersOnly
<1>1. Knows(s, p)' = Knows(s, p) /\ Known(s, p)' = Known(s, p)
  BY KnownKept DEF TablesKept
<1> QED  BY <1>1 DEF PeersOnly

\* The channels ch that a server s finds when it sends: it took a message that
\* brings no session, or none.
Found(ch, s) ==
    /\ DOMAIN ch = Conns /\ \A d \in Conns : DOMAIN ch[d] = Servers
    /\ \A d \in Conns : \A r \in Ends(d) :
          \/ ch[d][r] = chan[d][r]
          \/ /\ r = s /\ end[d][r] \in Alive /\ chan[d][r] # <<>>
             /\ ch[d][r] = Tail(chan[d][r])

\* Sessions of a server start or end: its peers are told, of whom none knows a
\* session before it started.
LEMMA LocalStep ==
    ASSUME RouteInv, ~Overlap, NEW s \in Servers, NEW w, NEW ch, Found(ch, s),
           chan' = DispatchAll(ch, s, w), TablesKept,
           UNCHANGED <<peerServers, end>>, News(w, Started(s), Started(s)'),
           \A p \in Servers : Started(p) \subseteq Started(p)'
    PROVE  RouteInv'
<1> USE ConnFacts
<1>1. LinkInv'
  BY LinkStepInv DEF RouteInv, LinkStep
<1>2. /\ DOMAIN chan' = Conns
      /\ \A d \in Conns : \/ chan'[d] = ch[d]
                          \/ /\ \E p \in Servers : peerServers[s][p] = d
                             /\ end[d][Peer(d, s)] \in Alive
                             /\ chan'[d] = [ch[d] EXCEPT ![Peer(d, s)] = @ \o w]
  BY DEF DispatchAll
<1>3. PeersOnly' /\ Agreement'
  BY PeersKept, AgreementKept DEF RouteInv
<1>4. \A d \in Conns : DOMAIN ch[d] = Servers /\ DOMAIN chan'[d] = Servers
  BY <1>2 DEF Found
<1>5. ASSUME NEW d \in Conns, NEW r \in Ends(d)  PROVE EndOK(d, r)'
  <2> DEFINE p == Peer(d, r)
  <2>1. EndOK(d, r)
    BY DEF RouteInv, ChanInv
  <2>2. Knows(r, p)' = Knows(r, p) /\ Known(r, p)' = Known(r, p)
    BY KnownKept DEF TablesKept
  <2>3. p \in Servers /\ r \in Servers /\ Started(p) \subseteq Started(p)'
    OBVIOUS
  <2>4. CASE chan'[d][r] = chan[d][r]
    <3> HIDE DEF p
    <3> QED  BY <2>1, <2>2, <2>3, <2>4, EndKept DEF p
  <2>5. CASE chan'[d][r] # ch[d][r]
    <3>1. PICK o \in Servers : peerServers[s][o] = d
      BY <1>2, <2>5
    <3>2. s # o /\ Ends(d) = {s, o} /\ end[d][s] = "setup"
      BY <3>1, ListedFacts DEF RouteInv
    <3>3. /\ end[d][Peer(d, s)] \in Alive
          /\ chan'[d] = [ch[d] EXCEPT ![Peer(d, s)] = @ \o w]
      BY <1>2, <2>5
    <3>4. r = Peer(d, s) /\ p = s /\ r # s
      <4>1. r = Peer(d, s)
        BY <2>3, <2>5, <3>3, <1>4
      <4> QED  BY <4>1, <3>2
    <3>5. chan'[d][r] = chan[d][r] \o w /\ end[d][r] \in Alive /\ end[d][p] = "setup"
      <4>1. chan'[d][r] = ch[d][r] \o w
        BY <2>3, <3>3, <3>4, <1>4
      <4>2. ch[d][r] = chan[d][r]
        BY <3>4 DEF Found
      <4> QED  BY <4>1, <4>2, <3>2, <3>3, <3>4
    <3>6. Known(r, p) \subseteq Started(p)
      BY <2>3 DEF RouteInv, PeersOnly, Known
    <3>8. News(w, Started(p), Started(p)')
      BY <3>4
    <3>9. end' = end /\ end[d][p] \notin {"none", "open"} /\ p = Peer(d, r)
      BY <3>5
    <3> HIDE DEF p
    <3> QED  BY <2>1, <2>2, <2>3, <3>5, <3>6, <3>8, <3>9, EndTold
  <2>6. CASE chan'[d][r] = ch[d][r] /\ ch[d][r] # chan[d][r]
    <3>1. /\ end[d][r] \in Alive /\ chan[d][r] # <<>> /\ chan'[d][r] = Tail(chan[d][r])
          /\ end' = end /\ p = Peer(d, r)
      BY <2>6 DEF Found
    <3> HIDE DEF p
    <3> QED  BY <2>1, <2>2, <2>3, <3>1, EndTakes
  <2> QED  BY <2>4, <2>5, <2>6
<1> QED  BY <1>1, <1>2, <1>3, <1>4, <1>5 DEF RouteInv, ChanInv

\* The messages that sessions of a server ended, or an end of none, or the event
\* about an account, are no news to whoever knows the server's sessions.
LEMMA EndsAreNews ==
    ASSUME NEW X, NEW B, NEW B2, X \subseteq B, X \subseteq Sessions, B \subseteq B2, NEW u
    PROVE  /\ News(EndsOf(X), B, B2)
           /\ News(Append(EndsOf(X), [action |-> "bus", user |-> u]), B, B2)
           /\ News(<<[action |-> "sessionEnd", sessionid |-> NoSession]>>, B, B2)
<1> DEFINE E == {[action |-> "sessionEnd", sessionid |-> x] : x \in X}
           w == SetToSeq(E)
           bus == [action |-> "bus", user |-> u]
           none == [action |-> "sessionEnd", sessionid |-> NoSession]
           OK(m) == MessageOf(m, B2) /\ m.action # "sessionsTable" /\ Brings(m) = {}
<1>1. ASSUME NEW v, IsSeq(v), \A i \in 1..Len(v) : OK(v[i])  PROVE News(v, B, B2)
  BY <1>1 DEF News
<1>2. \A m \in E \cup {bus, none} : OK(m)
  BY DEF MessageOf, Brings
<1>3. w \in Seq(E)
  <2>1. IsFiniteSet(E)
    <3>1. IsFiniteSet(X)
      BY SessionsAssumption, FS_Subset
    <3> DEFINE f == [x \in X |-> [action |-> "sessionEnd", sessionid |-> x]]
    <3>2. f \in Surjection(X, E)
      BY DEF Surjection
    <3> HIDE DEF f
    <3> QED  BY <3>1, <3>2, FS_Surjection, Zenon
  <2> HIDE DEF E
  <2> QED  BY <2>1, SetToSeqList
<1>4. EndsOf(X) = w
  BY DEF EndsOf
<1> HIDE DEF E, w, OK, bus, none
<1>5. w \in Seq(E \cup {bus, none}) /\ bus \in E \cup {bus, none} /\ none \in E \cup {bus, none}
  BY <1>3, Seqs!SeqMonotonic
<1>6. \A v \in Seq(E \cup {bus, none}) : News(v, B, B2)
  BY <1>1, <1>2 DEF IsSeq
<1>7. Append(w, bus) \in Seq(E \cup {bus, none}) /\ <<none>> \in Seq(E \cup {bus, none})
  BY <1>5
<1> QED  BY <1>4, <1>5, <1>6, <1>7 DEF bus, none

LEMMA NoneIsNews ==
    ASSUME NEW B, NEW B2, B \subseteq B2
    PROVE  News(<<[action |-> "sessionEnd", sessionid |-> NoSession]>>, B, B2)
<1> DEFINE X == {}
<1>1. X \subseteq B /\ X \subseteq Sessions
  OBVIOUS
<1> HIDE DEF X
<1> QED  BY <1>1, EndsAreNews

\* A server closes sessions it has: they were listed before.
LEMMA ClosedFacts ==
    ASSUME NEW s, NEW v, NEW there, NEW X, X \subseteq Own(s), CloseSessions(s, v, X, there)
    PROVE  /\ X \subseteq Started(s) /\ X \subseteq Sessions
           /\ \A p : Started(p) \subseteq Started(p)'
BY DEF CloseSessions, Started, Own

\* A server starts anew.
LEMMA AnewStep ==
    ASSUME Shapes, RouteInv, ~Overlap, NEW s \in Servers, StartsAnew(s)
    PROVE  RouteInv'
<1> USE ConnFacts
<1>1. /\ LinkRestart(s)
      /\ status' = [x \in Sessions |->
                      IF x.at = s /\ status[x] \in {"asking", "listed"} THEN "ended"
                      ELSE status[x]]
      /\ wsPeerSessions' = [wsPeerSessions EXCEPT ![s] = <<>>]
      /\ wsPeerSessions2' = [wsPeerSessions2 EXCEPT ![s] = <<>>]
      /\ wsPeerSessions3' = [wsPeerSessions3 EXCEPT ![s] = <<>>]
  BY DEF StartsAnew
<1>2. LinkInv'
  BY <1>1, RestartStep DEF RouteInv
<1>3. /\ DOMAIN chan' = Conns /\ \A d \in Conns : DOMAIN chan'[d] = Servers
      /\ \A d \in Conns : \A r \in Servers :
            /\ chan'[d][r] = IF r = s THEN <<>> ELSE chan[d][r]
            /\ end'[d][r] = IF r = s /\ end[d][r] \in Alive THEN "closed" ELSE end[d][r]
      /\ \A r, o \in Servers : r # s => peerServers'[r][o] = peerServers[r][o]
  BY <1>1 DEF LinkRestart, RouteInv, ChanInv, LinkInv, LinkTypeOK
<1>4. /\ wsPeerSessions'[s] = <<>> /\ wsPeerSessions2'[s] = <<>> /\ wsPeerSessions3'[s] = <<>>
      /\ \A r \in Servers \ {s} : /\ wsPeerSessions'[r] = wsPeerSessions[r]
                                  /\ wsPeerSessions2'[r] = wsPeerSessions2[r]
                                  /\ wsPeerSessions3'[r] = wsPeerSessions3[r]
  BY <1>1 DEF Shapes
<1>5. \A p : Started(p) \subseteq Started(p)'
  BY <1>1 DEF Started
<1>6. Agreement'
  BY <1>4, NothingAgrees DEF RouteInv, Agreement
<1>7. PeersOnly'
  <2> SUFFICES ASSUME NEW r \in Servers, NEW p \in Servers, Knows(r, p)'
               PROVE  r # p /\ peerServers'[r][p] # NoConn /\ Known(r, p)' \subseteq Started(p)'
    BY DEF PeersOnly
  <2>1. r # s
    BY <1>4 DEF Knows
  <2>2. Knows(r, p)' = Knows(r, p) /\ Known(r, p)' = Known(r, p)
    <3>1. wsPeerSessions'[r] = wsPeerSessions[r]
      BY <1>4, <2>1
    <3> QED  BY <3>1, KnownKept
  <2>3. r # p /\ peerServers[r][p] # NoConn /\ Known(r, p) \subseteq Started(p)
    BY <2>2 DEF RouteInv, PeersOnly
  <2>4. peerServers'[r][p] = peerServers[r][p] /\ Started(p) \subseteq Started(p)'
    BY <1>3, <1>5, <2>1
  <2> QED  BY <2>2, <2>3, <2>4
<1>8. ASSUME NEW d \in Conns, NEW r \in Ends(d)  PROVE EndOK(d, r)'
  <2> DEFINE p == Peer(d, r)
  <2>1. EndOK(d, r) /\ r \in Servers /\ p \in Servers
    BY DEF RouteInv, ChanInv
  <2>2. CASE r = s
    <3>1. chan'[d][r] = <<>> /\ end'[d][r] \notin Alive
      BY <2>2, <1>3 DEF Alive
    <3> QED  BY <3>1, EndEmpty
  <2>3. CASE r # s
    <3>1. Knows(r, p)' = Knows(r, p) /\ Known(r, p)' = Known(r, p)
      <4>1. wsPeerSessions'[r] = wsPeerSessions[r]
        BY <1>4, <2>1, <2>3
      <4> QED  BY <4>1, KnownKept
    <3>2. /\ chan'[d][r] = chan[d][r] /\ end'[d][r] = end[d][r]
          /\ end'[d][p] \in {end[d][p], "closed"}
      BY <1>3, <2>1, <2>3
    <3>3. p = Peer(d, r)
      OBVIOUS
    <3> HIDE DEF p
    <3> QED  BY <2>1, <3>1, <3>2, <3>3, <1>5, EndKept
  <2> QED  BY <2>2, <2>3
<1> QED  BY <1>2, <1>3, <1>6, <1>7, <1>8 DEF RouteInv, ChanInv

\* A message is read, and perhaps answered.
LEMMA TakenFacts ==
    ASSUME ChanInv, NEW c \in Conns, NEW s \in Ends(c), NEW a, Reads(c, s, a)
    PROVE  /\ chan[c][s] # <<>> /\ Head(chan[c][s]).action = a /\ end[c][s] \in Alive
           /\ DOMAIN Taken(c, s) = Conns /\ \A d \in Conns : DOMAIN Taken(c, s)[d] = Servers
           /\ \A d \in Conns : \A r \in Servers :
                 Taken(c, s)[d][r] = IF d = c /\ r = s THEN Tail(chan[c][s]) ELSE chan[d][r]
<1>1. s \in Servers
  BY ConnFacts
<1> QED  BY <1>1 DEF ChanInv, Taken, Reads

LEMMA AnswerFacts ==
    ASSUME ChanInv, NEW c \in Conns, NEW s \in Ends(c), NEW a, Reads(c, s, a), NEW m
    PROVE  LET ch == SendOn(Taken(c, s), c, s, m) IN
           /\ DOMAIN ch = Conns /\ \A d \in Conns : DOMAIN ch[d] = Servers
           /\ \A d \in Conns : \A r \in Ends(d) :
                 ch[d][r] = IF d = c /\ r = s THEN Tail(chan[c][s])
                            ELSE IF d = c /\ end[c][r] \in Alive THEN Append(chan[d][r], m)
                            ELSE chan[d][r]
<1> USE ConnFacts
<1> DEFINE tk == Taken(c, s)
<1>1. /\ DOMAIN tk = Conns /\ \A d \in Conns : DOMAIN tk[d] = Servers
      /\ \A d \in Conns : \A r \in Servers :
            tk[d][r] = IF d = c /\ r = s THEN Tail(chan[c][s]) ELSE chan[d][r]
  BY TakenFacts
<1> HIDE DEF tk
<1>2. \A r \in Ends(c) : r = s \/ r = Peer(c, s)
  OBVIOUS
<1>3. CASE end[c][Peer(c, s)] \in Alive
  <2>1. SendOn(tk, c, s, m) = [tk EXCEPT ![c][Peer(c, s)] = Append(@, m)]
    BY <1>3 DEF SendOn
  <2> QED  BY <1>1, <1>2, <1>3, <2>1 DEF tk
<1>4. CASE end[c][Peer(c, s)] \notin Alive
  <2>1. SendOn(tk, c, s, m) = tk
    BY <1>4 DEF SendOn
  <2> QED  BY <1>1, <1>2, <1>4, <2>1 DEF tk
<1> QED  BY <1>3, <1>4

\* A message of the handshake, or its end: s takes a message that brings no
\* session, and the peer gets m or nothing.
LEMMA HandshakeStep ==
    ASSUME RouteInv, LinkInv', NEW c \in Conns, NEW s \in Ends(c), NEW a, Reads(c, s, a),
           TablesKept, \A p \in Servers : Started(p)' = Started(p), NEW m, NEW sends \in BOOLEAN,
           \A r, o \in Servers : peerServers'[r][o] = NoConn => peerServers[r][o] = NoConn,
           DOMAIN chan' = Conns, \A d \in Conns : DOMAIN chan'[d] = Servers,
           \A d \in Conns : \A r \in Ends(d) :
              chan'[d][r] = IF d = c /\ r = s THEN Tail(chan[c][s])
                            ELSE IF d = c /\ end[c][r] \in Alive /\ sends
                                 THEN Append(chan[d][r], m)
                            ELSE chan[d][r],
           \A d \in Conns : \A r \in Servers :
              \/ end'[d][r] = end[d][r]
              \/ d = c /\ r = s /\ end'[d][r] = "setup",
           MessageOf(m, Started(s)), m.action \in Data => m.action = "sessionsTable",
           m.action \in Data /\ sends => end'[c][s] = "setup" /\ end[c][s] = "open"
    PROVE  RouteInv'
<1> USE ConnFacts
<1>1. /\ chan[c][s] # <<>> /\ end[c][s] \in Alive /\ end'[c][s] \in Alive
  BY TakenFacts DEF RouteInv, Alive
<1>2. PeersOnly' /\ Agreement'
  BY PeersKept, AgreementKept DEF RouteInv
<1>3. ASSUME NEW d \in Conns, NEW r \in Ends(d)  PROVE EndOK(d, r)'
  <2> DEFINE p == Peer(d, r)
  <2>1. EndOK(d, r) /\ p \in Servers /\ r \in Servers /\ p # r
    BY DEF RouteInv, ChanInv
  <2>2. Knows(r, p)' = Knows(r, p) /\ Known(r, p)' = Known(r, p)
    BY KnownKept DEF TablesKept
  <2>3. p = Peer(d, r) /\ Started(p)' = Started(p) /\ Started(p) \subseteq Started(p)'
    BY <2>1
  <2>4. CASE d = c /\ r = s
    <3>1. /\ chan'[d][r] = Tail(chan[d][r]) /\ chan[d][r] # <<>>
          /\ end[d][r] \in Alive /\ end'[d][r] \in Alive /\ end'[d][p] = end[d][p]
      BY <2>1, <2>4, <1>1
    <3> HIDE DEF p
    <3> QED  BY <2>1, <2>2, <2>3, <3>1, EndTakes
  <2>5. CASE d = c /\ r # s /\ end[c][r] \in Alive /\ sends
    <3>1. /\ chan'[d][r] = Append(chan[d][r], m) /\ end[d][r] \in Alive
          /\ end'[d][r] = end[d][r] /\ p = s
      <4>1. Ends(c) = {s, Peer(c, s)} /\ Ends(c) = {r, p}
        BY <2>5
      <4>2. p = s
        BY <2>5, <4>1
      <4> HIDE DEF p
      <4> QED  BY <2>5, <2>1, <4>2
    <3>2. ComesOnce(chan[d][r], end[d][p], Knows(r, p), Known(r, p), Started(p))
      BY <2>1, <3>1 DEF EndOK
    <3>3. CASE m.action \in Data
      <4>1. end[d][p] = "open" /\ end'[d][p] = "setup"
        BY <2>5, <3>1, <3>3
      <4>2. ~Knows(r, p) /\ \A i \in 1..Len(chan[d][r]) : chan[d][r][i].action \notin Data
        BY <3>2, <4>1 DEF ComesOnce
      <4>3. Known(r, p) = {}
        BY <4>2 DEF Known
      <4>4. \A i \in 1..Len(chan[d][r]) : /\ Brings(chan[d][r][i]) = {}
                                          /\ chan[d][r][i].action # "sessionsTable"
        BY <4>2 DEF Brings, Data
      <4>5. /\ Brings(m) \cap Known(r, p) = {}
            /\ \A i \in 1..Len(chan[d][r]) : Brings(m) \cap Brings(chan[d][r][i]) = {}
            /\ MessageOf(m, Started(p)')
        BY <4>3, <4>4, <3>1, <2>3
      <4>6. /\ m.action = "sessionsTable" =>
                  ~Knows(r, p)
                  /\ \A i \in 1..Len(chan[d][r]) : chan[d][r][i].action # "sessionsTable"
            /\ end'[d][p] \in {"none", "open"} =>
                  end[d][p] \in {"none", "open"} /\ m.action \notin Data
        BY <4>1, <4>2, <4>4
      <4> HIDE DEF p
      <4> QED  BY <2>1, <2>2, <2>3, <3>1, <4>5, <4>6, EndAdds
    <3>4. CASE m.action \notin Data
      <4>1. Brings(m) = {} /\ m.action # "sessionsTable"
        BY <3>4 DEF Brings, Data
      <4>2. end'[d][p] \in {"none", "open"} => end[d][p] \in {"none", "open"}
        BY <2>1
      <4>3. /\ Brings(m) \cap Known(r, p) = {}
            /\ \A i \in 1..Len(chan[d][r]) : Brings(m) \cap Brings(chan[d][r][i]) = {}
            /\ MessageOf(m, Started(p)')
        BY <4>1, <3>1, <2>3
      <4> HIDE DEF p
      <4> QED  BY <2>1, <2>2, <2>3, <3>1, <3>4, <4>1, <4>2, <4>3, EndAdds
    <3> QED  BY <3>3, <3>4
  <2>6. CASE d # c \/ (r # s /\ ~(end[c][r] \in Alive /\ sends))
    <3>1. /\ chan'[d][r] = chan[d][r] /\ end'[d][r] = end[d][r]
          /\ end'[d][p] \in {"none", "open"} => end[d][p] \in {"none", "open"}
      BY <2>1, <2>6
    <3> HIDE DEF p
    <3> QED  BY <2>1, <2>2, <2>3, <3>1, EndKept
  <2> QED  BY <2>4, <2>5, <2>6
<1> QED  BY <1>2, <1>3 DEF RouteInv, ChanInv

LEMMA ConfirmedStep ==
    ASSUME RouteInv, NEW c \in Conns, NEW s \in Ends(c), Confirmed(c, s)
    PROVE  RouteInv'
<1> DEFINE m == [action |-> "info"]
           sends == TRUE
<1>1. /\ Reads(c, s, "confirm") /\ chan' = SendOn(Taken(c, s), c, s, m)
      /\ peerServers' = peerServers /\ end' = end /\ status' = status /\ TablesKept
  BY DEF Confirmed, ReadConfirm, tableVars, lifeVars, TablesKept
<1>2. m.action \notin Data /\ MessageOf(m, Started(s))
  BY DEF Data, MessageOf, Brings
<1> HIDE DEF m
<1>3. /\ DOMAIN chan' = Conns /\ \A d \in Conns : DOMAIN chan'[d] = Servers
      /\ \A d \in Conns : \A r \in Ends(d) :
            chan'[d][r] = IF d = c /\ r = s THEN Tail(chan[c][s])
                          ELSE IF d = c /\ end[c][r] \in Alive /\ sends
                               THEN Append(chan[d][r], m)
                          ELSE chan[d][r]
  BY <1>1, AnswerFacts DEF RouteInv
<1>4. LinkInv'
  BY <1>1, LinkStepInv DEF RouteInv, LinkStep
<1>5. \A p \in Servers : Started(p)' = Started(p)
  BY <1>1 DEF Started
<1>6. /\ \A r, o \in Servers : peerServers'[r][o] = NoConn => peerServers[r][o] = NoConn
      /\ \A d \in Conns : \A r \in Servers : end'[d][r] = end[d][r]
  BY <1>1
<1>7. sends \in BOOLEAN
  OBVIOUS
<1> HIDE DEF sends
<1> QED  BY <1>1, <1>2, <1>3, <1>4, <1>5, <1>6, <1>7, HandshakeStep

\* SetupPeerServer: the peer is sent the list of the sessions.
LEMMA SetupPeerServerStep ==
    ASSUME RouteInv, NEW c \in Conns, NEW s \in Ends(c), SetupPeerServer(c, s)
    PROVE  RouteInv'
<1> USE ConnFacts
<1> DEFINE m == [action |-> "sessionsTable", sessionsTable |-> SetToSeq(Own(s))]
           sends == end[c][s] # "setup"
<1>1. /\ Reads(c, s, "info") /\ status' = status /\ TablesKept
      /\ ~sends => chan' = Taken(c, s) /\ peerServers' = peerServers /\ end' = end
      /\ sends => /\ end' = [end EXCEPT ![c][s] = "setup"]
                  /\ peerServers' = [peerServers EXCEPT ![s][Peer(c, s)] = c]
                  /\ chan' = SendOn(Taken(c, s), c, s, m)
  BY DEF SetupPeerServer, ReadInfo, tableVars, lifeVars, TablesKept
<1>2. m.action = "sessionsTable" /\ MessageOf(m, Started(s))
  <2>1. ListOf(SetToSeq(Own(s)), Own(s))
    BY ListOfSet DEF Own
  <2>2. ToSet(SetToSeq(Own(s))) = Own(s) /\ Own(s) \subseteq Started(s)
    BY <2>1 DEF ListOf, Own, Started
  <2>3. Brings(m) = Own(s)
    BY <2>2 DEF Brings
  <2> QED  BY <2>1, <2>2, <2>3 DEF MessageOf
<1> HIDE DEF m
<1>3. end[c][s] \in Alive
  BY <1>1, TakenFacts DEF RouteInv
<1>4. LinkInv'
  <2>1. CASE sends
    BY <1>1, <1>3, <2>1, SetUpStep DEF IsSetUp, RouteInv
  <2>2. CASE ~sends
    BY <1>1, <2>2, LinkStepInv DEF LinkStep, RouteInv
  <2> QED  BY <2>1, <2>2
<1>5. /\ DOMAIN chan' = Conns /\ \A d \in Conns : DOMAIN chan'[d] = Servers
      /\ \A d \in Conns : \A r \in Ends(d) :
            chan'[d][r] = IF d = c /\ r = s THEN Tail(chan[c][s])
                          ELSE IF d = c /\ end[c][r] \in Alive /\ sends
                               THEN Append(chan[d][r], m)
                          ELSE chan[d][r]
  <2>1. CASE sends
    BY <1>1, <2>1, AnswerFacts DEF RouteInv
  <2>2. CASE ~sends
    BY <1>1, <2>2, TakenFacts DEF RouteInv
  <2> QED  BY <2>1, <2>2
<1>6. /\ \A d \in Conns : \A r \in Servers :
            \/ end'[d][r] = end[d][r]
            \/ d = c /\ r = s /\ end'[d][r] = "setup"
      /\ sends => end'[c][s] = "setup" /\ end[c][s] = "open"
  BY <1>1, <1>3 DEF RouteInv, LinkInv, LinkTypeOK, Alive
<1>7. \A r, o \in Servers : peerServers'[r][o] = NoConn => peerServers[r][o] = NoConn
  BY <1>1 DEF RouteInv, LinkInv, LinkTypeOK
<1>8. \A p \in Servers : Started(p)' = Started(p)
  BY <1>1 DEF Started
<1>9. sends \in BOOLEAN
  OBVIOUS
<1> HIDE DEF sends
<1> QED  BY <1>1, <1>2, <1>4, <1>5, <1>6, <1>7, <1>8, <1>9, HandshakeStep

\* A connection begins: the previous ones are over at both ends, so that neither
\* has a list of the other.
LEMMA OpenStep ==
    ASSUME RouteInv, ~Overlap, NEW c \in Conns, Open(c)
    PROVE  RouteInv'
<1> USE ConnFacts
<1> DEFINE hello == <<[action |-> "confirm"], [action |-> "info"]>>
<1>1. /\ Begins(c) /\ peerServers' = peerServers /\ TablesKept /\ status' = status
      /\ chan' = [chan EXCEPT ![c][c.lo] = hello]
      /\ end' = [end EXCEPT ![c] = [s \in Servers |->
                    IF s \in Ends(c) THEN "open" ELSE "none"]]
  BY DEF Open, Connect, Begins, tableVars, lifeVars, TablesKept
<1>2. /\ IsSeq(hello) /\ IsSeq(<<>>)
      /\ \A i \in 1..Len(hello) : hello[i].action \notin Data
  <2> DEFINE confirm == [action |-> "confirm"]
             info == [action |-> "info"]
  <2>1. confirm.action \notin Data /\ info.action \notin Data
    BY DEF Data
  <2> HIDE DEF confirm, info
  <2>2. IsSeq(<<confirm, info>>)
    <3>1. <<confirm, info>> \in Seq({confirm, info})
      OBVIOUS
    <3> QED  BY <3>1 DEF IsSeq
  <2>3. \A i \in 1..Len(<<confirm, info>>) : <<confirm, info>>[i].action \notin Data
    BY <2>1
  <2> QED  BY <2>2, <2>3, EmptyIsSeq DEF confirm, info
<1> HIDE DEF hello
<1>3. LinkInv'
  BY <1>1, BeginsStep DEF RouteInv
<1>4. end[c][c.lo] = "none" /\ end[c][c.hi] = "none"
  BY <1>1 DEF Begins, RouteInv, LinkInv, BegunAtBoth
<1>5. /\ DOMAIN chan' = Conns /\ \A d \in Conns : DOMAIN chan'[d] = Servers
      /\ \A d \in Conns : \A r \in Servers :
            chan'[d][r] = IF d = c /\ r = c.lo THEN hello ELSE chan[d][r]
  BY <1>1 DEF RouteInv, ChanInv
<1>6. \A d \in Conns : \A r \in Servers :
         end'[d][r] = IF d = c THEN (IF r \in Ends(c) THEN "open" ELSE "none")
                      ELSE end[d][r]
  BY <1>1 DEF RouteInv, LinkInv, LinkTypeOK
<1>7. \A p \in Servers : Started(p)' = Started(p)
  BY <1>1 DEF Started
<1>8. PeersOnly' /\ Agreement'
  <2>1. /\ \A p \in Servers : Started(p) \subseteq Started(p)'
        /\ \A r, o \in Servers : peerServers'[r][o] = NoConn => peerServers[r][o] = NoConn
    BY <1>1, <1>7
  <2> QED  BY <1>1, <2>1, PeersKept, AgreementKept DEF RouteInv
<1>9. ASSUME NEW r \in Ends(c)  PROVE ~Knows(r, Peer(c, r))
  <2> DEFINE d == peerServers[r][Peer(c, r)]
  <2>1. ASSUME d # NoConn  PROVE FALSE
    <3>1. r \in Servers /\ Peer(c, r) \in Servers /\ Ends(c) = {r, Peer(c, r)}
      OBVIOUS
    <3>2. d \in Conns /\ Ends(d) = Ends(c) /\ end[d][r] = "setup"
      BY <2>1, <3>1, ListedFacts DEF RouteInv
    <3> HIDE DEF d
    <3>3. r \in {d.lo, d.hi} /\ r \in {c.lo, c.hi}
      BY <3>2 DEF Ends
    <3>4. d # c
      BY <3>2, <3>3, <1>4
    <3>5. d.lo = c.lo /\ d.hi = c.hi /\ (d.n < c.n \/ c.n < d.n)
      BY <3>2, <3>4, SameEnds
    <3>6. CASE d.n < c.n
      <4>1. end[d][d.lo] = "closed" /\ end[d][d.hi] = "closed"
        BY <1>1, <3>2, <3>5, <3>6 DEF Begins
      <4> QED  BY <4>1, <3>2, <3>3
    <3>7. CASE c.n < d.n
      <4>1. end[d][d.lo] # "none"
        BY <3>2, <3>3 DEF RouteInv, LinkInv, BegunAtBoth
      <4>2. end[c][c.lo] = "closed"
        BY <4>1, <3>2, <3>5, <3>7 DEF RouteInv, LinkInv, Successive
      <4> QED  BY <4>2, <1>4
    <3> QED  BY <3>5, <3>6, <3>7
  <2> QED  BY <2>1 DEF RouteInv, PeersOnly
<1>10. ASSUME NEW d \in Conns, NEW r \in Ends(d)  PROVE EndOK(d, r)'
  <2> DEFINE p == Peer(d, r)
  <2>1. EndOK(d, r) /\ r \in Servers /\ p \in Servers /\ p \in Ends(d)
    BY DEF RouteInv, ChanInv
  <2>2. Knows(r, p)' = Knows(r, p) /\ Known(r, p)' = Known(r, p)
    BY <1>1, KnownKept DEF TablesKept
  <2>3. CASE d # c
    <3>1. /\ chan'[d][r] = chan[d][r] /\ end'[d][r] = end[d][r] /\ end'[d][p] = end[d][p]
          /\ p = Peer(d, r) /\ Started(p) \subseteq Started(p)'
      BY <2>1, <2>3, <1>5, <1>6, <1>7
    <3> HIDE DEF p
    <3> QED  BY <2>1, <2>2, <3>1, EndKept
  <2>4. CASE d = c
    <3>1. chan[d][r] = <<>>
      <4>1. r \in {c.lo, c.hi}
        BY <2>4 DEF Ends
      <4>2. end[c][r] \notin Alive
        BY <4>1, <1>4 DEF Alive
      <4> QED  BY <4>2, <2>1, <2>4 DEF EndOK
    <3>2. end'[d][r] = "open" /\ end'[d][p] = "open"
      BY <2>1, <2>4, <1>6
    <3>3. IsSeq(chan'[d][r]) /\ \A i \in 1..Len(chan'[d][r]) : chan'[d][r][i].action \notin Data
      BY <2>1, <2>4, <3>1, <1>2, <1>5
    <3>4. ~Knows(r, p)' /\ Known(r, p)' = {}
      BY <1>9, <2>2, <2>4 DEF Known
    <3> DEFINE q == chan'[d][r]
    <3>5. \A i \in 1..Len(q) : /\ Brings(q[i]) = {} /\ q[i].action # "sessionsTable"
                               /\ q[i].action # "sessionEnd"
      BY <3>3 DEF Brings, Data
    <3>6. \A B : \A i \in 1..Len(q) : MessageOf(q[i], B)
      BY <3>5 DEF MessageOf
    <3>7. \A B : ComesOnce(q, "open", FALSE, {}, B)
      <4>1. \A i \in 1..Len(q) : q[i].action \notin Data
        BY <3>3
      <4> HIDE DEF q
      <4> QED  BY <3>5, <3>6, <4>1 DEF ComesOnce
    <3>8. ComesOnce(q, end'[d][p], Knows(r, p)', Known(r, p)', Started(p)')
      <4>1. ComesOnce(q, "open", FALSE, {}, Started(p)')
        BY <3>7
      <4>2. Knows(r, p)' = FALSE
        BY <3>4 DEF Knows
      <4> HIDE DEF q, p
      <4> QED  BY <4>1, <4>2, <3>2, <3>4
    <3> QED  BY <3>2, <3>3, <3>8 DEF EndOK, Alive
  <2> QED  BY <2>3, <2>4
<1> QED  BY <1>3, <1>5, <1>8, <1>10 DEF RouteInv, ChanInv

\* A connection ends at s, and with it what s knows of the sessions of the peer.
LEMMA CloseStep ==
    ASSUME Shapes, RouteInv, ~Overlap, NEW c \in Conns, NEW s \in Ends(c), Close(c, s)
    PROVE  RouteInv'
<1> USE ConnFacts
<1> DEFINE o == Peer(c, s)
           set == end[c][s] = "setup"
<1>0. s \in Servers /\ o \in Servers
  OBVIOUS
<1>1. /\ IsClosed(c, s) /\ end[c][s] \in Alive /\ status' = status
      /\ end' = [end EXCEPT ![c][s] = "closed"] /\ chan' = [chan EXCEPT ![c][s] = <<>>]
      /\ set => peerServers' = [peerServers EXCEPT ![s][o] = NoConn]
      /\ ~set => peerServers' = peerServers
      /\ set => ForgetSessions(s, o)
      /\ ~set => TablesKept
  BY DEF Close, LinkClose, IsClosed, tableVars, lifeVars, TablesKept
<1>2. LinkInv'
  BY <1>1, ClosedStep DEF RouteInv
<1>3. /\ DOMAIN chan' = Conns /\ \A d \in Conns : DOMAIN chan'[d] = Servers
      /\ \A d \in Conns : \A r \in Servers :
            /\ chan'[d][r] = IF d = c /\ r = s THEN <<>> ELSE chan[d][r]
            /\ end'[d][r] = IF d = c /\ r = s THEN "closed" ELSE end[d][r]
      /\ \A r, p \in Servers : peerServers'[r][p] = IF set /\ r = s /\ p = o THEN NoConn
                                                    ELSE peerServers[r][p]
  BY <1>0, <1>1 DEF RouteInv, ChanInv, LinkInv, LinkTypeOK
<1>4. ASSUME set
      PROVE  /\ wsPeerSessions'[s] = Restrict(wsPeerSessions[s], DOMAIN wsPeerSessions[s] \ {o})
             /\ wsPeerSessions2'[s] = Restrict(wsPeerSessions2[s], DOMAIN wsPeerSessions2[s] \
                   (IF o \in DOMAIN wsPeerSessions[s] THEN ToSet(wsPeerSessions[s][o]) ELSE {}))
             /\ wsPeerSessions3'[s] = Restrict(wsPeerSessions3[s], DOMAIN wsPeerSessions3[s] \ {o})
             /\ \A r \in Servers \ {s} : /\ wsPeerSessions'[r] = wsPeerSessions[r]
                                         /\ wsPeerSessions2'[r] = wsPeerSessions2[r]
                                         /\ wsPeerSessions3'[r] = wsPeerSessions3[r]
  BY <1>0, <1>1, <1>4 DEF ForgetSessions, Shapes
<1>5. Agreement'
  <2>1. CASE set
    <3> SUFFICES ASSUME NEW r \in Servers
                 PROVE  TablesAgree(wsPeerSessions'[r], wsPeerSessions2'[r], wsPeerSessions3'[r])
      BY DEF Agreement
    <3>1. TablesAgree(wsPeerSessions[r], wsPeerSessions2[r], wsPeerSessions3[r])
      BY DEF RouteInv, Agreement
    <3>2. CASE r = s
      BY <2>1, <3>1, <3>2, <1>4, ForgetAgrees
    <3>3. CASE r # s
      BY <2>1, <3>1, <3>3, <1>4
    <3> QED  BY <3>2, <3>3
  <2>2. CASE ~set
    BY <2>2, <1>1, AgreementKept DEF RouteInv
  <2> QED  BY <2>1, <2>2
<1>6. ASSUME NEW r \in Servers, NEW p \in Servers
      PROVE  /\ Knows(r, p)' => Knows(r, p) /\ ~(set /\ r = s /\ p = o)
             /\ Known(r, p)' \subseteq Known(r, p)
  <2>1. CASE set /\ r = s
    <3>1. /\ DOMAIN wsPeerSessions'[r] = DOMAIN wsPeerSessions[r] \ {o}
          /\ \A k \in DOMAIN wsPeerSessions'[r] : wsPeerSessions'[r][k] = wsPeerSessions[r][k]
      BY <2>1, <1>4 DEF Restrict
    <3> QED  BY <2>1, <3>1 DEF Knows, Known
  <2>2. CASE ~(set /\ r = s)
    <3>1. wsPeerSessions'[r] = wsPeerSessions[r]
      BY <2>2, <1>1, <1>4 DEF TablesKept
    <3> QED  BY <2>2, <3>1, KnownKept
  <2> QED  BY <2>1, <2>2
<1>7. \A p \in Servers : Started(p)' = Started(p)
  BY <1>1 DEF Started
<1>8. PeersOnly'
  <2> SUFFICES ASSUME NEW r \in Servers, NEW p \in Servers, Knows(r, p)'
               PROVE  r # p /\ peerServers'[r][p] # NoConn /\ Known(r, p)' \subseteq Started(p)'
    BY DEF PeersOnly
  <2>1. /\ Knows(r, p) /\ ~(set /\ r = s /\ p = o)
        /\ Known(r, p)' \subseteq Known(r, p) /\ Started(p)' = Started(p)
    BY <1>6, <1>7
  <2>2. r # p /\ peerServers[r][p] # NoConn /\ Known(r, p) \subseteq Started(p)
    BY <2>1 DEF RouteInv, PeersOnly
  <2>3. peerServers'[r][p] = peerServers[r][p]
    BY <1>3, <2>1
  <2> QED  BY <2>1, <2>2, <2>3
<1>9. ASSUME NEW d \in Conns, NEW r \in Ends(d)  PROVE EndOK(d, r)'
  <2> DEFINE p == Peer(d, r)
  <2>1. EndOK(d, r) /\ r \in Servers /\ p \in Servers
    BY DEF RouteInv, ChanInv
  <2>2. CASE d = c /\ r = s
    <3>1. chan'[d][r] = <<>> /\ end'[d][r] \notin Alive
      BY <2>1, <2>2, <1>3 DEF Alive
    <3> QED  BY <3>1, EndEmpty
  <2>3. CASE ~(d = c /\ r = s)
    <3>1. /\ chan'[d][r] = chan[d][r] /\ end'[d][r] = end[d][r]
          /\ end'[d][p] \in {end[d][p], "closed"} /\ p = Peer(d, r)
      BY <2>1, <2>3, <1>3
    <3>2. /\ Knows(r, p)' => Knows(r, p)
          /\ Known(r, p)' \subseteq Known(r, p) /\ Started(p) \subseteq Started(p)'
      BY <2>1, <1>6, <1>7
    <3> HIDE DEF p
    <3> QED  BY <2>1, <3>1, <3>2, EndKept
  <2> QED  BY <2>2, <2>3
<1> QED  BY <1>2, <1>3, <1>5, <1>8, <1>9 DEF RouteInv, ChanInv

\* A message about sessions is read: what the tables of its reader s become
\* agrees, and has of the sender o no other session than those the message brings.
Learns(c, s, o, a) ==
    /\ status' = status
    /\ \A r \in Servers \ {s} : /\ wsPeerSessions'[r] = wsPeerSessions[r]
                                /\ wsPeerSessions2'[r] = wsPeerSessions2[r]
                                /\ wsPeerSessions3'[r] = wsPeerSessions3[r]
    /\ TablesAgree(wsPeerSessions'[s], wsPeerSessions2'[s], wsPeerSessions3'[s])
    /\ \A p \in Servers \ {o} : Knows(s, p)' = Knows(s, p) /\ Known(s, p)' = Known(s, p)
    /\ Knows(s, o)' => Knows(s, o) \/ (a = "sessionsTable" /\ end[c][s] = "setup")
    /\ Known(s, o)' \subseteq Known(s, o) \cup Brings(Head(chan[c][s]))

LEMMA DataStep ==
    ASSUME RouteInv, ~Overlap, NEW c \in Conns, NEW s \in Ends(c), NEW o, o = Peer(c, s),
           NEW a, Reads(c, s, a), ReadData(c, s), Learns(c, s, o, a)
    PROVE  RouteInv'
<1> USE ConnFacts DEF Learns
<1>0. s \in Servers /\ o \in Servers
  OBVIOUS
<1>1. /\ chan[c][s] # <<>> /\ Head(chan[c][s]).action = a /\ end[c][s] \in Alive
      /\ DOMAIN chan' = Conns /\ \A d \in Conns : DOMAIN chan'[d] = Servers
      /\ \A d \in Conns : \A r \in Servers :
            chan'[d][r] = IF d = c /\ r = s THEN Tail(chan[c][s]) ELSE chan[d][r]
      /\ peerServers' = peerServers /\ end' = end
  BY TakenFacts DEF ReadData, RouteInv
<1>2. LinkInv'
  BY <1>1, LinkStepInv DEF RouteInv, LinkStep
<1>3. \A p \in Servers : Started(p)' = Started(p)
  BY DEF Started
<1>4. Brings(Head(chan[c][s])) \subseteq Started(o)
  <2>1. EndOK(c, s)
    BY DEF RouteInv, ChanInv
  <2>2. /\ IsSeq(chan[c][s])
        /\ ComesOnce(chan[c][s], end[c][o], Knows(s, o), Known(s, o), Started(o))
    BY <1>1, <2>1 DEF EndOK
  <2>3. Head(chan[c][s]) = chan[c][s][1] /\ 1 \in 1..Len(chan[c][s])
    BY <1>1, <2>2, TailOfSeq
  <2> QED  BY <2>2, <2>3 DEF ComesOnce, MessageOf
<1>5. Agreement'
  <2> SUFFICES ASSUME NEW r \in Servers
               PROVE  TablesAgree(wsPeerSessions'[r], wsPeerSessions2'[r], wsPeerSessions3'[r])
    BY DEF Agreement
  <2>1. CASE r = s
    BY <2>1
  <2>2. CASE r # s
    BY <2>2 DEF RouteInv, Agreement
  <2> QED  BY <2>1, <2>2
<1>6. ASSUME NEW r \in Servers, NEW p \in Servers, ~(r = s /\ p = o)
      PROVE  Knows(r, p)' = Knows(r, p) /\ Known(r, p)' = Known(r, p)
  <2>1. CASE r = s
    BY <1>6, <2>1
  <2>2. CASE r # s
    BY <2>2, KnownKept
  <2> QED  BY <2>1, <2>2
<1>7. PeersOnly'
  <2> SUFFICES ASSUME NEW r \in Servers, NEW p \in Servers, Knows(r, p)'
               PROVE  r # p /\ peerServers[r][p] # NoConn /\ Known(r, p)' \subseteq Started(p)'
    BY <1>1 DEF PeersOnly
  <2>1. Started(p)' = Started(p)
    BY <1>3
  <2>2. CASE ~(r = s /\ p = o)
    BY <2>1, <2>2, <1>6 DEF RouteInv, PeersOnly
  <2>3. CASE r = s /\ p = o
    <3>1. Known(s, o) \subseteq Started(o)
      BY <1>0 DEF RouteInv, PeersOnly, Known
    <3>2. peerServers[s][o] # NoConn
      <4>1. CASE Knows(s, o)
        BY <4>1, <1>0 DEF RouteInv, PeersOnly
      <4>2. CASE end[c][s] = "setup"
        BY <4>2 DEF RouteInv, LinkInv, SetupIsListed
      <4> QED  BY <2>3, <4>1, <4>2
    <3>3. s # o
      OBVIOUS
    <3> QED  BY <2>1, <2>3, <3>1, <3>2, <3>3, <1>4
  <2> QED  BY <2>2, <2>3
<1>8. ASSUME NEW d \in Conns, NEW r \in Ends(d)  PROVE EndOK(d, r)'
  <2> DEFINE p == Peer(d, r)
  <2>1. EndOK(d, r) /\ r \in Servers /\ p \in Servers /\ p = Peer(d, r)
    BY DEF RouteInv, ChanInv
  <2>2. Started(p)' = Started(p)
    BY <1>3, <2>1
  <2>3. CASE d = c /\ r = s
    <3>1. p = o
      BY <2>3
    <3>2. /\ end[d][r] \in Alive /\ chan[d][r] # <<>> /\ end'[d][r] \in Alive
          /\ end'[d][p] = end[d][p] /\ chan'[d][r] = Tail(chan[d][r])
      BY <2>1, <2>3, <1>1
    <3>3. /\ Knows(r, p)' => Knows(r, p) \/ Head(chan[d][r]).action = "sessionsTable"
          /\ Known(r, p)' \subseteq Known(r, p) \cup Brings(Head(chan[d][r]))
      BY <2>3, <3>1, <1>1
    <3> HIDE DEF p
    <3> QED  BY <2>1, <2>2, <3>2, <3>3, EndTakes
  <2>4. CASE ~(d = c /\ r = s)
    <3>1. chan'[d][r] = chan[d][r] /\ end'[d][r] = end[d][r] /\ end'[d][p] = end[d][p]
      BY <2>1, <2>4, <1>1
    <3>2. ASSUME end[d][r] \in Alive
          PROVE  Knows(r, p)' = Knows(r, p) /\ Known(r, p)' = Known(r, p)
      <4>1. ~(r = s /\ p = o)
        <5> SUFFICES ASSUME r = s, p = o  PROVE FALSE
          OBVIOUS
        <5>1. Ends(c) = {s, o} /\ Ends(d) = {r, p}
          OBVIOUS
        <5>2. Ends(c) = Ends(d) /\ end[c][s] \in Alive /\ end[d][r] \in Alive /\ LinkInv
          BY <5>1, <3>2, <1>1 DEF RouteInv
        <5>3. d = c
          <6> HIDE DEF p
          <6> QED  BY <5>2, OneAlive
        <5> QED  BY <5>3, <2>4
      <4> QED  BY <4>1, <2>1, <1>6
    <3> HIDE DEF p
    <3>3. end[d][r] \in Alive =>
             (Knows(r, p)' => Knows(r, p)) /\ Known(r, p)' \subseteq Known(r, p)
      BY <3>2
    <3> QED  BY <2>1, <2>2, <3>1, <3>3, EndKept
  <2> QED  BY <2>3, <2>4
<1> QED  BY <1>1, <1>2, <1>5, <1>7, <1>8 DEF RouteInv, ChanInv

\* A message of the channel of an end that has its connection set up.
LEMMA HeadFacts ==
    ASSUME RouteInv, NEW c \in Conns, NEW s \in Ends(c), NEW o, o = Peer(c, s),
           NEW a, Reads(c, s, a)
    PROVE  LET m == Head(chan[c][s]) IN
           /\ m.action = a /\ MessageOf(m, Started(o)) /\ Brings(m) \cap Known(s, o) = {}
           /\ a = "sessionsTable" => ~Knows(s, o)
           /\ TablesAgree(wsPeerSessions[s], wsPeerSessions2[s], wsPeerSessions3[s])
           /\ s \in Servers /\ o \in Servers /\ s # o
<1>1. s \in Servers /\ o \in Servers /\ s # o
  BY ConnFacts
<1>2. chan[c][s] # <<>> /\ Head(chan[c][s]).action = a /\ end[c][s] \in Alive
  BY TakenFacts DEF RouteInv
<1>3. EndOK(c, s)
  BY DEF RouteInv, ChanInv
<1>4. /\ IsSeq(chan[c][s])
      /\ ComesOnce(chan[c][s], end[c][o], Knows(s, o), Known(s, o), Started(o))
  BY <1>2, <1>3 DEF EndOK
<1>5. Head(chan[c][s]) = chan[c][s][1] /\ 1 \in 1..Len(chan[c][s])
  BY <1>2, <1>4, TailOfSeq
<1>6. TablesAgree(wsPeerSessions[s], wsPeerSessions2[s], wsPeerSessions3[s])
  BY <1>1 DEF RouteInv, Agreement
<1> QED  BY <1>1, <1>2, <1>4, <1>5, <1>6 DEF ComesOnce

\* A message that is ignored, as the connection is not set up.
LEMMA IgnoredStep ==
    ASSUME RouteInv, ~Overlap, NEW c \in Conns, NEW s \in Ends(c), NEW a, Reads(c, s, a),
           Ignored(c, s)
    PROVE  RouteInv'
<1> DEFINE o == Peer(c, s)
<1>1. ReadData(c, s) /\ status' = status /\ TablesKept
  BY DEF Ignored, tableVars, lifeVars, TablesKept
<1>2. /\ o = Peer(c, s)
      /\ TablesAgree(wsPeerSessions[s], wsPeerSessions2[s], wsPeerSessions3[s])
  BY HeadFacts
<1>3. \A p : Knows(s, p)' = Knows(s, p) /\ Known(s, p)' = Known(s, p)
  BY <1>1, KnownKept DEF TablesKept
<1>4. /\ \A r \in Servers \ {s} : /\ wsPeerSessions'[r] = wsPeerSessions[r]
                                  /\ wsPeerSessions2'[r] = wsPeerSessions2[r]
                                  /\ wsPeerSessions3'[r] = wsPeerSessions3[r]
      /\ TablesAgree(wsPeerSessions'[s], wsPeerSessions2'[s], wsPeerSessions3'[s])
  BY <1>1, <1>2 DEF TablesKept
<1> HIDE DEF o
<1>5. /\ \A p \in Servers \ {o} : Knows(s, p)' = Knows(s, p) /\ Known(s, p)' = Known(s, p)
      /\ Knows(s, o)' => Knows(s, o) \/ (a = "sessionsTable" /\ end[c][s] = "setup")
      /\ Known(s, o)' \subseteq Known(s, o) \cup Brings(Head(chan[c][s]))
  BY <1>3
<1>6. Learns(c, s, o, a)
  BY <1>1, <1>4, <1>5 DEF Learns
<1> QED  BY <1>1, <1>2, <1>6, DataStep

LEMMA ReadTableStep ==
    ASSUME Shapes, RouteInv, ~Overlap, NEW c \in Conns, NEW s \in Ends(c), ReadTable(c, s)
    PROVE  RouteInv'
<1> DEFINE o == Peer(c, s)
           m == Head(chan[c][s])
           list == m.sessionsTable
           ofUsers == [u \in {x.user : x \in ToSet(list)} |-> OfUser(list, u)]
<1>1. Reads(c, s, "sessionsTable") /\ o = Peer(c, s)
  BY DEF ReadTable
<1>2. CASE Ignored(c, s)
  BY <1>1, <1>2, IgnoredStep
<1>3. CASE ~Ignored(c, s)
  <2>1. /\ end[c][s] = "setup" /\ ReadData(c, s) /\ status' = status
        /\ wsPeerSessions' = [wsPeerSessions EXCEPT ![s] = Put(@, {o}, list)]
        /\ wsPeerSessions2' = [wsPeerSessions2 EXCEPT ![s] = Put(@, ToSet(list), o)]
        /\ wsPeerSessions3' = [wsPeerSessions3 EXCEPT ![s] = Put(@, {o}, ofUsers)]
    BY <1>3 DEF ReadTable, lifeVars
  <2>2. /\ m.action = "sessionsTable" /\ MessageOf(m, Started(o)) /\ ~Knows(s, o)
        /\ TablesAgree(wsPeerSessions[s], wsPeerSessions2[s], wsPeerSessions3[s])
        /\ s \in Servers /\ o \in Servers
    BY <1>1, HeadFacts
  <2>3. /\ ListOf(list, ToSet(list)) /\ Brings(m) = ToSet(list)
        /\ \A x \in ToSet(list) : x \in Sessions /\ x.at = o
    BY <2>2 DEF MessageOf, Brings, Started
  <2> HIDE DEF o, list, ofUsers
  <2>4. /\ wsPeerSessions'[s] = Put(wsPeerSessions[s], {o}, list)
        /\ wsPeerSessions2'[s] = Put(wsPeerSessions2[s], ToSet(list), o)
        /\ wsPeerSessions3'[s] = Put(wsPeerSessions3[s], {o}, ofUsers)
        /\ \A r \in Servers \ {s} : /\ wsPeerSessions'[r] = wsPeerSessions[r]
                                    /\ wsPeerSessions2'[r] = wsPeerSessions2[r]
                                    /\ wsPeerSessions3'[r] = wsPeerSessions3[r]
    BY <2>1, <2>2 DEF Shapes
  <2>5. TablesAgree(wsPeerSessions'[s], wsPeerSessions2'[s], wsPeerSessions3'[s])
    <3>1. o \notin DOMAIN wsPeerSessions[s]
      BY <2>2 DEF Knows
    <3>2. TablesAgree(Put(wsPeerSessions[s], {o}, list), Put(wsPeerSessions2[s], ToSet(list), o),
                      Put(wsPeerSessions3[s], {o}, ofUsers))
      BY <2>2, <2>3, <3>1, TableAgrees DEF ofUsers
    <3> QED  BY <2>4, <3>2
  <2>6. /\ DOMAIN wsPeerSessions'[s] = DOMAIN wsPeerSessions[s] \cup {o}
        /\ wsPeerSessions'[s][o] = list
        /\ \A p \in DOMAIN wsPeerSessions[s] \ {o} :
              wsPeerSessions'[s][p] = wsPeerSessions[s][p]
    BY <2>4 DEF Put
  <2>7. /\ \A p \in Servers \ {o} : Knows(s, p)' = Knows(s, p) /\ Known(s, p)' = Known(s, p)
        /\ Known(s, o)' = Brings(m)
    BY <2>3, <2>6 DEF Knows, Known
  <2>8. Learns(c, s, o, "sessionsTable")
    BY <2>1, <2>4, <2>5, <2>7 DEF Learns
  <2> QED  BY <1>1, <2>1, <2>8, DataStep
<1> QED  BY <1>2, <1>3

LEMMA ReadStartStep ==
    ASSUME Shapes, RouteInv, ~Overlap, NEW c \in Conns, NEW s \in Ends(c), ReadStart(c, s)
    PROVE  RouteInv'
<1> DEFINE o == Peer(c, s)
           m == Head(chan[c][s])
           x == m.sessionid
           lists == IF o \in DOMAIN wsPeerSessions3[s] THEN wsPeerSessions3[s][o] ELSE <<>>
<1>1. Reads(c, s, "sessionStart") /\ o = Peer(c, s)
  BY DEF ReadStart
<1>2. /\ m.action = "sessionStart" /\ MessageOf(m, Started(o)) /\ Brings(m) \cap Known(s, o) = {}
      /\ TablesAgree(wsPeerSessions[s], wsPeerSessions2[s], wsPeerSessions3[s])
      /\ s \in Servers /\ o \in Servers
  BY <1>1, HeadFacts
<1>3. CASE Ignored(c, s)
  BY <1>1, <1>3, IgnoredStep
<1>4. CASE StartsAnew(s)
  BY <1>2, <1>4, AnewStep
<1>5. CASE ~Ignored(c, s) /\ ~StartsAnew(s)
  <2>1. /\ Knows(s, o) /\ ReadData(c, s) /\ status' = status
        /\ wsPeerSessions' = [wsPeerSessions EXCEPT ![s][o] = Append(@, x)]
        /\ wsPeerSessions2' = [wsPeerSessions2 EXCEPT ![s] = Put(@, {x}, o)]
        /\ wsPeerSessions3' = [wsPeerSessions3 EXCEPT ![s] = Put(@, {o}, With(lists, x))]
        /\ lists = wsPeerSessions3[s][o]
    BY <1>2, <1>5 DEF ReadStart, Shapes, Knows, lifeVars
  <2>2. Brings(m) = {x} /\ x \in Sessions /\ x.at = o /\ x \notin Known(s, o)
    BY <1>2 DEF MessageOf, Brings, Started
  <2>3. x \notin ToSet(wsPeerSessions[s][o]) /\ o \in DOMAIN wsPeerSessions[s]
    BY <2>1, <2>2 DEF Known, Knows
  <2> HIDE DEF o, x, lists
  <2>4. /\ wsPeerSessions'[s] = [wsPeerSessions[s] EXCEPT ![o] = Append(@, x)]
        /\ wsPeerSessions2'[s] = Put(wsPeerSessions2[s], {x}, o)
        /\ wsPeerSessions3'[s] = Put(wsPeerSessions3[s], {o}, With(lists, x))
        /\ \A r \in Servers \ {s} : /\ wsPeerSessions'[r] = wsPeerSessions[r]
                                    /\ wsPeerSessions2'[r] = wsPeerSessions2[r]
                                    /\ wsPeerSessions3'[r] = wsPeerSessions3[r]
    <3>1. s \in Servers
      BY <1>2
    <3> QED  BY <2>1, <3>1 DEF Shapes
  <2>5. TablesAgree(wsPeerSessions'[s], wsPeerSessions2'[s], wsPeerSessions3'[s])
    <3>1. TablesAgree([wsPeerSessions[s] EXCEPT ![x.at] = Append(@, x)],
                      Put(wsPeerSessions2[s], {x}, x.at),
                      Put(wsPeerSessions3[s], {x.at}, With(wsPeerSessions3[s][x.at], x)))
      BY <1>2, <2>2, <2>3, StartAgrees
    <3> QED  BY <2>1, <2>2, <2>4, <3>1
  <2>6. ToSet(Append(wsPeerSessions[s][o], x)) = ToSet(wsPeerSessions[s][o]) \cup {x}
    <3>1. ListOf(wsPeerSessions[s][o], ToSet(wsPeerSessions[s][o]))
      BY <1>2, <2>3 DEF TablesAgree
    <3> QED  BY <2>3, <3>1, AddedList DEF ListOf
  <2>7. /\ DOMAIN wsPeerSessions'[s] = DOMAIN wsPeerSessions[s]
        /\ wsPeerSessions'[s][o] = Append(wsPeerSessions[s][o], x)
        /\ \A p \in DOMAIN wsPeerSessions[s] \ {o} :
              wsPeerSessions'[s][p] = wsPeerSessions[s][p]
    BY <2>3, <2>4
  <2>8. /\ \A p \in Servers \ {o} : Knows(s, p)' = Knows(s, p) /\ Known(s, p)' = Known(s, p)
        /\ Knows(s, o) /\ Known(s, o)' \subseteq Known(s, o) \cup Brings(m)
    BY <2>1, <2>2, <2>6, <2>7 DEF Knows, Known
  <2>9. Learns(c, s, o, "sessionStart")
    BY <2>1, <2>4, <2>5, <2>8 DEF Learns
  <2> QED  BY <1>1, <2>1, <2>9, DataStep
<1> QED  BY <1>3, <1>4, <1>5

LEMMA ReadEndStep ==
    ASSUME Shapes, RouteInv, ~Overlap, NEW c \in Conns, NEW s \in Ends(c), ReadEnd(c, s)
    PROVE  RouteInv'
<1> DEFINE o == Peer(c, s)
           m == Head(chan[c][s])
           x == m.sessionid
<1>1. Reads(c, s, "sessionEnd") /\ o = Peer(c, s)
  BY DEF ReadEnd
<1>2. /\ m.action = "sessionEnd" /\ MessageOf(m, Started(o))
      /\ TablesAgree(wsPeerSessions[s], wsPeerSessions2[s], wsPeerSessions3[s])
      /\ s \in Servers /\ o \in Servers
  BY <1>1, HeadFacts
<1>3. CASE Ignored(c, s)
  BY <1>1, <1>3, IgnoredStep
<1>4. CASE StartsAnew(s)
  BY <1>2, <1>4, AnewStep
<1>5. CASE ~Ignored(c, s) /\ ~StartsAnew(s)
  <2>1. /\ Knows(s, o) /\ o \in DOMAIN wsPeerSessions[s] /\ ReadData(c, s) /\ status' = status
        /\ wsPeerSessions' = [wsPeerSessions EXCEPT ![s][o] = RemoveFirst(@, x)]
        /\ wsPeerSessions2' = [wsPeerSessions2 EXCEPT ![s] = Restrict(@, DOMAIN @ \ {x})]
        /\ wsPeerSessions3' = [wsPeerSessions3 EXCEPT ![s][o] = Without(@, x)]
    BY <1>5 DEF ReadEnd, Knows, lifeVars
  <2>2. x \in Sessions /\ x.at = o
    <3>1. x # NoSession
      BY <1>5 DEF ReadEnd
    <3> QED  BY <1>2, <3>1 DEF MessageOf, Started
  <2> HIDE DEF o, x
  <2>4. /\ wsPeerSessions'[s] = [wsPeerSessions[s] EXCEPT ![o] = RemoveFirst(@, x)]
        /\ wsPeerSessions2'[s] = Restrict(wsPeerSessions2[s], DOMAIN wsPeerSessions2[s] \ {x})
        /\ wsPeerSessions3'[s] = [wsPeerSessions3[s] EXCEPT ![o] = Without(@, x)]
        /\ \A r \in Servers \ {s} : /\ wsPeerSessions'[r] = wsPeerSessions[r]
                                    /\ wsPeerSessions2'[r] = wsPeerSessions2[r]
                                    /\ wsPeerSessions3'[r] = wsPeerSessions3[r]
    <3>1. s \in Servers
      BY <1>2
    <3> QED  BY <2>1, <3>1 DEF Shapes
  <2>5. TablesAgree(wsPeerSessions'[s], wsPeerSessions2'[s], wsPeerSessions3'[s])
    <3>1. TablesAgree([wsPeerSessions[s] EXCEPT ![x.at] = RemoveFirst(@, x)],
                      Restrict(wsPeerSessions2[s], DOMAIN wsPeerSessions2[s] \ {x}),
                      [wsPeerSessions3[s] EXCEPT ![x.at] = Without(@, x)])
      BY <1>2, <2>1, <2>2, EndAgrees
    <3> QED  BY <2>2, <2>4, <3>1
  <2>6. ToSet(RemoveFirst(wsPeerSessions[s][o], x)) = ToSet(wsPeerSessions[s][o]) \ {x}
    <3>1. ListOf(wsPeerSessions[s][o], ToSet(wsPeerSessions[s][o]))
      BY <1>2, <2>1 DEF TablesAgree
    <3> QED  BY <3>1, ListWithout DEF ListOf
  <2>7. /\ DOMAIN wsPeerSessions'[s] = DOMAIN wsPeerSessions[s]
        /\ wsPeerSessions'[s][o] = RemoveFirst(wsPeerSessions[s][o], x)
        /\ \A p \in DOMAIN wsPeerSessions[s] \ {o} :
              wsPeerSessions'[s][p] = wsPeerSessions[s][p]
    BY <2>1, <2>4
  <2>8. /\ \A p \in Servers \ {o} : Knows(s, p)' = Knows(s, p) /\ Known(s, p)' = Known(s, p)
        /\ Knows(s, o) /\ Known(s, o)' \subseteq Known(s, o) \cup Brings(m)
    BY <2>1, <2>6, <2>7 DEF Knows, Known
  <2>9. Learns(c, s, o, "sessionEnd")
    BY <2>1, <2>4, <2>5, <2>8 DEF Learns
  <2> QED  BY <1>1, <2>1, <2>9, DataStep
<1> QED  BY <1>3, <1>4, <1>5

-----------------------------------------------------------------------------
LEMMA RouteInit == Init => RouteInv
<1> SUFFICES ASSUME Init  PROVE RouteInv
  OBVIOUS
<1> USE ConnFacts
<1>1. /\ LinkInit /\ wsPeerSessions = [s \in Servers |-> <<>>]
      /\ wsPeerSessions2 = [s \in Servers |-> <<>>]
      /\ wsPeerSessions3 = [s \in Servers |-> <<>>]
  BY DEF Init
<1>2. LinkInv
  BY <1>1, LinkInitInv
<1>3. ChanInv
  <2>1. DOMAIN chan = Conns /\ \A c \in Conns : DOMAIN chan[c] = Servers
    BY <1>1 DEF LinkInit
  <2>2. ASSUME NEW c \in Conns, NEW s \in Ends(c)  PROVE EndOK(c, s)
    <3>1. chan[c][s] = <<>> /\ end[c][s] = "none"
      BY <1>1 DEF LinkInit
    <3> QED  BY <3>1, EmptyIsSeq DEF EndOK, Alive
  <2> QED  BY <2>1, <2>2 DEF ChanInv
<1>4. PeersOnly
  BY <1>1 DEF PeersOnly, Knows
<1>5. Agreement
  BY <1>1, NothingAgrees DEF Agreement
<1> QED  BY <1>2, <1>3, <1>4, <1>5 DEF RouteInv

\* Every step keeps the tables in agreement while connections do not overlap.
THEOREM NextRoutes == ASSUME ~Overlap  PROVE IInv /\ [Next]_vars => IInv'
<1> SUFFICES ASSUME IInv, [Next]_vars  PROVE RouteInv'
  BY NextCounted DEF IInv
<1>0. Shapes /\ RouteInv
  BY DEF IInv, CountInv
<1>1. ASSUME UNCHANGED <<linkVars, tableVars>>, \A p : Started(p)' = Started(p)
      PROVE  RouteInv'
  <2>1. /\ peerServers' = peerServers /\ end' = end /\ chan' = chan /\ TablesKept
    BY <1>1 DEF linkVars, tableVars, TablesKept
  <2>2. LinkInv'
    BY <1>0, <2>1, LinkStepInv DEF RouteInv, LinkStep
  <2>3. PeersOnly' /\ Agreement'
    BY <1>0, <1>1, <2>1, PeersKept, AgreementKept DEF RouteInv
  <2>4. ASSUME NEW c \in Conns, NEW s \in Ends(c)  PROVE EndOK(c, s)'
    <3> DEFINE p == Peer(c, s)
    <3>1. EndOK(c, s) /\ p = Peer(c, s)
      BY <1>0 DEF RouteInv, ChanInv
    <3>2. Knows(s, p)' = Knows(s, p) /\ Known(s, p)' = Known(s, p)
      BY <2>1, KnownKept DEF TablesKept
    <3>3. Started(p) \subseteq Started(p)'
      BY <1>1
    <3> HIDE DEF p
    <3> QED  BY <2>1, <3>1, <3>2, <3>3, EndKept
  <2>5. ChanInv'
    BY <1>0, <2>1, <2>4 DEF RouteInv, ChanInv
  <2> QED  BY <2>2, <2>3, <2>5 DEF RouteInv
<1>2. ASSUME NEW x \in Sessions, Ask(x) \/ CloseUnheard(x)  PROVE RouteInv'
  <2>1. \/ status' = status
        \/ status[x] = "none" /\ status' = [status EXCEPT ![x] = "asking"]
    BY <1>2 DEF Ask, CloseUnheard
  <2>2. \A p : Started(p)' = Started(p)
    BY <2>1, <1>0 DEF Started, Shapes
  <2>3. UNCHANGED <<linkVars, tableVars>>
    BY <1>2 DEF Ask, CloseUnheard
  <2> QED  BY <1>1, <2>2, <2>3
<1>3. ASSUME NEW s \in Servers  PROVE Found(chan, s)
  BY <1>0 DEF RouteInv, ChanInv, Found
<1>4. ASSUME NEW x \in Sessions, SessionStart(x)  PROVE RouteInv'
  <2> DEFINE s == x.at
             m == [action |-> "sessionStart", sessionid |-> x]
  <2>1. /\ status[x] = "asking" /\ status' = [status EXCEPT ![x] = "listed"]
        /\ chan' = DispatchAll(chan, s, <<m>>) /\ TablesKept /\ UNCHANGED <<peerServers, end>>
    BY <1>4 DEF SessionStart, tableVars, TablesKept
  <2>2. /\ \A p \in Servers : Started(p) \subseteq Started(p)'
        /\ x \notin Started(s) /\ x \in Started(s)' /\ s \in Servers
    BY <2>1, <1>0, SessionsAssumption DEF Started, Shapes
  <2>3. Brings(m) = {x} /\ m.action # "sessionsTable" /\ m.action # "sessionEnd"
    BY DEF Brings
  <2>4. MessageOf(m, Started(s)') /\ Brings(m) \cap Started(s) = {}
    BY <2>2, <2>3 DEF MessageOf
  <2> HIDE DEF m, s
  <2>5. News(<<m>>, Started(s), Started(s)')
    <3>1. IsSeq(<<m>>) /\ Len(<<m>>) = 1 /\ <<m>>[1] = m
      <4>1. <<m>> \in Seq({m})
        OBVIOUS
      <4> QED  BY <4>1 DEF IsSeq
    <3> QED  BY <2>2, <2>3, <2>4, <3>1 DEF News
  <2> QED  BY <1>0, <1>3, <2>1, <2>2, <2>5, LocalStep
<1>14. ASSUME NEW x \in Sessions, SessionEnd(x) \/ SessionStopped(x)  PROVE RouteInv'
  <2> DEFINE s == x.at
  <2>1. /\ status[x] = "listed" /\ CloseSessions(s, x.user, {x}, x.user \in users[s])
        /\ chan' = DispatchAll(chan, s, EndsOf({x})) /\ TablesKept
        /\ UNCHANGED <<peerServers, end>>
    BY <1>14 DEF SessionEnd, SessionStopped, tableVars, TablesKept
  <2>2. {x} \subseteq Own(s) /\ s \in Servers
    BY <2>1, SessionsAssumption DEF Own
  <2> HIDE DEF s
  <2>3. /\ {x} \subseteq Started(s) /\ {x} \subseteq Sessions
        /\ \A p : Started(p) \subseteq Started(p)'
    BY <2>1, <2>2, ClosedFacts
  <2>4. News(EndsOf({x}), Started(s), Started(s)')
    BY <2>3, EndsAreNews
  <2> QED  BY <1>0, <1>3, <2>1, <2>2, <2>3, <2>4, LocalStep
<1>15. ASSUME NEW x \in Sessions, SecondClose(x)  PROVE RouteInv'
  <2> DEFINE s == x.at
             none == [action |-> "sessionEnd", sessionid |-> NoSession]
  <2>1. /\ chan' = DispatchAll(chan, s, <<none>>) /\ TablesKept
        /\ UNCHANGED <<peerServers, end>> /\ status' = status
    BY <1>15 DEF SecondClose, tableVars, TablesKept
  <2>2. s \in Servers
    BY SessionsAssumption
  <2>3. \A p : Started(p)' = Started(p)
    BY <2>1 DEF Started
  <2>4. News(<<none>>, Started(s), Started(s)')
    <3> DEFINE A == Started(s)
               B == Started(s)'
    <3>1. A \subseteq B
      BY <2>3
    <3> HIDE DEF A, B
    <3>2. News(<<none>>, A, B)
      BY <3>1, NoneIsNews
    <3> QED  BY <3>2 DEF A, B
  <2>5. \A p \in Servers : Started(p) \subseteq Started(p)'
    BY <2>3
  <2> HIDE DEF s, none
  <2> QED  BY <1>0, <1>3, <2>1, <2>2, <2>4, <2>5, LocalStep
<1>16. ASSUME NEW s \in Servers, NEW u, DeleteUser(s, u)  PROVE RouteInv'
  <2> DEFINE X == Hearing(s, u)
             w == Append(EndsOf(X), [action |-> "bus", user |-> u])
  <2>1. /\ CloseSessions(s, u, X, FALSE) /\ chan' = DispatchAll(chan, s, w) /\ TablesKept
        /\ UNCHANGED <<peerServers, end>>
    BY <1>16 DEF DeleteUser, tableVars, TablesKept
  <2>2. X \subseteq Own(s)
    BY DEF Hearing
  <2> HIDE DEF X
  <2>3. X \subseteq Started(s) /\ X \subseteq Sessions /\ \A p : Started(p) \subseteq Started(p)'
    BY <2>1, <2>2, ClosedFacts
  <2>4. News(w, Started(s), Started(s)')
    BY <2>3, EndsAreNews
  <2> HIDE DEF w
  <2> QED  BY <1>0, <1>3, <2>1, <2>3, <2>4, LocalStep
<1>17. ASSUME NEW s \in Servers, NEW u, ChangeAccount(s, u)  PROVE RouteInv'
  BY <1>1, <1>17 DEF ChangeAccount, lifeVars, Started
<1>18. ASSUME NEW c \in Conns, NEW s \in Ends(c), ReadBus(c, s)  PROVE RouteInv'
  <2> DEFINE u == Head(chan[c][s]).user
             X == Hearing(s, u)
  <2>1. CASE Ignored(c, s)
    <3>1. Reads(c, s, "bus")
      BY <1>18 DEF ReadBus
    <3> QED  BY <1>0, <2>1, <3>1, IgnoredStep
  <2>2. CASE ~Ignored(c, s)
    <3>1. /\ Reads(c, s, "bus") /\ CloseSessions(s, u, X, u \in users[s])
          /\ chan' = DispatchAll(Taken(c, s), s, EndsOf(X)) /\ TablesKept
          /\ UNCHANGED <<peerServers, end>>
      BY <1>18, <2>2 DEF ReadBus, tableVars, TablesKept
    <3>2. X \subseteq Own(s) /\ s \in Servers
      BY ConnFacts DEF Hearing
    <3> HIDE DEF X, u
    <3>3. X \subseteq Started(s) /\ X \subseteq Sessions /\ \A p : Started(p) \subseteq Started(p)'
      BY <3>1, <3>2, ClosedFacts
    <3>4. News(EndsOf(X), Started(s), Started(s)')
      BY <3>3, EndsAreNews
    <3>5. Found(Taken(c, s), s)
      BY <1>0, <3>1, TakenFacts, ConnFacts DEF Found, RouteInv
    <3> QED  BY <1>0, <3>1, <3>2, <3>3, <3>4, <3>5, LocalStep
  <2> QED  BY <2>1, <2>2
<1>5. ASSUME NEW s \in Servers, Restart(s)  PROVE RouteInv'
  BY <1>0, <1>5, AnewStep DEF Restart
<1>6. ASSUME NEW c \in Conns, Open(c)  PROVE RouteInv'
  BY <1>0, <1>6, OpenStep
<1>7. ASSUME NEW c \in Conns, NEW s \in Ends(c), Confirmed(c, s)  PROVE RouteInv'
  BY <1>0, <1>7, ConfirmedStep
<1>8. ASSUME NEW c \in Conns, NEW s \in Ends(c), SetupPeerServer(c, s)  PROVE RouteInv'
  BY <1>0, <1>8, SetupPeerServerStep
<1>9. ASSUME NEW c \in Conns, NEW s \in Ends(c), Close(c, s)  PROVE RouteInv'
  BY <1>0, <1>9, CloseStep
<1>10. ASSUME NEW c \in Conns, NEW s \in Ends(c), ReadTable(c, s)  PROVE RouteInv'
  BY <1>0, <1>10, ReadTableStep
<1>11. ASSUME NEW c \in Conns, NEW s \in Ends(c), ReadStart(c, s)  PROVE RouteInv'
  BY <1>0, <1>11, ReadStartStep
<1>12. ASSUME NEW c \in Conns, NEW s \in Ends(c), ReadEnd(c, s)  PROVE RouteInv'
  BY <1>0, <1>12, ReadEndStep
<1>13. CASE UNCHANGED vars
  BY <1>1, <1>13 DEF vars, lifeVars, Started
<1> QED
  BY <1>2, <1>4, <1>5, <1>6, <1>7, <1>8, <1>9, <1>10, <1>11, <1>12, <1>13,
     <1>14, <1>15, <1>16, <1>17, <1>18 DEF Next

\* The invariant gives what is said of the tables.
LEMMA RoutesAgree == IInv => SessionsAreRouted
<1> SUFFICES ASSUME IInv, NEW s \in Servers
             PROVE  /\ DOMAIN wsPeerSessions[s] = DOMAIN wsPeerSessions3[s]
                    /\ \A p \in DOMAIN wsPeerSessions[s] :
                          LET list == wsPeerSessions[s][p] IN
                          /\ peerServers[s][p] # NoConn /\ IsInjective(list)
                          /\ {x \in DOMAIN wsPeerSessions2[s] : wsPeerSessions2[s][x] = p}
                                = ToSet(list)
                          /\ \A u \in Users :
                                LET ofUser == Listed(wsPeerSessions3[s][p], u) IN
                                /\ IsInjective(ofUser)
                                /\ ToSet(ofUser) = {x \in ToSet(list) : x.user = u}
                    /\ \A x \in DOMAIN wsPeerSessions2[s] :
                          wsPeerSessions2[s][x] \in DOMAIN wsPeerSessions[s]
  BY DEF SessionsAreRouted
<1>1. TablesAgree(wsPeerSessions[s], wsPeerSessions2[s], wsPeerSessions3[s])
  BY DEF IInv, RouteInv, Agreement
<1>2. ASSUME NEW p \in DOMAIN wsPeerSessions[s]  PROVE peerServers[s][p] # NoConn
  <2>1. p \in Servers /\ Knows(s, p)
    BY <1>1 DEF TablesAgree, Knows
  <2> QED  BY <2>1 DEF IInv, RouteInv, PeersOnly
<1>3. ASSUME NEW p \in DOMAIN wsPeerSessions[s]
      PROVE  {x \in DOMAIN wsPeerSessions2[s] : wsPeerSessions2[s][x] = p}
                = ToSet(wsPeerSessions[s][p])
  BY <1>1 DEF TablesAgree
<1>4. ASSUME NEW p \in DOMAIN wsPeerSessions[s]
      PROVE  /\ IsInjective(wsPeerSessions[s][p])
             /\ \A u \in Users :
                   /\ IsInjective(Listed(wsPeerSessions3[s][p], u))
                   /\ ToSet(Listed(wsPeerSessions3[s][p], u))
                         = {x \in ToSet(wsPeerSessions[s][p]) : x.user = u}
  BY <1>1 DEF TablesAgree, ListOf
<1>5. /\ DOMAIN wsPeerSessions[s] = DOMAIN wsPeerSessions3[s]
      /\ \A x \in DOMAIN wsPeerSessions2[s] :
            wsPeerSessions2[s][x] \in DOMAIN wsPeerSessions[s]
  BY <1>1 DEF TablesAgree
<1> QED  BY <1>2, <1>3, <1>4, <1>5

\* What is sent to a session that is listed is always routed to the server that
\* has it, and each is listed once: no session is announced both in the list and
\* by itself, although the list is taken when the connection is set up and comes
\* among the announcements.
THEOREM SessionsAreAlwaysRouted == ASSUME ~Overlap  PROVE Spec => []SessionsAreRouted
<1>1. IInv /\ [Next]_vars => IInv'
  BY NextRoutes
<1>2. Init => IInv
  BY CountInit, RouteInit DEF IInv
<1> QED  BY <1>1, <1>2, RoutesAgree, PTL DEF Spec
=============================================================================
