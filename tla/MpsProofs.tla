----------------------------- MODULE MpsProofs -----------------------------
(***************************************************************************)
(* Proofs about MpsChannels for any number of channels, any windows and    *)
(* any traffic: the bytes of a channel arrive once each and in order, the  *)
(* credit of both directions is kept, and two ends that closed a channel   *)
(* agree.  The bytes and the credit on their way are defined by recursion  *)
(* over a stream; what the definitions compute is proved by induction over *)
(* the natural numbers, in the form of a set that is shown to be all of    *)
(* them.  Then proofs about MpsConnections, the other half of the server.  *)
(***************************************************************************)
EXTENDS MpsChannels, MpsConnections, FiniteSetTheorems, WellFoundedInduction, TLAPS

Seqs == INSTANCE SequenceTheorems

\* The messages of each direction.
ToAmt ==
    [type : {"open", "close"}, ch : Channels]
        \cup [type : {"data"}, ch : Channels, bytes : Seq(Nat)]
        \cup [type : {"adjust"}, ch : Channels, n : Nat]
ToServer ==
    [type : {"failure", "close"}, ch : Channels]
        \cup [type : {"confirm", "adjust", "data"}, ch : Channels, n : Nat]

\* Anything of channel c.
Of(stream, c) == \E i \in 1..Len(stream) : stream[i].ch = c

\* The confirmations of channel c announce the window w.
Announces(stream, c, w) ==
    \A i \in 1..Len(stream) :
        stream[i].ch = c /\ stream[i].type = "confirm" => stream[i].n = w

\* What begins a channel comes before the rest of it, and what ends it after.
Firsts == {"open", "confirm", "failure"}
Lasts == {"open", "failure", "close"}
Ordered(q) ==
    \A i, j \in 1..Len(q) : q[i].ch = q[j].ch =>
        /\ q[i].type \in Firsts => i <= j
        /\ q[i].type \in Lasts => j <= i

Types ==
    /\ TypeOK
    /\ written \in [Channels -> Nat]
    /\ toAmt \in Seq(ToAmt) /\ toServer \in Seq(ToServer)
    /\ device \in [Channels ->
          [state : {"none", "open", "closed"}, window : Nat, received : Seq(Nat),
           consumed : Nat, credits : Nat, replied : Nat]]

\* A channel that is not set up, one whose open is on its way, one whose
\* confirmation is, one that was refused.
Waiting(c) ==
    \/ OnTheWay(toAmt, c, "open")
    \/ OnTheWay(toServer, c, "confirm") \/ OnTheWay(toServer, c, "failure")
Fresh(c) ==
    c >= nextchannelid =>
        /\ ~Of(toAmt, c) /\ ~Of(toServer, c) /\ device[c] = NoEnd
        /\ channels[c].state = 0 /\ ~channels[c].closing /\ written[c] = 0
Opening(c) ==
    OnTheWay(toAmt, c, "open") =>
        /\ ~Of(toServer, c) /\ device[c] = NoEnd
        /\ channels[c].amtpendingcredits = 0
Confirming(c) ==
    OnTheWay(toServer, c, "confirm") =>
        /\ ~Of(toAmt, c) /\ ~OnTheWay(toServer, c, "adjust")
        /\ device[c].state \in {"open", "closed"}
        /\ device[c].state = "closed" => OnTheWay(toServer, c, "close")
        /\ device[c].received = <<>> /\ device[c].consumed = 0
        /\ Announces(toServer, c, device[c].window)
Failing(c) ==
    OnTheWay(toServer, c, "failure") => ~Of(toAmt, c) /\ device[c].state = "closed"
Waits(c) ==
    /\ Waiting(c) =>
          /\ c \in registered
          /\ channels[c].state = 1 \/ (channels[c].state = 0 /\ channels[c].closing)
    /\ channels[c].state = 1 => Waiting(c)
    /\ channels[c].closing => channels[c].state = 0

\* How the ends of a channel close.
Closing(c) ==
    /\ device[c].state = "open" => c \in registered
    /\ OnTheWay(toServer, c, "close") => device[c].state = "closed" /\ c \in registered
    /\ device[c].state = "open" /\ channels[c].state # 2 =>
          OnTheWay(toServer, c, "confirm") \/ OnTheWay(toAmt, c, "close")
    /\ channels[c].state = 2 /\ device[c].state # "open" => OnTheWay(toServer, c, "close")
    /\ OnTheWay(toAmt, c, "close") => channels[c].state = 0
    /\ Of(toAmt, c) /\ device[c].state = "none" => OnTheWay(toAmt, c, "open")

\* The bytes and the credit.
Stream(c) ==
    channels[c].state # 0 /\ device[c].state # "closed" =>
        device[c].received \o BytesIn(toAmt, c) \o channels[c].sendBuffer
            = [i \in 1..written[c] |-> i]
Window(c) ==
    device[c].state = "open" =>
        /\ device[c].consumed <= Len(device[c].received)
        /\ ~OnTheWay(toServer, c, "confirm") =>
              channels[c].sendcredits + (Len(device[c].received) - device[c].consumed)
                  + Len(BytesIn(toAmt, c)) + Total(toServer, c, "adjust")
                = device[c].window
ReplyWindow(c) ==
    /\ channels[c].state # 0 /\ device[c].state = "open" =>
          device[c].credits + Total(toServer, c, "data") + Total(toAmt, c, "adjust")
              + channels[c].amtpendingcredits = CiraWindow
    /\ 2 * channels[c].amtpendingcredits <= CiraWindow

Control(c) ==
    Fresh(c) /\ Opening(c) /\ Confirming(c) /\ Failing(c) /\ Waits(c) /\ Closing(c)

ChannelInv(c) == Control(c) /\ Stream(c) /\ Window(c) /\ ReplyWindow(c)

IInv ==
    /\ Types /\ Ordered(toAmt) /\ Ordered(toServer)
    /\ \A c \in Channels : ChannelInv(c)
    /\ TunnelsCounted

-----------------------------------------------------------------------------
(***************************************************************************)
(* Induction.                                                              *)
(***************************************************************************)

LEMMA LeastOfNat ==
    ASSUME NEW T \in SUBSET Nat, T # {}
    PROVE  \E x \in T : \A y \in T : x <= y
<1> DEFINE TT == {0..n : n \in T}
<1>1. IsWellFoundedOn(StrictSubsetOrdering(Nat), FiniteSubsetsOf(Nat))
  BY FS_StrictSubsetOrderingWellFounded
<1>2. TT \subseteq FiniteSubsetsOf(Nat)
  <2>1. \A n \in T : IsFiniteSet(0..n) /\ 0..n \subseteq Nat
    BY FS_Interval
  <2> QED  BY <2>1 DEF FiniteSubsetsOf
<1>3. TT # {}
  OBVIOUS
<1>4. PICK X \in TT : \A Y \in TT : ~(<<Y, X>> \in StrictSubsetOrdering(Nat))
  <2> HIDE DEF TT
  <2> QED  BY <1>1, <1>2, <1>3, WFMin
<1>5. PICK x \in T : X = 0..x
  OBVIOUS
<1>6. ASSUME NEW y \in T, y < x  PROVE FALSE
  <2>1. 0..y \in TT /\ 0..y \subseteq 0..x /\ 0..y # 0..x
    BY <1>6
  <2>2. <<0..y, X>> \in StrictSubsetOrdering(Nat)
    BY <2>1, <1>5 DEF StrictSubsetOrdering
  <2> QED  BY <1>4, <2>1, <2>2
<1> QED  BY <1>6

\* A set that has 0, and with a number the next one, has every number.
LEMMA SetInduction ==
    ASSUME NEW S, 0 \in S, \A n \in Nat : n \in S => n + 1 \in S
    PROVE  Nat \subseteq S
<1> DEFINE T == Nat \ S
<1>1. CASE T = {}
  BY <1>1
<1>2. CASE T # {}
  <2>1. PICK x \in T : \A y \in T : x <= y
    BY <1>2, LeastOfNat
  <2>2. x # 0
    BY <2>1
  <2>3. x - 1 \in Nat /\ x - 1 \notin T
    BY <2>1, <2>2
  <2> QED  BY <2>1, <2>3
<1> QED  BY <1>1, <1>2

\* Iteration: from x, by one function after the other.
Iterates(f, n, X, x, step) ==
    /\ f[0] = x /\ \A i \in 0..n : f[i] \in X
    /\ \A i \in 1..n : f[i] = step[i][f[i - 1]]

LEMMA IterationExists ==
    ASSUME NEW n \in Nat, NEW X, NEW x \in X, NEW step, \A i \in 1..n : step[i] \in [X -> X]
    PROVE  \E f : Iterates(f, n, X, x, step)
<1> DEFINE Runs(f, k) == Iterates(f, k, X, x, step)
           S == {k \in Nat : k <= n => \E f : Runs(f, k)}
<1>1. 0 \in S
  <2>1. Runs([i \in {0} |-> x], 0)
    BY DEF Iterates
  <2> HIDE DEF Runs
  <2> QED  BY <2>1
<1>2. ASSUME NEW k \in Nat, k \in S  PROVE k + 1 \in S
  <2> SUFFICES ASSUME k + 1 <= n  PROVE \E f : Runs(f, k + 1)
    OBVIOUS
  <2>1. PICK f : Runs(f, k)
    <3> HIDE DEF Runs
    <3> QED  BY <1>2
  <2> DEFINE g == [i \in 0..(k + 1) |-> IF i <= k THEN f[i] ELSE step[k + 1][f[k]]]
  <2>2. step[k + 1] \in [X -> X] /\ f[k] \in X
    BY <2>1 DEF Iterates
  <2>3. g[k + 1] = step[k + 1][f[k]] /\ \A i \in 0..k : g[i] = f[i]
    OBVIOUS
  <2> HIDE DEF g
  <2>4. \A i \in 0..(k + 1) : g[i] \in X
    <3>1. \A i \in 0..(k + 1) : i = k + 1 \/ i \in 0..k
      OBVIOUS
    <3>2. g[k + 1] \in X
      BY <2>2, <2>3
    <3> QED  BY <2>1, <2>3, <3>1, <3>2 DEF Iterates
  <2>5. ASSUME NEW i \in 1..(k + 1)  PROVE g[i] = step[i][g[i - 1]]
    <3>1. CASE i \in 1..k
      <4>1. g[i] = f[i] /\ g[i - 1] = f[i - 1]
        BY <2>3, <3>1
      <4> QED  BY <2>1, <3>1, <4>1 DEF Iterates
    <3>2. CASE i = k + 1
      <4>1. i - 1 = k /\ g[k] = f[k]
        BY <2>3, <3>2
      <4> QED  BY <2>3, <3>2, <4>1
    <3> QED  BY <3>1, <3>2
  <2>6. g[0] = x
    BY <2>1, <2>3 DEF Iterates
  <2>7. Runs(g, k + 1)
    BY <2>4, <2>5, <2>6 DEF Iterates
  <2> HIDE DEF Runs
  <2> QED  BY <2>7
<1> HIDE DEF S
<1>3. n \in S
  BY <1>1, <1>2, SetInduction
<1> QED  BY <1>3 DEF S

\* Two functions that agree at 0, and at a number when they agree before it.
LEMMA Agreeing ==
    ASSUME NEW n \in Nat, NEW f, NEW g, f[0] = g[0],
           \A i \in 1..n : f[i - 1] = g[i - 1] => f[i] = g[i]
    PROVE  \A i \in 0..n : f[i] = g[i]
<1> DEFINE S == {k \in Nat : k <= n => f[k] = g[k]}
<1>1. 0 \in S
  OBVIOUS
<1>2. ASSUME NEW k \in Nat, k \in S  PROVE k + 1 \in S
  <2> SUFFICES ASSUME k + 1 <= n  PROVE f[k + 1] = g[k + 1]
    OBVIOUS
  <2>1. f[k] = g[k] /\ (k + 1) - 1 = k /\ k + 1 \in 1..n
    BY <1>2
  <2> QED  BY <2>1
<1> HIDE DEF S
<1>3. Nat \subseteq S
  BY <1>1, <1>2, SetInduction
<1> QED  BY <1>3 DEF S

-----------------------------------------------------------------------------
(***************************************************************************)
(* What the recursive definitions compute.                                 *)
(***************************************************************************)

\* f gives, for every beginning of the stream, the sum of its numbers.
Sums(q, c, type, f) ==
    f[0] = 0 /\ \A i \in 1..Len(q) : f[i] = f[i - 1] + NumberOf(q[i], c, type)

HasNumbers(q, c, type) == \A i \in 1..Len(q) : NumberOf(q[i], c, type) \in Nat

LEMMA SumsExist ==
    ASSUME NEW q, Len(q) \in Nat, NEW c, NEW type, HasNumbers(q, c, type)
    PROVE  \E f : Sums(q, c, type, f) /\ \A i \in 0..Len(q) : f[i] \in Nat
<1> DEFINE n == Len(q)
           step == [i \in 1..n |-> [x \in Nat |-> x + NumberOf(q[i], c, type)]]
<1>1. \A i \in 1..n : NumberOf(q[i], c, type) \in Nat
  BY DEF HasNumbers
<1>2. \A i \in 1..n : /\ step[i] \in [Nat -> Nat]
                      /\ \A x \in Nat : step[i][x] = x + NumberOf(q[i], c, type)
  BY <1>1
<1> HIDE DEF step
<1>3. PICK f : Iterates(f, n, Nat, 0, step)
  <2>1. \A i \in 1..n : step[i] \in [Nat -> Nat]
    BY <1>2
  <2> QED  BY <2>1, IterationExists
<1>4. ASSUME NEW i \in 1..n  PROVE f[i] = f[i - 1] + NumberOf(q[i], c, type)
  <2>1. i - 1 \in 0..n
    OBVIOUS
  <2> QED  BY <1>2, <1>3, <2>1 DEF Iterates
<1> QED  BY <1>3, <1>4 DEF Sums, Iterates

LEMMA SumsAgree ==
    ASSUME NEW q, Len(q) \in Nat, NEW c, NEW type,
           NEW f, Sums(q, c, type, f), NEW g, Sums(q, c, type, g)
    PROVE  \A i \in 0..Len(q) : f[i] = g[i]
<1>1. f[0] = g[0]
  BY DEF Sums
<1>2. \A i \in 1..Len(q) : f[i - 1] = g[i - 1] => f[i] = g[i]
  BY DEF Sums
<1> QED  BY <1>1, <1>2, Agreeing, ZenonT(30)

\* The last of the sums is the total.
LEMMA TotalIs ==
    ASSUME NEW q, Len(q) \in Nat, NEW c, NEW type, NEW f, Sums(q, c, type, f)
    PROVE  Total(q, c, type) = f[Len(q)]
<1> DEFINE Is(g) == g = [i \in 0..Len(q) |->
                            IF i = 0 THEN 0 ELSE g[i - 1] + NumberOf(q[i], c, type)]
           h == CHOOSE g : Is(g)
           r == [i \in 0..Len(q) |-> f[i]]
<1>1. Is(r)
  <2>1. ASSUME NEW i \in 0..Len(q)
        PROVE  r[i] = IF i = 0 THEN 0 ELSE r[i - 1] + NumberOf(q[i], c, type)
    <3>1. CASE i = 0
      BY <3>1 DEF Sums
    <3>2. CASE i # 0
      <4>1. i \in 1..Len(q) /\ i - 1 \in 0..Len(q)
        BY <3>2
      <4>2. r[i] = f[i] /\ r[i - 1] = f[i - 1]
        BY <4>1
      <4>3. f[i] = f[i - 1] + NumberOf(q[i], c, type)
        BY <4>1 DEF Sums
      <4> QED  BY <3>2, <4>2, <4>3
    <3> QED  BY <3>1, <3>2
  <2> HIDE DEF r
  <2>2. r = [i \in 0..Len(q) |-> r[i]]
    BY DEF r
  <2> QED  BY <2>1, <2>2
<1>2. Is(h)
  <2> HIDE DEF Is, r
  <2> QED  BY <1>1, Zenon
<1>3. Total(q, c, type) = h[Len(q)]
  BY Zenon DEF Total
<1> HIDE DEF h
<1>4. Sums(q, c, type, h)
  <2>1. \A i \in 0..Len(q) : h[i] = IF i = 0 THEN 0 ELSE h[i - 1] + NumberOf(q[i], c, type)
    BY <1>2
  <2>2. \A i \in 1..Len(q) : i \in 0..Len(q) /\ i # 0
    OBVIOUS
  <2>3. 0 \in 0..Len(q)
    OBVIOUS
  <2> QED  BY <2>1, <2>2, <2>3 DEF Sums
<1>5. Len(q) \in 0..Len(q)
  OBVIOUS
<1> QED  BY <1>3, <1>4, <1>5, SumsAgree

LEMMA TotalIsNat ==
    ASSUME NEW q, Len(q) \in Nat, NEW c, NEW type, HasNumbers(q, c, type)
    PROVE  Total(q, c, type) \in Nat
<1>1. PICK f : Sums(q, c, type, f) /\ \A i \in 0..Len(q) : f[i] \in Nat
  BY SumsExist
<1>2. Total(q, c, type) = f[Len(q)]
  BY <1>1, TotalIs
<1>3. Len(q) \in 0..Len(q)
  OBVIOUS
<1> QED  BY <1>1, <1>2, <1>3

LEMMA TotalOfNone ==
    ASSUME NEW q, Len(q) \in Nat, NEW c, NEW type, ~OnTheWay(q, c, type)
    PROVE  Total(q, c, type) = 0
<1> DEFINE f == [i \in 0..Len(q) |-> 0]
<1>1. \A i \in 1..Len(q) : NumberOf(q[i], c, type) = 0
  BY DEF OnTheWay, NumberOf
<1>2. f[0] = 0 /\ f[Len(q)] = 0 /\ \A i \in 1..Len(q) : f[i] = 0 /\ f[i - 1] = 0
  OBVIOUS
<1> HIDE DEF f
<1>3. Sums(q, c, type, f)
  BY <1>1, <1>2 DEF Sums
<1> QED  BY <1>2, <1>3, TotalIs

LEMMA TotalOfAppend ==
    ASSUME NEW M, NEW q \in Seq(M), NEW m \in M, NEW c, NEW type, HasNumbers(q, c, type)
    PROVE  Total(Append(q, m), c, type) = Total(q, c, type) + NumberOf(m, c, type)
<1> DEFINE n == Len(q)
           a == Append(q, m)
<1>1. /\ n \in Nat /\ Len(a) = n + 1 /\ Len(a) \in Nat /\ a[n + 1] = m
      /\ \A i \in 1..n : a[i] = q[i]
  OBVIOUS
<1>2. PICK f : Sums(q, c, type, f)
  BY SumsExist
<1> DEFINE last == f[n] + NumberOf(m, c, type)
           g == [i \in 0..(n + 1) |-> IF i <= n THEN f[i] ELSE last]
<1> HIDE DEF last, a
<1>3. g[n + 1] = last /\ \A i \in 0..n : g[i] = f[i]
  BY <1>1
<1> HIDE DEF g
<1>4. Sums(a, c, type, g)
  <2>1. g[0] = 0
    BY <1>1, <1>2, <1>3 DEF Sums
  <2>2. ASSUME NEW i \in 1..(n + 1)  PROVE g[i] = g[i - 1] + NumberOf(a[i], c, type)
    <3>1. CASE i \in 1..n
      <4>1. g[i] = f[i] /\ g[i - 1] = f[i - 1] /\ a[i] = q[i]
        BY <1>1, <1>3, <3>1
      <4> QED  BY <1>2, <3>1, <4>1 DEF Sums
    <3>2. CASE i = n + 1
      <4>1. g[i] = last /\ g[i - 1] = f[n] /\ a[i] = m
        BY <1>1, <1>3, <3>2
      <4> QED  BY <4>1 DEF last
    <3> QED  BY <1>1, <3>1, <3>2
  <2> QED  BY <1>1, <2>1, <2>2 DEF Sums
<1>5. Total(a, c, type) = last
  BY <1>1, <1>3, <1>4, TotalIs
<1>6. Total(q, c, type) = f[n]
  BY <1>1, <1>2, TotalIs
<1> QED  BY <1>5, <1>6 DEF a, last

LEMMA TotalOfTail ==
    ASSUME NEW M, NEW q \in Seq(M), q # <<>>, NEW c, NEW type, HasNumbers(q, c, type)
    PROVE  Total(q, c, type) = NumberOf(Head(q), c, type) + Total(Tail(q), c, type)
<1> DEFINE n == Len(q)
           t == Tail(q)
           h == NumberOf(Head(q), c, type)
<1>1. /\ n \in Nat \ {0} /\ Len(t) = n - 1 /\ Len(t) \in Nat /\ Head(q) = q[1]
      /\ \A i \in 1..(n - 1) : t[i] = q[i + 1]
  BY Seqs!HeadTailProperties
<1>2. h \in Nat /\ HasNumbers(t, c, type)
  <2> HIDE DEF t
  <2>1. \A i \in 1..Len(t) : i + 1 \in 1..n /\ t[i] = q[i + 1]
    BY <1>1
  <2>2. 1 \in 1..n
    BY <1>1
  <2> QED  BY <1>1, <2>1, <2>2 DEF HasNumbers
<1> HIDE DEF t, h
<1>3. PICK f : Sums(t, c, type, f) /\ \A i \in 0..Len(t) : f[i] \in Nat
  BY <1>1, <1>2, SumsExist
<1> DEFINE g == [i \in 0..n |-> IF i = 0 THEN 0 ELSE h + f[i - 1]]
<1>4. g[0] = 0 /\ \A i \in 1..n : g[i] = h + f[i - 1]
  BY <1>1
<1> HIDE DEF g
<1>5. Sums(q, c, type, g)
  <2>1. ASSUME NEW i \in 1..n  PROVE g[i] = g[i - 1] + NumberOf(q[i], c, type)
    <3>1. CASE i = 1
      <4>1. f[0] = 0 /\ h = NumberOf(q[i], c, type) /\ i - 1 = 0
        BY <1>1, <1>3, <3>1 DEF Sums, h
      <4>2. g[i] = h + f[0] /\ g[i - 1] = 0
        BY <1>4, <3>1
      <4> QED  BY <1>2, <4>1, <4>2
    <3>2. CASE i # 1
      <4>1. /\ i - 1 \in 1..Len(t) /\ i - 1 \in 1..n /\ t[i - 1] = q[(i - 1) + 1]
            /\ (i - 1) + 1 = i /\ (i - 1) - 1 \in 0..Len(t)
        BY <1>1, <3>2
      <4>2. f[i - 1] = f[(i - 1) - 1] + NumberOf(q[i], c, type)
        BY <1>3, <4>1 DEF Sums
      <4>3. g[i] = h + f[i - 1] /\ g[i - 1] = h + f[(i - 1) - 1]
        BY <1>4, <4>1
      <4>4. NumberOf(q[i], c, type) \in Nat /\ f[(i - 1) - 1] \in Nat
        BY <1>3, <4>1 DEF HasNumbers
      <4> HIDE DEF n
      <4> QED  BY <1>2, <4>2, <4>3, <4>4
    <3> QED  BY <3>1, <3>2
  <2> QED  BY <1>4, <2>1 DEF Sums
<1>6. Total(q, c, type) = g[n] /\ Total(t, c, type) = f[n - 1]
  BY <1>1, <1>3, <1>5, TotalIs
<1> QED  BY <1>1, <1>4, <1>6 DEF t, h

\* f gives, for every beginning of the stream, its bytes.
Joins(q, c, f) ==
    f[0] = <<>> /\ \A i \in 1..Len(q) : f[i] = f[i - 1] \o BytesOf(q[i], c)

HasBytes(q, c) == \A i \in 1..Len(q) : BytesOf(q[i], c) \in Seq(Nat)

LEMMA JoinsExist ==
    ASSUME NEW q, Len(q) \in Nat, NEW c, HasBytes(q, c)
    PROVE  \E f : Joins(q, c, f) /\ \A i \in 0..Len(q) : f[i] \in Seq(Nat)
<1> DEFINE n == Len(q)
           step == [i \in 1..n |-> [x \in Seq(Nat) |-> x \o BytesOf(q[i], c)]]
<1>1. \A i \in 1..n : BytesOf(q[i], c) \in Seq(Nat)
  BY DEF HasBytes
<1>2. \A i \in 1..n : /\ step[i] \in [Seq(Nat) -> Seq(Nat)]
                      /\ \A x \in Seq(Nat) : step[i][x] = x \o BytesOf(q[i], c)
  BY <1>1
<1> HIDE DEF step
<1>3. PICK f : Iterates(f, n, Seq(Nat), <<>>, step)
  <2>1. /\ \A i \in 1..n : step[i] \in [Seq(Nat) -> Seq(Nat)]
        /\ <<>> \in Seq(Nat)
    BY <1>2
  <2> QED  BY <2>1, IterationExists
<1>4. ASSUME NEW i \in 1..n  PROVE f[i] = f[i - 1] \o BytesOf(q[i], c)
  <2>1. i - 1 \in 0..n
    OBVIOUS
  <2> QED  BY <1>2, <1>3, <2>1 DEF Iterates
<1> QED  BY <1>3, <1>4 DEF Joins, Iterates

LEMMA JoinsAgree ==
    ASSUME NEW q, Len(q) \in Nat, NEW c, NEW f, Joins(q, c, f), NEW g, Joins(q, c, g)
    PROVE  \A i \in 0..Len(q) : f[i] = g[i]
<1>1. f[0] = g[0]
  BY DEF Joins
<1>2. \A i \in 1..Len(q) : f[i - 1] = g[i - 1] => f[i] = g[i]
  BY DEF Joins
<1> QED  BY <1>1, <1>2, Agreeing, ZenonT(30)

LEMMA BytesAre ==
    ASSUME NEW q, Len(q) \in Nat, NEW c, NEW f, Joins(q, c, f)
    PROVE  BytesIn(q, c) = f[Len(q)]
<1> DEFINE Is(g) == g = [i \in 0..Len(q) |->
                            IF i = 0 THEN <<>> ELSE g[i - 1] \o BytesOf(q[i], c)]
           h == CHOOSE g : Is(g)
           r == [i \in 0..Len(q) |-> f[i]]
<1>1. Is(r)
  <2>1. ASSUME NEW i \in 0..Len(q)
        PROVE  r[i] = IF i = 0 THEN <<>> ELSE r[i - 1] \o BytesOf(q[i], c)
    <3>1. CASE i = 0
      BY <3>1 DEF Joins
    <3>2. CASE i # 0
      <4>1. i \in 1..Len(q) /\ i - 1 \in 0..Len(q)
        BY <3>2
      <4>2. r[i] = f[i] /\ r[i - 1] = f[i - 1]
        BY <4>1
      <4>3. f[i] = f[i - 1] \o BytesOf(q[i], c)
        BY <4>1 DEF Joins
      <4> QED  BY <3>2, <4>2, <4>3
    <3> QED  BY <3>1, <3>2
  <2> HIDE DEF r
  <2>2. r = [i \in 0..Len(q) |-> r[i]]
    BY DEF r
  <2> QED  BY <2>1, <2>2
<1>2. Is(h)
  <2> HIDE DEF Is, r
  <2> QED  BY <1>1, Zenon
<1>3. BytesIn(q, c) = h[Len(q)]
  BY Zenon DEF BytesIn
<1> HIDE DEF h
<1>4. Joins(q, c, h)
  <2>1. \A i \in 0..Len(q) : h[i] = IF i = 0 THEN <<>> ELSE h[i - 1] \o BytesOf(q[i], c)
    BY <1>2
  <2>2. \A i \in 1..Len(q) : i \in 0..Len(q) /\ i # 0
    OBVIOUS
  <2>3. 0 \in 0..Len(q)
    OBVIOUS
  <2> QED  BY <2>1, <2>2, <2>3 DEF Joins
<1>5. Len(q) \in 0..Len(q)
  OBVIOUS
<1> QED  BY <1>3, <1>4, <1>5, JoinsAgree

LEMMA BytesAreSeq ==
    ASSUME NEW q, Len(q) \in Nat, NEW c, HasBytes(q, c)
    PROVE  BytesIn(q, c) \in Seq(Nat)
<1>1. PICK f : Joins(q, c, f) /\ \A i \in 0..Len(q) : f[i] \in Seq(Nat)
  BY JoinsExist
<1>2. BytesIn(q, c) = f[Len(q)]
  BY <1>1, BytesAre
<1>3. Len(q) \in 0..Len(q)
  OBVIOUS
<1> QED  BY <1>1, <1>2, <1>3

LEMMA BytesOfNone ==
    ASSUME NEW q, Len(q) \in Nat, NEW c, ~OnTheWay(q, c, "data")
    PROVE  BytesIn(q, c) = <<>>
<1> DEFINE f == [i \in 0..Len(q) |-> <<>>]
<1>1. \A i \in 1..Len(q) : BytesOf(q[i], c) = <<>>
  BY DEF OnTheWay, BytesOf
<1>2. f[0] = <<>> /\ f[Len(q)] = <<>> /\ \A i \in 1..Len(q) : f[i] = <<>> /\ f[i - 1] = <<>>
  OBVIOUS
<1> HIDE DEF f
<1>4. <<>> \o <<>> = <<>>
  OBVIOUS
<1>3. Joins(q, c, f)
  BY <1>1, <1>2, <1>4 DEF Joins
<1> QED  BY <1>2, <1>3, BytesAre

LEMMA BytesOfAppend ==
    ASSUME NEW M, NEW q \in Seq(M), NEW m \in M, NEW c, HasBytes(q, c)
    PROVE  BytesIn(Append(q, m), c) = BytesIn(q, c) \o BytesOf(m, c)
<1> DEFINE n == Len(q)
           a == Append(q, m)
<1>1. /\ n \in Nat /\ Len(a) = n + 1 /\ Len(a) \in Nat /\ a[n + 1] = m
      /\ \A i \in 1..n : a[i] = q[i]
  OBVIOUS
<1>2. PICK f : Joins(q, c, f)
  BY JoinsExist
<1> DEFINE last == f[n] \o BytesOf(m, c)
           g == [i \in 0..(n + 1) |-> IF i <= n THEN f[i] ELSE last]
<1> HIDE DEF last, a
<1>3. g[n + 1] = last /\ \A i \in 0..n : g[i] = f[i]
  BY <1>1
<1> HIDE DEF g
<1>4. Joins(a, c, g)
  <2>1. g[0] = <<>>
    BY <1>1, <1>2, <1>3 DEF Joins
  <2>2. ASSUME NEW i \in 1..(n + 1)  PROVE g[i] = g[i - 1] \o BytesOf(a[i], c)
    <3>1. CASE i \in 1..n
      <4>1. g[i] = f[i] /\ g[i - 1] = f[i - 1] /\ a[i] = q[i]
        BY <1>1, <1>3, <3>1
      <4> QED  BY <1>2, <3>1, <4>1 DEF Joins
    <3>2. CASE i = n + 1
      <4>1. g[i] = last /\ g[i - 1] = f[n] /\ a[i] = m
        BY <1>1, <1>3, <3>2
      <4> QED  BY <4>1 DEF last
    <3> QED  BY <1>1, <3>1, <3>2
  <2> QED  BY <1>1, <2>1, <2>2 DEF Joins
<1>5. BytesIn(a, c) = last
  BY <1>1, <1>3, <1>4, BytesAre
<1>6. BytesIn(q, c) = f[n]
  BY <1>1, <1>2, BytesAre
<1> QED  BY <1>5, <1>6 DEF a, last

LEMMA Associative ==
    ASSUME NEW u \in Seq(Nat), NEW v \in Seq(Nat), NEW w \in Seq(Nat)
    PROVE  (u \o v) \o w = u \o (v \o w)
BY Seqs!ConcatAssociative, SMTT(30)

LEMMA BytesOfTail ==
    ASSUME NEW M, NEW q \in Seq(M), q # <<>>, NEW c, HasBytes(q, c)
    PROVE  BytesIn(q, c) = BytesOf(Head(q), c) \o BytesIn(Tail(q), c)
<1> DEFINE n == Len(q)
           t == Tail(q)
           h == BytesOf(Head(q), c)
<1>1. /\ n \in Nat \ {0} /\ Len(t) = n - 1 /\ Len(t) \in Nat /\ Head(q) = q[1]
      /\ \A i \in 1..(n - 1) : t[i] = q[i + 1]
  BY Seqs!HeadTailProperties
<1>2. h \in Seq(Nat) /\ HasBytes(t, c)
  <2> HIDE DEF t
  <2>1. \A i \in 1..Len(t) : i + 1 \in 1..n /\ t[i] = q[i + 1]
    BY <1>1
  <2>2. 1 \in 1..n
    BY <1>1
  <2> QED  BY <1>1, <2>1, <2>2 DEF HasBytes
<1> HIDE DEF t, h
<1>3. PICK f : Joins(t, c, f) /\ \A i \in 0..Len(t) : f[i] \in Seq(Nat)
  BY <1>1, <1>2, JoinsExist
<1> DEFINE g == [i \in 0..n |-> IF i = 0 THEN <<>> ELSE h \o f[i - 1]]
<1>4. g[0] = <<>> /\ \A i \in 1..n : g[i] = h \o f[i - 1]
  <2>1. 0 \in 0..n /\ \A i \in 1..n : i \in 0..n /\ i # 0
    BY <1>1
  <2> QED  BY <2>1, Zenon
<1> HIDE DEF g
<1>5. Joins(q, c, g)
  <2>1. ASSUME NEW i \in 1..n  PROVE g[i] = g[i - 1] \o BytesOf(q[i], c)
    <3>1. CASE i = 1
      <4>1. f[0] = <<>> /\ h = BytesOf(q[i], c) /\ i - 1 = 0
        BY <1>1, <1>3, <3>1 DEF Joins, h
      <4>2. g[i] = h \o f[0] /\ g[i - 1] = <<>>
        BY <1>4, <3>1, <4>1
      <4>3. h \o <<>> = h /\ <<>> \o h = h
        BY <1>2, Seqs!ConcatEmptySeq
      <4> QED  BY <4>1, <4>2, <4>3
    <3>2. CASE i # 1
      <4>1. /\ i - 1 \in 1..Len(t) /\ i - 1 \in 1..n /\ t[i - 1] = q[(i - 1) + 1]
            /\ (i - 1) + 1 = i /\ (i - 1) - 1 \in 0..Len(t)
        BY <1>1, <3>2
      <4>2. f[i - 1] = f[(i - 1) - 1] \o BytesOf(q[i], c)
        BY <1>3, <4>1 DEF Joins
      <4>3. g[i] = h \o f[i - 1] /\ g[i - 1] = h \o f[(i - 1) - 1]
        BY <1>4, <4>1
      <4>4. BytesOf(q[i], c) \in Seq(Nat) /\ f[(i - 1) - 1] \in Seq(Nat)
        BY <1>3, <4>1 DEF HasBytes
      <4> HIDE DEF n
      <4>5. (h \o f[(i - 1) - 1]) \o BytesOf(q[i], c)
              = h \o (f[(i - 1) - 1] \o BytesOf(q[i], c))
        BY <1>2, <4>4, Associative
      <4> QED  BY <4>2, <4>3, <4>5
    <3> QED  BY <3>1, <3>2
  <2> QED  BY <1>4, <2>1 DEF Joins
<1>6. BytesIn(q, c) = g[n] /\ BytesIn(t, c) = f[n - 1]
  BY <1>1, <1>3, <1>5, BytesAre
<1>7. BytesIn(q, c) = h \o BytesIn(t, c)
  <2>1. n \in 1..n
    BY <1>1
  <2> QED  BY <1>4, <1>6, <2>1, Zenon
<1> QED  BY <1>7 DEF t, h

-----------------------------------------------------------------------------
\* What a stream holds of a channel, after a message is appended or taken.
LEMMA HeadOfTail ==
    ASSUME NEW M, NEW q \in Seq(M), q # <<>>
    PROVE  /\ Len(q) \in Nat \ {0} /\ Len(Tail(q)) = Len(q) - 1
           /\ Head(q) = q[1] /\ Head(q) \in M /\ Tail(q) \in Seq(M)
           /\ \A i \in 1..(Len(q) - 1) : Tail(q)[i] = q[i + 1]
BY Seqs!HeadTailProperties

LEMMA HoldsAppend ==
    ASSUME NEW M, NEW q \in Seq(M), NEW m \in M, NEW c
    PROVE  /\ Of(Append(q, m), c) <=> Of(q, c) \/ m.ch = c
           /\ \A type : OnTheWay(Append(q, m), c, type)
                          <=> OnTheWay(q, c, type) \/ (m.ch = c /\ m.type = type)
           /\ \A w : Announces(Append(q, m), c, w)
                       <=> Announces(q, c, w) /\ (m.ch = c /\ m.type = "confirm" => m.n = w)
<1> DEFINE a == Append(q, m)
           n == Len(q)
<1>1. /\ n \in Nat /\ Len(a) = n + 1 /\ a[n + 1] = m
      /\ \A i \in 1..n : a[i] = q[i]
  OBVIOUS
<1> HIDE DEF a
<1>2. \A i \in 1..Len(a) : i \in 1..n \/ i = n + 1
  BY <1>1
<1>3. /\ \A i \in 1..n : i \in 1..Len(a)
      /\ n + 1 \in 1..Len(a)
  BY <1>1
<1> HIDE DEF n
<1>4. Of(a, c) <=> Of(q, c) \/ m.ch = c
  BY <1>1, <1>2, <1>3 DEF Of, n
<1>5. ASSUME NEW type
      PROVE  OnTheWay(a, c, type) <=> OnTheWay(q, c, type) \/ (m.ch = c /\ m.type = type)
  BY <1>1, <1>2, <1>3 DEF OnTheWay, n
<1>6. ASSUME NEW w
      PROVE  Announces(a, c, w)
               <=> Announces(q, c, w) /\ (m.ch = c /\ m.type = "confirm" => m.n = w)
  BY <1>1, <1>2, <1>3 DEF Announces, n
<1> QED  BY <1>4, <1>5, <1>6 DEF a

LEMMA HoldsTail ==
    ASSUME NEW M, NEW q \in Seq(M), q # <<>>, NEW c
    PROVE  LET h == Head(q) IN
           /\ Of(q, c) <=> Of(Tail(q), c) \/ h.ch = c
           /\ \A type : OnTheWay(q, c, type)
                          <=> OnTheWay(Tail(q), c, type) \/ (h.ch = c /\ h.type = type)
           /\ \A w : Announces(q, c, w)
                       <=> Announces(Tail(q), c, w) /\ (h.ch = c /\ h.type = "confirm" => h.n = w)
<1> DEFINE t == Tail(q)
           n == Len(q)
           h == Head(q)
<1>1. /\ n \in Nat \ {0} /\ Len(t) = n - 1 /\ h = q[1]
      /\ \A i \in 1..Len(t) : t[i] = q[i + 1]
  BY HeadOfTail
<1> HIDE DEF t, h
<1>2. \A i \in 1..n : i = 1 \/ (i - 1 \in 1..Len(t) /\ t[i - 1] = q[i])
  BY <1>1
<1>3. /\ \A i \in 1..Len(t) : i + 1 \in 1..n
      /\ 1 \in 1..n
  BY <1>1
<1> HIDE DEF n
<1>4. Of(q, c) <=> Of(t, c) \/ h.ch = c
  BY <1>1, <1>2, <1>3 DEF Of, n
<1>5. ASSUME NEW type
      PROVE  OnTheWay(q, c, type) <=> OnTheWay(t, c, type) \/ (h.ch = c /\ h.type = type)
  BY <1>1, <1>2, <1>3 DEF OnTheWay, n
<1>6. ASSUME NEW w
      PROVE  Announces(q, c, w)
               <=> Announces(t, c, w) /\ (h.ch = c /\ h.type = "confirm" => h.n = w)
  BY <1>1, <1>2, <1>3 DEF Announces, n
<1> QED  BY <1>4, <1>5, <1>6 DEF t, h

LEMMA OrderedAppend ==
    ASSUME NEW M, NEW q \in Seq(M), NEW m \in M, Ordered(q),
           m.type \in Firsts => ~Of(q, m.ch),
           \A type \in Lasts : ~OnTheWay(q, m.ch, type)
    PROVE  Ordered(Append(q, m))
<1> DEFINE a == Append(q, m)
           n == Len(q)
<1>1. /\ n \in Nat /\ Len(a) = n + 1 /\ a[n + 1] = m
      /\ \A i \in 1..n : a[i] = q[i]
  OBVIOUS
<1> HIDE DEF a
<1>2. \A i \in 1..Len(a) : i \in 1..n \/ i = n + 1
  BY <1>1
<1>3. ASSUME NEW i \in 1..Len(a), NEW j \in 1..Len(a), a[i].ch = a[j].ch
      PROVE  /\ a[i].type \in Firsts => i <= j
             /\ a[i].type \in Lasts => j <= i
  <2>1. CASE i \in 1..n /\ j \in 1..n
    BY <1>1, <1>3, <2>1 DEF Ordered
  <2>2. CASE i \in 1..n /\ j = n + 1
    <3>1. a[i].type \notin Lasts
      BY <1>1, <1>3, <2>2 DEF OnTheWay
    <3> QED  BY <1>1, <2>2, <3>1
  <2>3. CASE i = n + 1 /\ j \in 1..n
    <3>1. a[i].type \notin Firsts
      BY <1>1, <1>3, <2>3 DEF Of
    <3> QED  BY <1>1, <2>3, <3>1
  <2>4. CASE i = n + 1 /\ j = n + 1
    BY <1>1, <2>4
  <2> QED  BY <1>2, <2>1, <2>2, <2>3, <2>4
<1> QED  BY <1>3 DEF Ordered, a

\* The last message of a channel has none behind it; the first none before.
LEMMA OrderedTail ==
    ASSUME NEW M, NEW q \in Seq(M), q # <<>>, Ordered(q)
    PROVE  /\ Ordered(Tail(q))
           /\ Head(q).type \in Lasts => ~Of(Tail(q), Head(q).ch)
           /\ \A type \in Firsts : ~OnTheWay(Tail(q), Head(q).ch, type)
<1> DEFINE t == Tail(q)
           n == Len(q)
           h == Head(q)
<1>1. /\ n \in Nat \ {0} /\ Len(t) = n - 1 /\ h = q[1]
      /\ \A i \in 1..Len(t) : t[i] = q[i + 1]
  BY HeadOfTail
<1> HIDE DEF t, h
<1>2. \A i \in 1..Len(t) : i \in Nat \ {0} /\ i + 1 \in 1..n
  BY <1>1
<1>3. 1 \in 1..n
  BY <1>1
<1>4. Ordered(t)
  <2>1. ASSUME NEW i \in 1..Len(t), NEW j \in 1..Len(t), t[i].ch = t[j].ch
        PROVE  /\ t[i].type \in Firsts => i <= j
               /\ t[i].type \in Lasts => j <= i
    <3>1. /\ q[i + 1].type \in Firsts => i + 1 <= j + 1
          /\ q[i + 1].type \in Lasts => j + 1 <= i + 1
      BY <1>1, <1>2, <2>1 DEF Ordered
    <3> QED  BY <1>1, <1>2, <3>1
  <2> QED  BY <2>1 DEF Ordered
<1>5. ASSUME h.type \in Lasts, NEW i \in 1..Len(t), t[i].ch = h.ch  PROVE FALSE
  <2>1. i + 1 <= 1
    BY <1>1, <1>2, <1>3, <1>5 DEF Ordered
  <2> QED  BY <1>2, <2>1
<1>6. ASSUME NEW i \in 1..Len(t), t[i].ch = h.ch, t[i].type \in Firsts  PROVE FALSE
  <2>1. i + 1 <= 1
    BY <1>1, <1>2, <1>3, <1>6 DEF Ordered
  <2> QED  BY <1>2, <2>1
<1>7. h.type \in Lasts => ~Of(t, h.ch)
  BY <1>5 DEF Of
<1>8. \A type \in Firsts : ~OnTheWay(t, h.ch, type)
  BY <1>6 DEF OnTheWay
<1> QED  BY <1>4, <1>7, <1>8 DEF t, h

-----------------------------------------------------------------------------
\* The stream q2 holds of channel c what q holds, and m.
Holds(q, q2, m, c) ==
    /\ Of(q2, c) <=> Of(q, c) \/ m.ch = c
    /\ \A type : OnTheWay(q2, c, type)
                   <=> OnTheWay(q, c, type) \/ (m.ch = c /\ m.type = type)
    /\ \A w : Announces(q2, c, w)
                <=> Announces(q, c, w) /\ (m.ch = c /\ m.type = "confirm" => m.n = w)
    /\ Total(q2, c, "adjust") = Total(q, c, "adjust") + NumberOf(m, c, "adjust")
HoldsData(q, q2, m, c) ==
    Total(q2, c, "data") = Total(q, c, "data") + NumberOf(m, c, "data")

\* Two streams hold the same of channel c.
Same(q, q2, c) ==
    /\ Of(q2, c) <=> Of(q, c)
    /\ \A type : OnTheWay(q2, c, type) <=> OnTheWay(q, c, type)
    /\ \A w : Announces(q2, c, w) <=> Announces(q, c, w)
    /\ Total(q2, c, "adjust") = Total(q, c, "adjust")

\* The numbers and the bytes of the two streams.
LEMMA AmtNumbers ==
    ASSUME NEW q \in Seq(ToAmt), NEW c
    PROVE  /\ Len(q) \in Nat /\ HasBytes(q, c) /\ HasNumbers(q, c, "adjust")
           /\ BytesIn(q, c) \in Seq(Nat) /\ Total(q, c, "adjust") \in Nat
           /\ ~OnTheWay(q, c, "confirm") /\ ~OnTheWay(q, c, "failure")
<1>1. Len(q) \in Nat /\ \A i \in 1..Len(q) : q[i] \in ToAmt
  OBVIOUS
<1>2. ASSUME NEW m \in ToAmt
      PROVE  /\ BytesOf(m, c) \in Seq(Nat) /\ NumberOf(m, c, "adjust") \in Nat
             /\ m.type # "confirm" /\ m.type # "failure"
  <2>1. <<>> \in Seq(Nat)
    OBVIOUS
  <2>2. m.type = "data" => m.bytes \in Seq(Nat)
    BY DEF ToAmt
  <2>3. m.type = "adjust" => m.n \in Nat
    BY DEF ToAmt
  <2>4. m.type # "confirm" /\ m.type # "failure"
    BY DEF ToAmt
  <2> QED  BY <2>1, <2>2, <2>3, <2>4 DEF BytesOf, NumberOf
<1>3. HasBytes(q, c) /\ HasNumbers(q, c, "adjust")
  BY <1>1, <1>2 DEF HasBytes, HasNumbers
<1>4. ~OnTheWay(q, c, "confirm") /\ ~OnTheWay(q, c, "failure")
  BY <1>1, <1>2 DEF OnTheWay
<1> QED  BY <1>1, <1>3, <1>4, BytesAreSeq, TotalIsNat

LEMMA ServerNumbers ==
    ASSUME NEW q \in Seq(ToServer), NEW c
    PROVE  /\ Len(q) \in Nat /\ HasNumbers(q, c, "adjust") /\ HasNumbers(q, c, "data")
           /\ Total(q, c, "adjust") \in Nat /\ Total(q, c, "data") \in Nat
           /\ ~OnTheWay(q, c, "open")
<1>1. Len(q) \in Nat /\ \A i \in 1..Len(q) : q[i] \in ToServer
  OBVIOUS
<1>2. ASSUME NEW m \in ToServer
      PROVE  /\ NumberOf(m, c, "adjust") \in Nat /\ NumberOf(m, c, "data") \in Nat
             /\ m.type # "open"
  BY DEF ToServer, NumberOf
<1>3. HasNumbers(q, c, "adjust") /\ HasNumbers(q, c, "data")
  BY <1>1, <1>2 DEF HasNumbers
<1>4. ~OnTheWay(q, c, "open")
  BY <1>1, <1>2 DEF OnTheWay
<1> QED  BY <1>1, <1>3, <1>4, TotalIsNat

\* What a message that is sent adds to a stream.
LEMMA AmtAppend ==
    ASSUME NEW q \in Seq(ToAmt), NEW m \in ToAmt, NEW c
    PROVE  /\ Append(q, m) \in Seq(ToAmt)
           /\ Holds(q, Append(q, m), m, c)
           /\ BytesIn(Append(q, m), c) = BytesIn(q, c) \o BytesOf(m, c)
<1>1. Total(Append(q, m), c, "adjust") = Total(q, c, "adjust") + NumberOf(m, c, "adjust")
  BY AmtNumbers, TotalOfAppend
<1>2. BytesIn(Append(q, m), c) = BytesIn(q, c) \o BytesOf(m, c)
  BY AmtNumbers, BytesOfAppend
<1>3. Append(q, m) \in Seq(ToAmt)
  OBVIOUS
<1>4. Holds(q, Append(q, m), m, c)
  BY <1>1, HoldsAppend DEF Holds
<1> QED  BY <1>2, <1>3, <1>4, Zenon

LEMMA ServerAppend ==
    ASSUME NEW q \in Seq(ToServer), NEW m \in ToServer, NEW c
    PROVE  /\ Append(q, m) \in Seq(ToServer)
           /\ Holds(q, Append(q, m), m, c) /\ HoldsData(q, Append(q, m), m, c)
<1>1. /\ Total(Append(q, m), c, "adjust") = Total(q, c, "adjust") + NumberOf(m, c, "adjust")
      /\ Total(Append(q, m), c, "data") = Total(q, c, "data") + NumberOf(m, c, "data")
  BY ServerNumbers, TotalOfAppend
<1> QED  BY <1>1, HoldsAppend DEF Holds, HoldsData

\* What the message that is read takes from it.
LEMMA AmtTail ==
    ASSUME NEW q \in Seq(ToAmt), q # <<>>, NEW c
    PROVE  /\ Tail(q) \in Seq(ToAmt) /\ Head(q) \in ToAmt
           /\ Holds(Tail(q), q, Head(q), c)
           /\ BytesIn(q, c) = BytesOf(Head(q), c) \o BytesIn(Tail(q), c)
<1>1. Tail(q) \in Seq(ToAmt) /\ Head(q) \in ToAmt
  BY HeadOfTail
<1>2. Total(q, c, "adjust") = NumberOf(Head(q), c, "adjust") + Total(Tail(q), c, "adjust")
  BY AmtNumbers, TotalOfTail
<1>3. Total(Tail(q), c, "adjust") \in Nat
  BY <1>1, AmtNumbers
<1>4. NumberOf(Head(q), c, "adjust") \in Nat
  BY <1>1 DEF ToAmt, NumberOf
<1>5. BytesIn(q, c) = BytesOf(Head(q), c) \o BytesIn(Tail(q), c)
  BY AmtNumbers, BytesOfTail
<1>6. Total(q, c, "adjust") = Total(Tail(q), c, "adjust") + NumberOf(Head(q), c, "adjust")
  BY <1>2, <1>3, <1>4
<1> QED  BY <1>1, <1>5, <1>6, HoldsTail DEF Holds

LEMMA ServerTail ==
    ASSUME NEW q \in Seq(ToServer), q # <<>>, NEW c
    PROVE  /\ Tail(q) \in Seq(ToServer) /\ Head(q) \in ToServer
           /\ Holds(Tail(q), q, Head(q), c) /\ HoldsData(Tail(q), q, Head(q), c)
<1>1. Tail(q) \in Seq(ToServer) /\ Head(q) \in ToServer
  BY HeadOfTail
<1>2. /\ Total(q, c, "adjust") = NumberOf(Head(q), c, "adjust") + Total(Tail(q), c, "adjust")
      /\ Total(q, c, "data") = NumberOf(Head(q), c, "data") + Total(Tail(q), c, "data")
  BY ServerNumbers, TotalOfTail
<1>3. Total(Tail(q), c, "adjust") \in Nat /\ Total(Tail(q), c, "data") \in Nat
  BY <1>1, ServerNumbers
<1>4. NumberOf(Head(q), c, "adjust") \in Nat /\ NumberOf(Head(q), c, "data") \in Nat
  BY <1>1 DEF ToServer, NumberOf
<1>5. /\ Total(q, c, "adjust") = Total(Tail(q), c, "adjust") + NumberOf(Head(q), c, "adjust")
      /\ Total(q, c, "data") = Total(Tail(q), c, "data") + NumberOf(Head(q), c, "data")
  BY <1>2, <1>3, <1>4
<1> QED  BY <1>1, <1>5, HoldsTail DEF Holds, HoldsData

\* A message of another channel changes nothing of this one.
LEMMA OfAnother ==
    ASSUME NEW q, NEW q2, NEW m, NEW c, m.ch # c, Holds(q, q2, m, c),
           Total(q, c, "adjust") \in Nat
    PROVE  Same(q, q2, c) /\ Same(q2, q, c)
<1>1. NumberOf(m, c, "adjust") = 0
  BY DEF NumberOf
<1>2. Total(q2, c, "adjust") = Total(q, c, "adjust")
  BY <1>1 DEF Holds
<1> QED  BY <1>2 DEF Holds, Same

LEMMA AmtAppendOfAnother ==
    ASSUME NEW q \in Seq(ToAmt), NEW m \in ToAmt, NEW c, m.ch # c
    PROVE  Same(q, Append(q, m), c) /\ BytesIn(Append(q, m), c) = BytesIn(q, c)
<1>1. BytesOf(m, c) = <<>>
  BY DEF BytesOf
<1>2. BytesIn(q, c) \in Seq(Nat) /\ Total(q, c, "adjust") \in Nat
  BY AmtNumbers
<1>3. BytesIn(q, c) \o <<>> = BytesIn(q, c)
  BY <1>2, Seqs!ConcatEmptySeq
<1>4. BytesIn(Append(q, m), c) = BytesIn(q, c) \o BytesOf(m, c)
  BY AmtAppend
<1>5. BytesIn(Append(q, m), c) = BytesIn(q, c)
  BY <1>1, <1>3, <1>4, Zenon
<1>6. Same(q, Append(q, m), c)
  BY <1>2, AmtAppend, OfAnother
<1> QED  BY <1>5, <1>6

LEMMA AmtTailOfAnother ==
    ASSUME NEW q \in Seq(ToAmt), q # <<>>, NEW c, Head(q).ch # c
    PROVE  Same(q, Tail(q), c) /\ BytesIn(Tail(q), c) = BytesIn(q, c)
<1>1. BytesOf(Head(q), c) = <<>>
  BY DEF BytesOf
<1>2. BytesIn(Tail(q), c) \in Seq(Nat) /\ Total(Tail(q), c, "adjust") \in Nat
  BY AmtNumbers, AmtTail
<1>3. <<>> \o BytesIn(Tail(q), c) = BytesIn(Tail(q), c)
  BY <1>2, Seqs!ConcatEmptySeq
<1> QED  BY <1>1, <1>2, <1>3, AmtTail, OfAnother

LEMMA ServerAppendOfAnother ==
    ASSUME NEW q \in Seq(ToServer), NEW m \in ToServer, NEW c, m.ch # c
    PROVE  Same(q, Append(q, m), c) /\ Total(Append(q, m), c, "data") = Total(q, c, "data")
<1>1. NumberOf(m, c, "data") = 0
  BY DEF NumberOf
<1>2. Total(q, c, "adjust") \in Nat /\ Total(q, c, "data") \in Nat
  BY ServerNumbers
<1>3. Total(Append(q, m), c, "data") = Total(q, c, "data")
  BY <1>1, <1>2, ServerAppend DEF HoldsData
<1> QED  BY <1>2, <1>3, ServerAppend, OfAnother

LEMMA ServerTailOfAnother ==
    ASSUME NEW q \in Seq(ToServer), q # <<>>, NEW c, Head(q).ch # c
    PROVE  Same(q, Tail(q), c) /\ Total(Tail(q), c, "data") = Total(q, c, "data")
<1>1. NumberOf(Head(q), c, "data") = 0
  BY DEF NumberOf
<1>2. Total(Tail(q), c, "adjust") \in Nat /\ Total(Tail(q), c, "data") \in Nat
  BY ServerNumbers, ServerTail
<1>3. Total(Tail(q), c, "data") = Total(q, c, "data")
  BY <1>1, <1>2, ServerTail DEF HoldsData
<1> QED  BY <1>2, <1>3, ServerTail, OfAnother

LEMMA SameItself == \A q, c : Same(q, q, c)
BY DEF Same

\* What is of channel d stays as it is.
Alike(d) ==
    /\ channels'[d] = channels[d] /\ device'[d] = device[d] /\ written'[d] = written[d]
    /\ d \in registered' <=> d \in registered
    /\ d >= nextchannelid' => d >= nextchannelid
    /\ Same(toAmt, toAmt', d) /\ BytesIn(toAmt', d) = BytesIn(toAmt, d)
    /\ Same(toServer, toServer', d)
    /\ Total(toServer', d, "data") = Total(toServer, d, "data")

LEMMA Untouched ==
    ASSUME NEW d \in Channels, ChannelInv(d), Alike(d)
    PROVE  ChannelInv(d)'
<1>1. Fresh(d)'
  BY DEF ChannelInv, Control, Fresh, Alike, Same
<1>2. Opening(d)'
  BY DEF ChannelInv, Control, Opening, Alike, Same
<1>3. Confirming(d)'
  BY DEF ChannelInv, Control, Confirming, Alike, Same
<1>4. Failing(d)'
  BY DEF ChannelInv, Control, Failing, Alike, Same
<1>5. Waits(d)'
  BY DEF ChannelInv, Control, Waits, Waiting, Alike, Same
<1>6. Closing(d)'
  BY DEF ChannelInv, Control, Closing, Alike, Same
<1>7. Stream(d)'
  BY DEF ChannelInv, Stream, Alike, Same
<1>8. Window(d)'
  BY DEF ChannelInv, Window, Alike, Same
<1>9. ReplyWindow(d)'
  BY DEF ChannelInv, ReplyWindow, Alike, Same
<1> QED  BY <1>1, <1>2, <1>3, <1>4, <1>5, <1>6, <1>7, <1>8, <1>9 DEF ChannelInv, Control

-----------------------------------------------------------------------------
\* The tunnels that are counted.
Counted(c) ==
    /\ device[c].state = "open" \/ OnTheWay(toServer, c, "close")
    /\ ~OnTheWay(toServer, c, "confirm")

LEMMA CountedAre ==
    /\ TunnelsCounted <=> activetunnels = Cardinality({c \in Channels : Counted(c)})
    /\ TunnelsCounted' <=> activetunnels' = Cardinality({c \in Channels : Counted(c)'})
    /\ IsFiniteSet({c \in Channels : Counted(c)})
    /\ IsFiniteSet({c \in Channels : Counted(c)'})
<1>1. IsFiniteSet(Channels)
  BY WindowAssumption, FS_Interval DEF Channels
<1>2. \A S \in SUBSET Channels : IsFiniteSet(S)
  BY <1>1, FS_Subset
<1>3. TunnelsCounted <=> activetunnels = Cardinality({c \in Channels : Counted(c)})
  BY Zenon DEF TunnelsCounted, Counted
<1>4. TunnelsCounted' <=> activetunnels' = Cardinality({c \in Channels : Counted(c)'})
  BY Zenon DEF TunnelsCounted, Counted
<1> QED  BY <1>2, <1>3, <1>4

\* The count follows the one channel that a step is about.
LEMMA CountFollows ==
    ASSUME TunnelsCounted, NEW c \in Channels,
           \A d \in Channels \ {c} : Counted(d)' <=> Counted(d),
           activetunnels' = activetunnels + (IF Counted(c)' THEN 1 ELSE 0)
                                          - (IF Counted(c) THEN 1 ELSE 0)
    PROVE  TunnelsCounted'
<1> DEFINE S == {d \in Channels : Counted(d)}
           T == {d \in Channels : Counted(d)'}
<1>1. /\ IsFiniteSet(S) /\ IsFiniteSet(T) /\ activetunnels = Cardinality(S)
      /\ TunnelsCounted' <=> activetunnels' = Cardinality(T)
  BY CountedAre, Zenon
<1>2. Cardinality(S) \in Nat
  BY <1>1, FS_CardinalityType
<1>3. CASE Counted(c)' <=> Counted(c)
  <2>1. T = S
    BY <1>3
  <2>2. activetunnels' = activetunnels
    BY <1>1, <1>2, <1>3
  <2> QED  BY <1>1, <2>1, <2>2
<1>4. CASE Counted(c)' /\ ~Counted(c)
  <2>1. T = S \cup {c} /\ c \notin S
    BY <1>4
  <2>2. activetunnels' = activetunnels + 1
    BY <1>1, <1>2, <1>4
  <2> HIDE DEF S, T
  <2>3. Cardinality(T) = Cardinality(S) + 1
    BY <1>1, <2>1, FS_AddElement
  <2> QED  BY <1>1, <2>2, <2>3
<1>5. CASE ~Counted(c)' /\ Counted(c)
  <2>1. T = S \ {c} /\ c \in S
    BY <1>5
  <2>2. activetunnels' = activetunnels - 1
    BY <1>1, <1>2, <1>5
  <2> HIDE DEF S, T
  <2>3. Cardinality(T) = Cardinality(S) - 1
    BY <1>1, <2>1, FS_RemoveElement
  <2> QED  BY <1>1, <2>2, <2>3
<1> QED  BY <1>3, <1>4, <1>5

LEMMA CountedIsPositive ==
    ASSUME TunnelsCounted, NEW c \in Channels, Counted(c)
    PROVE  activetunnels \in Nat \ {0}
<1> DEFINE S == {d \in Channels : Counted(d)}
<1>1. IsFiniteSet(S) /\ activetunnels = Cardinality(S) /\ c \in S
  BY CountedAre
<1> HIDE DEF S
<1>2. Cardinality(S) \in Nat /\ Cardinality(S) # 0
  BY <1>1, FS_CardinalityType, FS_EmptySet
<1> QED  BY <1>1, <1>2

\* A step about channel c keeps the invariant when it keeps that of c.
LEMMA StepOf ==
    ASSUME IInv, NEW c \in Channels, Types', Ordered(toAmt)', Ordered(toServer)',
           \A d \in Channels \ {c} : Alike(d),
           ChannelInv(c)',
           activetunnels' = activetunnels + (IF Counted(c)' THEN 1 ELSE 0)
                                          - (IF Counted(c) THEN 1 ELSE 0)
    PROVE  IInv'
<1>1. \A d \in Channels \ {c} : ChannelInv(d)'
  BY Untouched DEF IInv
<1>2. \A d \in Channels \ {c} : Counted(d)' <=> Counted(d)
  BY DEF Alike, Same, Counted
<1>3. TunnelsCounted'
  BY <1>2, CountFollows DEF IInv
<1> QED  BY <1>1, <1>3 DEF IInv

LEMMA StepWithin ==
    ASSUME IInv, NEW c \in Channels, Types', Ordered(toAmt'), Ordered(toServer'),
           \A d \in Channels \ {c} : Alike(d),
           ChannelInv(c)', activetunnels' = activetunnels, Counted(c)' <=> Counted(c)
    PROVE  IInv'
<1>1. activetunnels \in Nat
  BY DEF IInv, Types, TypeOK
<1>2. activetunnels' = activetunnels + (IF Counted(c)' THEN 1 ELSE 0)
                                     - (IF Counted(c) THEN 1 ELSE 0)
  BY <1>1
<1>3. Ordered(toAmt)' /\ Ordered(toServer)'
  OBVIOUS
<1> QED  BY <1>2, <1>3, StepOf

LEMMA StepAdds ==
    ASSUME IInv, NEW c \in Channels, Types', Ordered(toAmt'), Ordered(toServer'),
           \A d \in Channels \ {c} : Alike(d),
           ChannelInv(c)', activetunnels' = activetunnels + 1, Counted(c)', ~Counted(c)
    PROVE  IInv'
<1>1. activetunnels \in Nat
  BY DEF IInv, Types, TypeOK
<1>2. activetunnels' = activetunnels + (IF Counted(c)' THEN 1 ELSE 0)
                                     - (IF Counted(c) THEN 1 ELSE 0)
  BY <1>1
<1>3. Ordered(toAmt)' /\ Ordered(toServer)'
  OBVIOUS
<1> QED  BY <1>2, <1>3, StepOf

LEMMA StepTakes ==
    ASSUME IInv, NEW c \in Channels, Types', Ordered(toAmt'), Ordered(toServer'),
           \A d \in Channels \ {c} : Alike(d),
           ChannelInv(c)', activetunnels' = activetunnels - 1, ~Counted(c)', Counted(c)
    PROVE  IInv'
<1>1. activetunnels \in Nat
  BY DEF IInv, Types, TypeOK
<1>2. activetunnels' = activetunnels + (IF Counted(c)' THEN 1 ELSE 0)
                                     - (IF Counted(c) THEN 1 ELSE 0)
  BY <1>1
<1>3. Ordered(toAmt)' /\ Ordered(toServer)'
  OBVIOUS
<1> QED  BY <1>2, <1>3, StepOf

LEMMA NoneOf ==
    ASSUME NEW q, NEW c, ~Of(q, c)
    PROVE  /\ \A type : ~OnTheWay(q, c, type)
           /\ \A w : Announces(q, c, w)
BY DEF Of, OnTheWay, Announces

LEMMA SomeOf ==
    ASSUME NEW q, NEW c, NEW type, OnTheWay(q, c, type)
    PROVE  Of(q, c)
BY DEF Of, OnTheWay

\* Two sequences of bytes, one behind the other.
LEMMA Joined ==
    ASSUME NEW u \in Seq(Nat), NEW v \in Seq(Nat)
    PROVE  /\ u \o v \in Seq(Nat) /\ Len(u \o v) = Len(u) + Len(v)
           /\ \A i \in 1..(Len(u) + Len(v)) :
                 (u \o v)[i] = IF i <= Len(u) THEN u[i] ELSE v[i - Len(u)]
BY Seqs!ConcatProperties

LEMMA SameBytes ==
    ASSUME NEW u \in Seq(Nat), NEW v \in Seq(Nat), Len(u) = Len(v),
           \A i \in 1..Len(u) : u[i] = v[i]
    PROVE  u = v
BY Seqs!SeqEqual

\* The numbers that are written.
Bytes(w) == [i \in 1..w |-> i]

LEMMA BytesAppended ==
    ASSUME NEW w \in Nat, NEW n \in Nat
    PROVE  /\ Bytes(w) \o [i \in 1..n |-> w + i] = Bytes(w + n)
           /\ [i \in 1..n |-> w + i] \in Seq(Nat) /\ Bytes(w) \in Seq(Nat)
<1> DEFINE d == [i \in 1..n |-> w + i]
           b == Bytes(w)
           r == Bytes(w + n)
<1>1. d \in Seq(Nat) /\ b \in Seq(Nat) /\ r \in Seq(Nat)
  BY DEF Bytes
<1>2. /\ Len(d) = n /\ Len(b) = w /\ Len(r) = w + n
      /\ \A i \in 1..n : d[i] = w + i
      /\ \A i \in 1..w : b[i] = i
      /\ \A i \in 1..(w + n) : r[i] = i
  BY DEF Bytes
<1> HIDE DEF d, b, r
<1>3. b \o d \in Seq(Nat) /\ Len(b \o d) = w + n
  BY <1>1, <1>2, Joined
<1>4. ASSUME NEW i \in 1..(w + n)  PROVE (b \o d)[i] = r[i]
  <2>1. (b \o d)[i] = IF i <= w THEN b[i] ELSE d[i - w]
    BY <1>1, <1>2, Joined
  <2>2. ~(i <= w) => i - w \in 1..n
    OBVIOUS
  <2> QED  BY <1>2, <2>1, <2>2
<1>5. b \o d = r
  BY <1>1, <1>2, <1>3, <1>4, SameBytes
<1> QED  BY <1>1, <1>5 DEF d, b, r

\* What is sent and what is kept are the whole.
LEMMA SentAndKept ==
    ASSUME NEW s \in Seq(Nat), NEW k \in Nat
    PROVE  /\ SentOf(s, k) \in Seq(Nat) /\ KeptOf(s, k) \in Seq(Nat)
           /\ SentOf(s, k) \o KeptOf(s, k) = s
           /\ Len(SentOf(s, k)) <= k /\ Len(SentOf(s, k)) \in Nat
           /\ s = <<>> => SentOf(s, k) = <<>> /\ KeptOf(s, k) = <<>>
<1> DEFINE a == SentOf(s, k)
           b == KeptOf(s, k)
           m == IF Len(s) <= k THEN Len(s) ELSE k
<1>1. m \in 0..Len(s) /\ Len(s) \in Nat /\ m <= k
  OBVIOUS
<1>2. a = SubSeq(s, 1, m) /\ b = SubSeq(s, k + 1, Len(s))
  BY DEF SentOf, KeptOf
<1>3. a \in Seq(Nat) /\ Len(a) = m /\ \A i \in 1..m : a[i] = s[i]
  BY <1>1, <1>2, SMTT(30)
<1>4. /\ b \in Seq(Nat) /\ Len(b) = Len(s) - m
      /\ \A i \in 1..(Len(s) - m) : b[i] = s[m + i]
  <2>1. CASE Len(s) <= k
    <3>1. b = <<>>
      BY <1>1, <1>2, <2>1, Seqs!SubSeqEmpty
    <3> QED  BY <1>1, <2>1, <3>1
  <2>2. CASE ~(Len(s) <= k)
    <3>1. k + 1 \in 1..Len(s) /\ m = k
      BY <1>1, <2>2
    <3>2. \A i \in (k + 1)..Len(s) : s[i] \in Nat
      BY <3>1
    <3> HIDE DEF m, b
    <3>3. k + 1 \in Int /\ Len(s) \in Int /\ k + 1 <= Len(s)
      BY <3>1
    <3>4. b \in Seq(Nat)
      BY <1>2, <3>2, <3>3, Seqs!SubSeqProperties
    <3>5. Len(b) = Len(s) - (k + 1) + 1
      BY <1>2, <3>2, <3>3, Seqs!SubSeqProperties
    <3>6. \A i \in 1..(Len(s) - (k + 1) + 1) : b[i] = s[(k + 1) + i - 1]
      BY <1>2, <3>2, <3>3, Seqs!SubSeqProperties
    <3>7. Len(s) - (k + 1) + 1 = Len(s) - m
      BY <1>1, <3>1
    <3>8. ASSUME NEW i \in 1..(Len(s) - m)  PROVE b[i] = s[m + i]
      <4>1. i \in 1..(Len(s) - (k + 1) + 1) /\ (k + 1) + i - 1 = m + i
        BY <1>1, <3>1
      <4> QED  BY <3>6, <4>1
    <3> QED  BY <3>4, <3>5, <3>7, <3>8
  <2> QED  BY <2>1, <2>2
<1> HIDE DEF a, b, m
<1>5. a \o b \in Seq(Nat) /\ Len(a \o b) = Len(s)
  <2>1. a \o b \in Seq(Nat) /\ Len(a \o b) = Len(a) + Len(b)
    BY <1>3, <1>4, Joined
  <2>2. Len(a) + Len(b) = Len(s)
    BY <1>1, <1>3, <1>4
  <2> QED  BY <2>1, <2>2
<1>6. ASSUME NEW i \in 1..Len(s)  PROVE (a \o b)[i] = s[i]
  <2>1. (a \o b)[i] = IF i <= m THEN a[i] ELSE b[i - m]
    BY <1>1, <1>3, <1>4, Joined, SMTT(30)
  <2>2. i <= m => i \in 1..m
    BY <1>1
  <2>3. ~(i <= m) => i - m \in 1..(Len(s) - m) /\ m + (i - m) = i
    BY <1>1
  <2> QED  BY <1>3, <1>4, <2>1, <2>2, <2>3
<1>7. a \o b = s
  BY <1>1, <1>5, <1>6, SameBytes
<1>8. s = <<>> => a = <<>> /\ b = <<>>
  BY <1>1, <1>3, <1>4
<1> QED  BY <1>1, <1>3, <1>4, <1>7, <1>8 DEF a, b

-----------------------------------------------------------------------------
\* What the types say of a channel.
LEMMA ChannelTypes ==
    ASSUME Types, NEW c \in Channels
    PROVE  /\ channels[c].state \in 0..2 /\ channels[c].closing \in BOOLEAN
           /\ channels[c].sendcredits \in Nat /\ channels[c].sendBuffer \in Seq(Nat)
           /\ channels[c].amtpendingcredits \in 0..CiraWindow
           /\ written[c] \in Nat
           /\ device[c].state \in {"none", "open", "closed"} /\ device[c].window \in Nat
           /\ device[c].received \in Seq(Nat) /\ device[c].consumed \in Nat
           /\ device[c].credits \in Nat /\ device[c].replied \in Nat
           /\ Len(device[c].received) \in Nat
           /\ c \in registered => c < nextchannelid
<1>1. channels[c] \in [state : 0..2, closing : BOOLEAN, sendcredits : Nat,
                       sendBuffer : Seq(Nat), amtpendingcredits : 0..CiraWindow]
  BY DEF Types, TypeOK
<1>2. device[c] \in [state : {"none", "open", "closed"}, window : Nat, received : Seq(Nat),
                     consumed : Nat, credits : Nat, replied : Nat]
  BY DEF Types
<1>3. written[c] \in Nat
  BY DEF Types
<1>4. c \in registered => c < nextchannelid
  BY DEF Types, TypeOK
<1> QED  BY <1>1, <1>2, <1>3, <1>4, SMTT(30)

ChannelRecord == [state : 0..2, closing : BOOLEAN, sendcredits : Nat,
                  sendBuffer : Seq(Nat), amtpendingcredits : 0..CiraWindow]
DeviceRecord == [state : {"none", "open", "closed"}, window : Nat, received : Seq(Nat),
                 consumed : Nat, credits : Nat, replied : Nat]

LEMMA TypesAre ==
    Types <=> /\ channels \in [Channels -> ChannelRecord]
              /\ nextchannelid \in 1..(MaxChannels + 1)
              /\ registered \subseteq 1..(nextchannelid - 1)
              /\ activetunnels \in Nat
              /\ \A c \in Channels : written[c] \in 0..MaxWritten[c]
              /\ written \in [Channels -> Nat]
              /\ toAmt \in Seq(ToAmt) /\ toServer \in Seq(ToServer)
              /\ device \in [Channels -> DeviceRecord]
BY DEF Types, TypeOK, ChannelRecord, DeviceRecord

LEMMA TypesWillBe ==
    ASSUME channels' \in [Channels -> ChannelRecord],
           nextchannelid' \in 1..(MaxChannels + 1),
           registered' \subseteq 1..(nextchannelid' - 1),
           activetunnels' \in Nat,
           \A c \in Channels : written'[c] \in 0..MaxWritten[c],
           written' \in [Channels -> Nat],
           toAmt' \in Seq(ToAmt), toServer' \in Seq(ToServer),
           device' \in [Channels -> DeviceRecord]
    PROVE  Types'
BY DEF Types, TypeOK, ChannelRecord, DeviceRecord

LEMMA NoEndType == NoEnd \in DeviceRecord
<1>1. <<>> \in Seq(Nat)
  OBVIOUS
<1> QED  BY <1>1 DEF NoEnd, DeviceRecord

LEMMA NewChannelType == NewChannel \in ChannelRecord
<1>1. <<>> \in Seq(Nat) /\ 0 \in 0..CiraWindow
  BY WindowAssumption
<1> QED  BY <1>1 DEF NewChannel, ChannelRecord

LEMMA InitHolds == Init => IInv
<1> SUFFICES ASSUME Init PROVE IInv
  OBVIOUS
<1>1. Types
  <2>1. channels \in [Channels -> ChannelRecord]
    <3>1. [NewChannel EXCEPT !.state = 0] \in ChannelRecord
      BY NewChannelType DEF ChannelRecord
    <3> QED  BY <3>1 DEF Init
  <2>2. device \in [Channels -> DeviceRecord]
    BY NoEndType DEF Init
  <2>3. \A c \in Channels : written[c] \in 0..MaxWritten[c]
    BY WindowAssumption DEF Init, Channels
  <2>4. toAmt \in Seq(ToAmt) /\ toServer \in Seq(ToServer)
    BY DEF Init
  <2>5. /\ nextchannelid \in 1..(MaxChannels + 1)
        /\ registered \subseteq 1..(nextchannelid - 1)
        /\ activetunnels \in Nat /\ written \in [Channels -> Nat]
    BY WindowAssumption DEF Init
  <2> QED  BY <2>1, <2>2, <2>3, <2>4, <2>5, TypesAre
<1>2. Ordered(toAmt) /\ Ordered(toServer)
  BY DEF Init, Ordered
<1>3. ASSUME NEW c \in Channels  PROVE ~Of(toAmt, c) /\ ~Of(toServer, c)
  BY DEF Init, Of
<1>4. ASSUME NEW c \in Channels  PROVE ChannelInv(c)
  <2>1. /\ channels[c].state = 0 /\ channels[c].closing = FALSE
        /\ channels[c].amtpendingcredits = 0 /\ device[c] = NoEnd /\ written[c] = 0
    BY DEF Init, NewChannel
  <2>2. /\ \A type : ~OnTheWay(toAmt, c, type)
        /\ \A type : ~OnTheWay(toServer, c, type)
    BY <1>3, NoneOf
  <2>3. device[c].state = "none"
    BY <2>1 DEF NoEnd
  <2>4. Control(c)
    BY <1>3, <2>1, <2>2, <2>3
    DEF Control, Fresh, Opening, Confirming, Failing, Waits, Waiting, Closing
  <2>5. Stream(c) /\ Window(c) /\ ReplyWindow(c)
    BY <2>1, <2>3, WindowAssumption DEF Stream, Window, ReplyWindow
  <2> QED  BY <2>4, <2>5 DEF ChannelInv
<1>5. TunnelsCounted
  <2>1. \A c \in Channels : ~Counted(c)
    <3>1. \A c \in Channels : device[c].state = "none" /\ ~OnTheWay(toServer, c, "close")
      BY <1>3, NoneOf DEF Init, NoEnd
    <3> QED  BY <3>1 DEF Counted
  <2>2. {c \in Channels : Counted(c)} = {}
    BY <2>1
  <2>3. activetunnels = 0
    BY DEF Init
  <2> QED  BY <2>2, <2>3, CountedAre, FS_EmptySet
<1> QED  BY <1>1, <1>2, <1>4, <1>5 DEF IInv

\* What of channel c the invariant says.
LEMMA Given ==
    ASSUME IInv, NEW c \in Channels
    PROVE  /\ Types /\ Ordered(toAmt) /\ Ordered(toServer) /\ TunnelsCounted
           /\ Fresh(c) /\ Opening(c) /\ Confirming(c) /\ Failing(c) /\ Waits(c)
           /\ Closing(c) /\ Stream(c) /\ Window(c) /\ ReplyWindow(c)
BY DEF IInv, ChannelInv, Control

LEMMA ChannelInvAre ==
    ASSUME NEW c, Fresh(c)', Opening(c)', Confirming(c)', Failing(c)', Waits(c)',
           Closing(c)', Stream(c)', Window(c)', ReplyWindow(c)'
    PROVE  ChannelInv(c)'
BY DEF ChannelInv, Control

LEMMA SetupChannelKeeps ==
    ASSUME IInv, SetupChannel, NEW c \in Channels, c = nextchannelid
    PROVE  IInv'
<1>2. /\ nextchannelid' = c + 1 /\ channels' = [channels EXCEPT ![c] = NewChannel]
      /\ registered' = registered \cup {c} /\ toAmt' = Append(toAmt, Open(c))
      /\ UNCHANGED <<activetunnels, written, toServer, device>>
      /\ nextchannelid = c
  BY DEF SetupChannel
<1>g. /\ Types /\ Ordered(toAmt) /\ Ordered(toServer) /\ TunnelsCounted /\ Fresh(c)
  BY Given
<1>3. /\ ~Of(toAmt, c) /\ ~Of(toServer, c) /\ device[c] = NoEnd /\ written[c] = 0
      /\ device[c].state = "none" /\ device[c].received = <<>>
  BY <1>2, <1>g DEF Fresh, NoEnd, Channels
<1>4. Open(c) \in ToAmt /\ Open(c).ch = c /\ Open(c).type = "open"
  BY DEF Open, ToAmt
<1>5. /\ toAmt' \in Seq(ToAmt)
      /\ \A d : Holds(toAmt, toAmt', Open(c), d)
      /\ BytesIn(toAmt', c) = BytesIn(toAmt, c) \o BytesOf(Open(c), c)
  BY <1>2, <1>4, <1>g, TypesAre, AmtAppend, ZenonT(30)
<1>6. Types'
  <2>1. channels' \in [Channels -> ChannelRecord]
    BY <1>2, <1>g, TypesAre, NewChannelType
  <2>2. /\ nextchannelid' \in 1..(MaxChannels + 1)
        /\ registered' \subseteq 1..(nextchannelid' - 1)
    BY <1>2, <1>g, TypesAre, WindowAssumption, SMTT(30) DEF Channels
  <2>3. \A d \in Channels : written'[d] \in 0..MaxWritten[d]
    BY <1>2, <1>g, TypesAre
  <2> QED  BY <1>2, <1>5, <1>g, <2>1, <2>2, <2>3, TypesAre, TypesWillBe
<1>7. Ordered(toAmt)' /\ Ordered(toServer)'
  <2>1. Ordered(toAmt')
    BY <1>2, <1>3, <1>4, <1>g, TypesAre, NoneOf, OrderedAppend
  <2> QED  BY <1>2, <1>g, <2>1
<1>8. ASSUME NEW d \in Channels \ {c}  PROVE Alike(d)
  <2>1. Same(toAmt, toAmt', d) /\ BytesIn(toAmt', d) = BytesIn(toAmt, d)
    BY <1>2, <1>4, <1>8, <1>g, TypesAre, AmtAppendOfAnother
  <2>2. /\ channels'[d] = channels[d]
        /\ d \in registered' <=> d \in registered
    BY <1>2, <1>8, <1>g, TypesAre
  <2>3. d >= nextchannelid' => d >= nextchannelid
    BY <1>2, <1>8 DEF Channels
  <2> QED  BY <1>2, <2>1, <2>2, <2>3, SameItself DEF Alike
<1>9. /\ \A type : ~OnTheWay(toServer', c, type)
      /\ \A type : OnTheWay(toAmt', c, type) <=> type = "open"
      /\ ~Of(toServer', c)
  BY <1>2, <1>3, <1>4, <1>5, NoneOf DEF Holds
<1>10. /\ channels'[c] = NewChannel /\ c \in registered' /\ c < nextchannelid'
       /\ channels'[c].state = 1 /\ channels'[c].closing = FALSE
       /\ channels'[c].sendBuffer = <<>> /\ channels'[c].amtpendingcredits = 0
       /\ device' = device /\ written' = written
  BY <1>2, <1>g, TypesAre DEF NewChannel, Channels
<1>11. Fresh(c)' /\ Opening(c)' /\ Confirming(c)' /\ Failing(c)'
  BY <1>2, <1>3, <1>9, <1>10 DEF Fresh, Opening, Confirming, Failing, Channels
<1>12. Waits(c)' /\ Closing(c)'
  BY <1>3, <1>9, <1>10 DEF Waits, Waiting, Closing
<1>13. Stream(c)'
  <2>1. BytesIn(toAmt, c) = <<>> /\ BytesOf(Open(c), c) = <<>>
    BY <1>3, <1>4, <1>g, TypesAre, AmtNumbers, NoneOf, BytesOfNone DEF BytesOf
  <2>2. <<>> \o <<>> = <<>> /\ [i \in 1..0 |-> i] = <<>>
    OBVIOUS
  <2>3. BytesIn(toAmt', c) = <<>>
    BY <1>5, <2>1, <2>2, Zenon
  <2> QED  BY <1>3, <1>10, <2>2, <2>3 DEF Stream
<1>14. Window(c)' /\ ReplyWindow(c)'
  BY <1>3, <1>10, WindowAssumption DEF Window, ReplyWindow
<1>15. ChannelInv(c)'
  BY <1>11, <1>12, <1>13, <1>14, ChannelInvAre
<1>16. /\ Counted(c)' <=> Counted(c)
       /\ activetunnels' = activetunnels /\ activetunnels \in Nat
  BY <1>2, <1>g, TypesAre DEF Counted
<1> QED  BY <1>6, <1>7, <1>8, <1>15, <1>16, StepOf

-----------------------------------------------------------------------------
\* A step about channel c moves a message of c, if any, along each stream.
AmtMoves(c) ==
    \/ toAmt' = toAmt
    \/ \E m \in ToAmt : m.ch = c /\ toAmt' = Append(toAmt, m)
    \/ toAmt # <<>> /\ Head(toAmt).ch = c /\ toAmt' = Tail(toAmt)
ServerMoves(c) ==
    \/ toServer' = toServer
    \/ \E m \in ToServer : m.ch = c /\ toServer' = Append(toServer, m)
    \/ toServer # <<>> /\ Head(toServer).ch = c /\ toServer' = Tail(toServer)

LEMMA AmtMove ==
    ASSUME toAmt \in Seq(ToAmt), NEW c \in Channels, AmtMoves(c)
    PROVE  /\ toAmt' \in Seq(ToAmt)
           /\ \A d \in Channels \ {c} :
                 Same(toAmt, toAmt', d) /\ BytesIn(toAmt', d) = BytesIn(toAmt, d)
<1>1. CASE toAmt' = toAmt
  BY <1>1, SameItself
<1>2. CASE \E m \in ToAmt : m.ch = c /\ toAmt' = Append(toAmt, m)
  <2>1. PICK m \in ToAmt : m.ch = c /\ toAmt' = Append(toAmt, m)
    BY <1>2
  <2>2. toAmt' \in Seq(ToAmt)
    BY <2>1, AmtAppend
  <2>3. ASSUME NEW d \in Channels \ {c}
        PROVE  Same(toAmt, toAmt', d) /\ BytesIn(toAmt', d) = BytesIn(toAmt, d)
    BY <2>1, AmtAppendOfAnother
  <2> QED  BY <2>2, <2>3
<1>3. CASE toAmt # <<>> /\ Head(toAmt).ch = c /\ toAmt' = Tail(toAmt)
  <2>1. toAmt' \in Seq(ToAmt)
    BY <1>3, AmtTail
  <2>2. ASSUME NEW d \in Channels \ {c}
        PROVE  Same(toAmt, toAmt', d) /\ BytesIn(toAmt', d) = BytesIn(toAmt, d)
    BY <1>3, AmtTailOfAnother
  <2> QED  BY <2>1, <2>2
<1> QED  BY <1>1, <1>2, <1>3 DEF AmtMoves

LEMMA ServerMove ==
    ASSUME toServer \in Seq(ToServer), NEW c \in Channels, ServerMoves(c)
    PROVE  /\ toServer' \in Seq(ToServer)
           /\ \A d \in Channels \ {c} :
                 /\ Same(toServer, toServer', d)
                 /\ Total(toServer', d, "data") = Total(toServer, d, "data")
<1>1. CASE toServer' = toServer
  BY <1>1, SameItself
<1>2. CASE \E m \in ToServer : m.ch = c /\ toServer' = Append(toServer, m)
  <2>1. PICK m \in ToServer : m.ch = c /\ toServer' = Append(toServer, m)
    BY <1>2
  <2>2. toServer' \in Seq(ToServer)
    BY <2>1, ServerAppend
  <2>3. ASSUME NEW d \in Channels \ {c}
        PROVE  /\ Same(toServer, toServer', d)
               /\ Total(toServer', d, "data") = Total(toServer, d, "data")
    BY <2>1, ServerAppendOfAnother
  <2> QED  BY <2>2, <2>3
<1>3. CASE toServer # <<>> /\ Head(toServer).ch = c /\ toServer' = Tail(toServer)
  <2>1. toServer' \in Seq(ToServer)
    BY <1>3, ServerTail
  <2>2. ASSUME NEW d \in Channels \ {c}
        PROVE  /\ Same(toServer, toServer', d)
               /\ Total(toServer', d, "data") = Total(toServer, d, "data")
    BY <1>3, ServerTailOfAnother
  <2> QED  BY <2>1, <2>2
<1> QED  BY <1>1, <1>2, <1>3 DEF ServerMoves

\* A step that gives channel c the record r, the device's end e, and w bytes
\* written, has the types and touches nothing of another channel.
Becomes(c, r, e, w) ==
    /\ channels' = [channels EXCEPT ![c] = r]
    /\ device' = [device EXCEPT ![c] = e]
    /\ written' = [written EXCEPT ![c] = w]
    /\ nextchannelid' = nextchannelid

LEMMA Becoming ==
    ASSUME Types, NEW c \in Channels, NEW r \in ChannelRecord, NEW e \in DeviceRecord,
           NEW w \in Nat, w <= MaxWritten[c], Becomes(c, r, e, w),
           registered' = registered \/ registered' = registered \ {c},
           activetunnels' \in Nat, AmtMoves(c), ServerMoves(c)
    PROVE  /\ Types' /\ \A d \in Channels \ {c} : Alike(d)
           /\ channels'[c] = r /\ device'[c] = e /\ written'[c] = w
           /\ nextchannelid' = nextchannelid /\ nextchannelid \in Int
<1>1. /\ channels' \in [Channels -> ChannelRecord]
      /\ device' \in [Channels -> DeviceRecord]
      /\ written' \in [Channels -> Nat]
      /\ channels'[c] = r /\ device'[c] = e /\ written'[c] = w
      /\ \A d \in Channels \ {c} :
            channels'[d] = channels[d] /\ device'[d] = device[d] /\ written'[d] = written[d]
  BY TypesAre DEF Becomes
<1>2. /\ toAmt' \in Seq(ToAmt)
      /\ \A d \in Channels \ {c} :
            Same(toAmt, toAmt', d) /\ BytesIn(toAmt', d) = BytesIn(toAmt, d)
  BY TypesAre, AmtMove
<1>3. /\ toServer' \in Seq(ToServer)
      /\ \A d \in Channels \ {c} :
            /\ Same(toServer, toServer', d)
            /\ Total(toServer', d, "data") = Total(toServer, d, "data")
  BY TypesAre, ServerMove
<1>4. \A d \in Channels : written'[d] \in 0..MaxWritten[d]
  <2>1. MaxWritten[c] \in Nat /\ w \in 0..MaxWritten[c]
    BY WindowAssumption DEF Channels
  <2>2. \A d \in Channels \ {c} : written'[d] \in 0..MaxWritten[d]
    BY <1>1, TypesAre
  <2> QED  BY <1>1, <2>1, <2>2
<1>5. /\ nextchannelid' = nextchannelid /\ nextchannelid \in 1..(MaxChannels + 1)
      /\ registered' \subseteq 1..(nextchannelid' - 1)
  BY TypesAre DEF Becomes
<1>6. \A d \in Channels \ {c} : Alike(d)
  BY <1>1, <1>2, <1>3, <1>5 DEF Alike
<1>7. Types'
  BY <1>1, <1>2, <1>3, <1>4, <1>5, TypesWillBe
<1> QED  BY <1>1, <1>5, <1>6, <1>7

LEMMA RecordsAre ==
    ASSUME Types, NEW c \in Channels
    PROVE  /\ channels[c] \in ChannelRecord /\ device[c] \in DeviceRecord
           /\ written[c] \in Nat /\ written[c] <= MaxWritten[c]
           /\ channels = [channels EXCEPT ![c] = channels[c]]
           /\ device = [device EXCEPT ![c] = device[c]]
           /\ written = [written EXCEPT ![c] = written[c]]
<1>1. written[c] \in 0..MaxWritten[c] /\ MaxWritten[c] \in Nat
  BY TypesAre, WindowAssumption DEF Channels
<1> QED  BY <1>1, TypesAre

\* The state of a channel whose tunnel is open, or opens.
LEMMA StatesAre ==
    ASSUME IInv, NEW c \in Channels
    PROVE  /\ channels[c].state = 2 =>
                 /\ \A type \in Lasts : ~OnTheWay(toAmt, c, type)
                 /\ ~OnTheWay(toServer, c, "confirm") /\ ~OnTheWay(toServer, c, "failure")
                 /\ device[c].state # "none" /\ ~channels[c].closing
           /\ channels[c].state = 0 => ~OnTheWay(toServer, c, "open")
           /\ ~OnTheWay(toServer, c, "open")
           /\ ~OnTheWay(toAmt, c, "failure") /\ ~OnTheWay(toAmt, c, "confirm")
<1>1. /\ Waits(c) /\ Closing(c) /\ toAmt \in Seq(ToAmt) /\ toServer \in Seq(ToServer)
  BY Given, TypesAre
<1>2. /\ ~OnTheWay(toAmt, c, "failure") /\ ~OnTheWay(toAmt, c, "confirm")
      /\ ~OnTheWay(toServer, c, "open")
  BY <1>1, AmtNumbers, ServerNumbers
<1> QED  BY <1>1, <1>2 DEF Waits, Waiting, Closing, Lasts

LEMMA WriteKeeps ==
    ASSUME IInv, NEW c \in Channels, NEW n \in 1..MaxWritten[c], Write(c, n)
    PROVE  IInv'
<1> DEFINE ch == channels[c]
           data == [i \in 1..n |-> written[c] + i]
           buffers == ch.state = 1 \/ ch.sendcredits = 0 \/ ch.sendBuffer # <<>>
           sent == SentOf(data, ch.sendcredits)
           kept == KeptOf(data, ch.sendcredits)
           e == device[c]
           w == written[c] + n
<1>g. /\ Types /\ Ordered(toAmt) /\ Ordered(toServer) /\ TunnelsCounted /\ Fresh(c)
      /\ Opening(c) /\ Confirming(c) /\ Failing(c) /\ Waits(c) /\ Closing(c) /\ Stream(c)
      /\ Window(c) /\ ReplyWindow(c)
  BY Given
<1>t. /\ ch \in ChannelRecord /\ e \in DeviceRecord /\ written[c] \in Nat
      /\ device = [device EXCEPT ![c] = e]
      /\ toAmt \in Seq(ToAmt) /\ activetunnels \in Nat
      /\ ch.state \in 0..2 /\ ch.sendcredits \in Nat /\ ch.sendBuffer \in Seq(Nat)
      /\ BytesIn(toAmt, c) \in Seq(Nat) /\ e.received \in Seq(Nat)
      /\ e.consumed \in Nat /\ e.window \in Nat /\ Len(e.received) \in Nat
      /\ n \in Nat /\ Total(toServer, c, "adjust") \in Nat /\ toServer \in Seq(ToServer)
  BY <1>g, RecordsAre, TypesAre, ChannelTypes, AmtNumbers, ServerNumbers
<1>1. /\ c \in registered /\ ch.state # 0 /\ w <= MaxWritten[c] /\ w \in Nat
      /\ written' = [written EXCEPT ![c] = w]
      /\ nextchannelid' = nextchannelid /\ registered' = registered
      /\ activetunnels' = activetunnels /\ toServer' = toServer /\ device' = device
  <2>1. w \in Nat
    BY <1>t
  <2>2. /\ c \in registered /\ ch.state # 0 /\ w <= MaxWritten[c]
        /\ written' = [written EXCEPT ![c] = w]
        /\ UNCHANGED <<nextchannelid, registered, activetunnels, toServer, device>>
    BY Zenon DEF Write
  <2> QED  BY <2>1, <2>2
<1>2. data \in Seq(Nat) /\ Bytes(written[c]) \o data = Bytes(w) /\ Bytes(written[c]) \in Seq(Nat)
  BY <1>t, BytesAppended
<1>3. ServerMoves(c)
  BY <1>1 DEF ServerMoves
<1>4. /\ ~OnTheWay(toAmt, c, "close")
      /\ Stream(c) <=> (e.state # "closed" =>
             e.received \o BytesIn(toAmt, c) \o ch.sendBuffer = Bytes(written[c]))
  BY <1>g, <1>1 DEF Closing, Stream, Bytes
<1>5. CASE buffers
  <2> DEFINE r == [ch EXCEPT !.sendBuffer = @ \o data]
  <2>1. channels' = [channels EXCEPT ![c] = r] /\ toAmt' = toAmt
    BY <1>5 DEF Write
  <2>2. ch.sendBuffer \o data \in Seq(Nat)
    BY <1>2, <1>t, Joined
  <2> HIDE DEF data, buffers
  <2>3. r \in ChannelRecord /\ r.sendBuffer = ch.sendBuffer \o data
        /\ r.state = ch.state /\ r.closing = ch.closing /\ r.sendcredits = ch.sendcredits
        /\ r.amtpendingcredits = ch.amtpendingcredits
    BY <1>t, <2>2 DEF ChannelRecord
  <2> HIDE DEF r
  <2>4. Becomes(c, r, e, w) /\ AmtMoves(c)
    BY <1>1, <1>t, <2>1 DEF Becomes, AmtMoves
  <2>5. /\ Types' /\ \A d \in Channels \ {c} : Alike(d)
        /\ channels'[c] = r /\ device'[c] = e /\ written'[c] = w
        /\ nextchannelid' = nextchannelid /\ nextchannelid \in Int
    BY <1>1, <1>3, <1>g, <1>t, <2>3, <2>4, Becoming
  <2>6. Fresh(c)' /\ Opening(c)' /\ Confirming(c)' /\ Failing(c)' /\ Waits(c)' /\ Closing(c)'
    BY <1>1, <1>g, <2>1, <2>3, <2>5, ChannelTypes
    DEF Fresh, Opening, Confirming, Failing, Waits, Waiting, Closing
  <2>7. Stream(c)'
    <3>1. SUFFICES ASSUME e.state # "closed"
                   PROVE  e.received \o BytesIn(toAmt, c) \o (ch.sendBuffer \o data)
                            = [i \in 1..w |-> i]
      BY <2>1, <2>3, <2>5 DEF Stream
    <3> DEFINE u == e.received \o BytesIn(toAmt, c)
    <3>2. u \in Seq(Nat) /\ u \o ch.sendBuffer = Bytes(written[c])
      BY <1>4, <1>g, <1>t, <3>1, Joined
    <3> HIDE DEF u
    <3>3. u \o (ch.sendBuffer \o data) = (u \o ch.sendBuffer) \o data
      BY <1>2, <1>t, <3>2, Associative
    <3>4. u \o (ch.sendBuffer \o data) = Bytes(w)
      BY <1>2, <3>2, <3>3, Zenon
    <3> QED  BY <3>4 DEF u, Bytes
  <2>8. Window(c)' /\ ReplyWindow(c)'
    BY <1>1, <1>g, <2>1, <2>3, <2>5 DEF Window, ReplyWindow
  <2>9. ChannelInv(c)'
    BY <2>6, <2>7, <2>8, ChannelInvAre
  <2>10. Counted(c)' <=> Counted(c)
    BY <1>1 DEF Counted
  <2>11. Ordered(toAmt') /\ Ordered(toServer')
    BY <1>1, <1>g, <2>1
  <2> QED  BY <1>1, <2>5, <2>9, <2>10, <2>11, StepWithin
<1>6. CASE ~buffers
  <2> DEFINE r == [ch EXCEPT !.sendBuffer = kept, !.sendcredits = @ - Len(sent)]
             m == Data(c, sent)
  <2>1. channels' = [channels EXCEPT ![c] = r] /\ toAmt' = Append(toAmt, m)
    BY <1>6 DEF Write
  <2>a. ch.state = 2 /\ ch.sendBuffer = <<>>
    BY <1>1, <1>6, <1>t, SMTT(30)
  <2> HIDE DEF data, buffers
  <2>2. /\ sent \in Seq(Nat) /\ kept \in Seq(Nat) /\ sent \o kept = data
        /\ Len(sent) <= ch.sendcredits /\ Len(sent) \in Nat
    BY <1>2, <1>t, SentAndKept
  <2> HIDE DEF sent, kept
  <2>3. r \in ChannelRecord /\ r.sendBuffer = kept
        /\ r.state = ch.state /\ r.closing = ch.closing
        /\ r.sendcredits = ch.sendcredits - Len(sent)
        /\ r.amtpendingcredits = ch.amtpendingcredits
    <3>1. ch.sendcredits - Len(sent) \in Nat
      BY <1>t, <2>2, SMTT(30)
    <3> HIDE DEF ch
    <3> QED  BY <1>t, <2>2, <3>1 DEF ChannelRecord
  <2>b. m \in ToAmt /\ m.ch = c /\ m.type = "data" /\ m.bytes = sent
    BY <2>2 DEF Data, ToAmt
  <2> HIDE DEF r, m
  <2>4. Becomes(c, r, e, w) /\ AmtMoves(c)
    BY <1>1, <1>t, <2>1, <2>b DEF Becomes, AmtMoves
  <2>5. /\ Types' /\ \A d \in Channels \ {c} : Alike(d)
        /\ channels'[c] = r /\ device'[c] = e /\ written'[c] = w
        /\ nextchannelid' = nextchannelid /\ nextchannelid \in Int
    BY <1>1, <1>3, <1>g, <1>t, <2>3, <2>4, Becoming
  <2>c. /\ Holds(toAmt, toAmt', m, c)
        /\ BytesIn(toAmt', c) = BytesIn(toAmt, c) \o BytesOf(m, c)
        /\ BytesOf(m, c) = sent /\ NumberOf(m, c, "adjust") = 0
    BY <1>t, <2>1, <2>b, AmtAppend DEF BytesOf, NumberOf
  <2>d. Ordered(toAmt')
    <3>1. \A type \in Lasts : ~OnTheWay(toAmt, c, type)
      BY <2>a, StatesAre
    <3>2. m.type \notin Firsts
      BY <2>b DEF Firsts
    <3> QED  BY <1>g, <1>t, <2>1, <2>b, <3>1, <3>2, OrderedAppend
  <2>e. /\ ~Waiting(c) /\ ~Waiting(c)' /\ ~OnTheWay(toAmt', c, "close")
        /\ ~OnTheWay(toAmt', c, "open")
    BY <1>1, <1>4, <1>g, <2>a, <2>b, <2>c DEF Waits, Waiting, Holds
  <2>6. Fresh(c)' /\ Opening(c)' /\ Confirming(c)' /\ Failing(c)' /\ Waits(c)' /\ Closing(c)'
    BY <1>1, <1>g, <2>a, <2>e, <2>3, <2>5, ChannelTypes
    DEF Fresh, Opening, Confirming, Failing, Waits, Waiting, Closing
  <2>7. Stream(c)'
    <3>1. SUFFICES ASSUME e.state # "closed"
                   PROVE  e.received \o (BytesIn(toAmt, c) \o sent) \o kept = [i \in 1..w |-> i]
      BY <2>c, <2>3, <2>5 DEF Stream
    <3> DEFINE u == e.received \o BytesIn(toAmt, c)
    <3>2. u \in Seq(Nat) /\ u \o <<>> = Bytes(written[c])
      BY <1>4, <1>g, <1>t, <2>a, <3>1, Joined
    <3>3. e.received \o (BytesIn(toAmt, c) \o sent) = u \o sent
      BY <1>t, <2>2, Associative, ZenonT(30)
    <3> HIDE DEF u
    <3>4. u = Bytes(written[c])
      BY <3>2, Seqs!ConcatEmptySeq
    <3>5. (u \o sent) \o kept = u \o (sent \o kept)
      BY <2>2, <3>2, Associative
    <3>6. (u \o sent) \o kept = Bytes(w)
      BY <1>2, <2>2, <3>4, <3>5, Zenon
    <3> QED  BY <3>3, <3>6 DEF Bytes
  <2>8. Window(c)' /\ ReplyWindow(c)'
    <3>1. Len(BytesIn(toAmt', c)) = Len(BytesIn(toAmt, c)) + Len(sent)
      BY <1>t, <2>2, <2>c, Joined
    <3>2. Total(toAmt', c, "adjust") = Total(toAmt, c, "adjust")
      BY <1>t, <2>c, AmtNumbers DEF Holds
    <3>3. Len(BytesIn(toAmt, c)) \in Nat
      BY <1>t
    <3>4. Window(c)'
      <4>1. e.state = "open" =>
              /\ e.consumed <= Len(e.received)
              /\ ~OnTheWay(toServer, c, "confirm") =>
                    ch.sendcredits + (Len(e.received) - e.consumed)
                        + Len(BytesIn(toAmt, c)) + Total(toServer, c, "adjust") = e.window
        BY <1>g DEF Window
      <4> HIDE DEF ch, e
      <4>2. e.state = "open" =>
              /\ e.consumed <= Len(e.received)
              /\ ~OnTheWay(toServer, c, "confirm") =>
                    r.sendcredits + (Len(e.received) - e.consumed)
                        + Len(BytesIn(toAmt', c)) + Total(toServer, c, "adjust") = e.window
        <5>1. /\ ch.sendcredits \in Nat /\ Len(sent) \in Nat /\ Len(e.received) \in Nat
              /\ e.consumed \in Nat /\ Total(toServer, c, "adjust") \in Nat
              /\ e.window \in Nat /\ r.sendcredits = ch.sendcredits - Len(sent)
          BY <1>t, <2>2, <2>3
        <5> QED  BY <3>1, <3>3, <4>1, <5>1
      <4> QED  BY <1>1, <2>5, <4>2 DEF Window
    <3> QED  BY <1>1, <1>g, <2>3, <2>5, <3>2, <3>4 DEF ReplyWindow
  <2>9. ChannelInv(c)'
    BY <2>6, <2>7, <2>8, ChannelInvAre
  <2>10. Counted(c)' <=> Counted(c)
    BY <1>1 DEF Counted
  <2>11. Ordered(toServer')
    BY <1>1, <1>g
  <2> QED  BY <1>1, <2>5, <2>9, <2>10, <2>11, <2>d, StepWithin
<1> QED  BY <1>5, <1>6

LEMMA CloseChannelKeeps ==
    ASSUME IInv, NEW c \in Channels, CloseChannel(c)
    PROVE  IInv'
<1> DEFINE ch == channels[c]
           e == device[c]
           w == written[c]
           r == [ch EXCEPT !.state = 0, !.closing = TRUE]
           m == Close(c)
<1>g. /\ Types /\ Ordered(toAmt) /\ Ordered(toServer) /\ TunnelsCounted /\ Fresh(c)
      /\ Opening(c) /\ Confirming(c) /\ Failing(c) /\ Waits(c) /\ Closing(c) /\ Stream(c)
      /\ Window(c) /\ ReplyWindow(c)
  BY Given
<1>t. /\ ch \in ChannelRecord /\ e \in DeviceRecord /\ w \in Nat /\ w <= MaxWritten[c]
      /\ device = [device EXCEPT ![c] = e] /\ written = [written EXCEPT ![c] = w]
      /\ toAmt \in Seq(ToAmt) /\ activetunnels \in Nat /\ ch.state \in 0..2
      /\ BytesIn(toAmt, c) \in Seq(Nat)
  BY <1>g, RecordsAre, TypesAre, ChannelTypes, AmtNumbers
<1>1. /\ c \in registered /\ ch.state # 0 /\ ~ch.closing
      /\ channels' = [channels EXCEPT ![c] = r]
      /\ toAmt' = IF ch.state = 2 THEN Append(toAmt, m) ELSE toAmt
      /\ nextchannelid' = nextchannelid /\ registered' = registered /\ written' = written
      /\ activetunnels' = activetunnels /\ toServer' = toServer /\ device' = device
  BY DEF CloseChannel
<1>2. /\ r \in ChannelRecord /\ r.state = 0 /\ r.closing = TRUE
      /\ r.sendcredits = ch.sendcredits /\ r.amtpendingcredits = ch.amtpendingcredits
  <2> HIDE DEF ch
  <2>0. ch \in ChannelRecord
    BY <1>t
  <2>1. r \in ChannelRecord
    <3> DEFINE s == [ch EXCEPT !.state = 0]
    <3>1. s \in ChannelRecord
      BY <2>0 DEF ChannelRecord
    <3>2. r = [s EXCEPT !.closing = TRUE]
      BY Zenon
    <3> HIDE DEF r, s
    <3> QED  BY <3>1, <3>2 DEF ChannelRecord
  <2>2. /\ r.state = 0 /\ r.closing = TRUE
        /\ r.sendcredits = ch.sendcredits /\ r.amtpendingcredits = ch.amtpendingcredits
    BY <1>t DEF ChannelRecord
  <2> QED  BY <2>1, <2>2
<1>3. m \in ToAmt /\ m.ch = c /\ m.type = "close"
  BY DEF Close, ToAmt
<1> HIDE DEF r, m
<1>4. Becomes(c, r, e, w) /\ AmtMoves(c) /\ ServerMoves(c)
  BY <1>1, <1>3, <1>t DEF Becomes, AmtMoves, ServerMoves
<1>5. /\ Types' /\ \A d \in Channels \ {c} : Alike(d)
      /\ channels'[c] = r /\ device'[c] = e /\ written'[c] = w
      /\ nextchannelid' = nextchannelid /\ nextchannelid \in Int
  BY <1>1, <1>2, <1>4, <1>g, <1>t, Becoming
<1>6. /\ BytesIn(toAmt', c) = BytesIn(toAmt, c)
      /\ Total(toAmt', c, "adjust") = Total(toAmt, c, "adjust")
      /\ \A type : OnTheWay(toAmt', c, type)
                     <=> OnTheWay(toAmt, c, type) \/ (ch.state = 2 /\ type = "close")
      /\ Of(toAmt', c) <=> Of(toAmt, c) \/ ch.state = 2
      /\ Ordered(toAmt')
  <2>1. CASE ch.state = 2
    <3>1. BytesOf(m, c) = <<>> /\ NumberOf(m, c, "adjust") = 0
      BY <1>3 DEF BytesOf, NumberOf
    <3>2. /\ Holds(toAmt, toAmt', m, c)
          /\ BytesIn(toAmt', c) = BytesIn(toAmt, c) \o BytesOf(m, c)
      BY <1>1, <1>3, <1>t, <2>1, AmtAppend
    <3>3. BytesIn(toAmt, c) \o <<>> = BytesIn(toAmt, c)
      BY <1>t, Seqs!ConcatEmptySeq
    <3>4. BytesIn(toAmt', c) = BytesIn(toAmt, c)
      BY <3>1, <3>2, <3>3, Zenon
    <3>5. Total(toAmt', c, "adjust") = Total(toAmt, c, "adjust")
      BY <1>t, <3>1, <3>2, AmtNumbers DEF Holds
    <3>6. Ordered(toAmt')
      <4>1. \A type \in Lasts : ~OnTheWay(toAmt, c, type)
        BY <2>1, StatesAre
      <4>2. m.type \notin Firsts
        BY <1>3 DEF Firsts
      <4> QED  BY <1>1, <1>3, <1>g, <1>t, <2>1, <4>1, <4>2, OrderedAppend
    <3> QED  BY <1>3, <2>1, <3>2, <3>4, <3>5, <3>6 DEF Holds
  <2>2. CASE ch.state # 2
    BY <1>1, <1>g, <2>2
  <2> QED  BY <2>1, <2>2
<1>7. Fresh(c)' /\ Opening(c)' /\ Confirming(c)' /\ Failing(c)'
  <2>1. ch.state = 2 => ~Waiting(c)
    BY <1>g DEF Waits
  <2> QED  BY <1>1, <1>2, <1>5, <1>6, <1>g, <2>1, ChannelTypes
           DEF Fresh, Opening, Confirming, Failing, Waiting
<1>8. Waits(c)'
  BY <1>1, <1>2, <1>5, <1>6, <1>g DEF Waits, Waiting
<1>9. Closing(c)'
  <2>1. /\ e.state = "open" => OnTheWay(toServer, c, "confirm") \/ OnTheWay(toAmt', c, "close")
    <3>1. CASE ch.state = 2
      BY <1>6, <3>1
    <3>2. CASE ch.state = 1
      BY <1>6, <1>g, <3>2 DEF Closing
    <3> QED  BY <1>1, <1>t, <3>1, <3>2
  <2>2. Of(toAmt', c) /\ e.state = "none" => OnTheWay(toAmt', c, "open")
    <3>1. ch.state = 2 => e.state # "none"
      BY StatesAre
    <3> QED  BY <1>6, <1>g, <3>1 DEF Closing
  <2> QED  BY <1>1, <1>2, <1>5, <1>g, <2>1, <2>2 DEF Closing
<1>10. Stream(c)' /\ Window(c)' /\ ReplyWindow(c)'
  BY <1>1, <1>2, <1>5, <1>6, <1>g DEF Stream, Window, ReplyWindow
<1>11. ChannelInv(c)'
  BY <1>7, <1>8, <1>9, <1>10, ChannelInvAre
<1>12. Counted(c)' <=> Counted(c)
  BY <1>1 DEF Counted
<1>13. Ordered(toServer')
  BY <1>1, <1>g
<1> QED  BY <1>1, <1>5, <1>6, <1>11, <1>12, <1>13, StepWithin

-----------------------------------------------------------------------------
\* What a flush of k credits sends and keeps.
Flushed(c, ch, k, r, sent) ==
    /\ channels' = [channels EXCEPT ![c] = r]
    /\ r.state = ch.state /\ r.closing = ch.closing
    /\ r.amtpendingcredits = ch.amtpendingcredits
    /\ r.sendcredits \in Nat /\ r.sendcredits + Len(sent) = k
    /\ r.sendBuffer \in Seq(Nat) /\ sent \o r.sendBuffer = ch.sendBuffer
    /\ BytesIn(toAmt', c) = BytesIn(toAmt, c) \o sent
    /\ Total(toAmt', c, "adjust") = Total(toAmt, c, "adjust")
    /\ \A type : type # "data" =>
          (OnTheWay(toAmt', c, type) <=> OnTheWay(toAmt, c, type))
    /\ AmtMoves(c) /\ Ordered(toAmt')

LEMMA Flushing ==
    ASSUME toAmt \in Seq(ToAmt), Ordered(toAmt), NEW c \in Channels,
           NEW ch \in ChannelRecord, NEW k \in Nat, Flush(c, ch, k),
           \A type \in Lasts : ~OnTheWay(toAmt, c, type)
    PROVE  \E r \in ChannelRecord, sent \in Seq(Nat) : Flushed(c, ch, k, r, sent)
<1> DEFINE sent == SentOf(ch.sendBuffer, k)
           kept == KeptOf(ch.sendBuffer, k)
           r == [ch EXCEPT !.sendcredits = k - Len(sent), !.sendBuffer = kept]
           m == Data(c, sent)
<1>1. ch.sendBuffer \in Seq(Nat)
  BY DEF ChannelRecord
<1>2. /\ channels' = [channels EXCEPT ![c] = r]
      /\ toAmt' = IF ch.sendBuffer = <<>> THEN toAmt ELSE Append(toAmt, m)
  BY Zenon DEF Flush
<1>3. /\ sent \in Seq(Nat) /\ kept \in Seq(Nat) /\ sent \o kept = ch.sendBuffer
      /\ Len(sent) <= k /\ Len(sent) \in Nat
      /\ ch.sendBuffer = <<>> => sent = <<>> /\ kept = <<>>
  BY <1>1, SentAndKept
<1> HIDE DEF sent, kept
<1>4. k - Len(sent) \in Nat
  BY <1>3
<1>5. /\ r \in ChannelRecord /\ r.sendBuffer = kept /\ r.state = ch.state
      /\ r.closing = ch.closing /\ r.amtpendingcredits = ch.amtpendingcredits
      /\ r.sendcredits = k - Len(sent)
  BY <1>3, <1>4 DEF ChannelRecord
<1>6. m \in ToAmt /\ m.ch = c /\ m.type = "data" /\ m.bytes = sent
  BY <1>3 DEF Data, ToAmt
<1> HIDE DEF r, m
<1>7. r.sendcredits + Len(sent) = k
  BY <1>3, <1>5
<1>8. /\ BytesIn(toAmt', c) = BytesIn(toAmt, c) \o sent
      /\ Total(toAmt', c, "adjust") = Total(toAmt, c, "adjust")
      /\ \A type : type # "data" =>
            (OnTheWay(toAmt', c, type) <=> OnTheWay(toAmt, c, type))
      /\ AmtMoves(c) /\ Ordered(toAmt')
  <2>1. CASE ch.sendBuffer = <<>>
    <3>1. toAmt' = toAmt /\ sent = <<>>
      BY <1>2, <1>3, <2>1
    <3>2. BytesIn(toAmt, c) \o <<>> = BytesIn(toAmt, c)
      BY AmtNumbers, Seqs!ConcatEmptySeq
    <3> QED  BY <3>1, <3>2, Zenon DEF AmtMoves
  <2>2. CASE ch.sendBuffer # <<>>
    <3>1. toAmt' = Append(toAmt, m)
      BY <1>2, <2>2
    <3>2. BytesOf(m, c) = sent /\ NumberOf(m, c, "adjust") = 0
      BY <1>6 DEF BytesOf, NumberOf
    <3>3. /\ Holds(toAmt, toAmt', m, c)
          /\ BytesIn(toAmt', c) = BytesIn(toAmt, c) \o BytesOf(m, c)
      BY <1>6, <3>1, AmtAppend
    <3>4. Total(toAmt', c, "adjust") = Total(toAmt, c, "adjust")
      BY <3>2, <3>3, AmtNumbers DEF Holds
    <3>5. m.type \notin Firsts
      BY <1>6 DEF Firsts
    <3>6. Ordered(toAmt')
      BY <1>6, <3>1, <3>5, OrderedAppend
    <3>7. AmtMoves(c)
      BY <1>6, <3>1 DEF AmtMoves
    <3>8. \A type : type # "data" =>
             (OnTheWay(toAmt', c, type) <=> OnTheWay(toAmt, c, type))
      BY <1>6, <3>3 DEF Holds
    <3> QED  BY <3>2, <3>3, <3>4, <3>6, <3>7, <3>8, Zenon
  <2> QED  BY <2>1, <2>2
<1>9. /\ r.sendBuffer \in Seq(Nat) /\ r.sendcredits \in Nat
      /\ sent \o r.sendBuffer = ch.sendBuffer
  BY <1>3, <1>4, <1>5
<1>10. r \in ChannelRecord /\ sent \in Seq(Nat)
  BY <1>3, <1>5
<1> USE <1>10
<1> WITNESS r \in ChannelRecord, sent \in Seq(Nat)
<1> QED  BY <1>2, <1>5, <1>7, <1>8, <1>9, <1>10, Zenon DEF Flushed

\* What the server reads was on its way, and is not any more.
LEMMA ServerReads ==
    ASSUME IInv, NEW type, Reads(type), NEW m, m = Head(toServer), NEW c, c = m.ch
    PROVE  /\ c \in Channels /\ m \in ToServer /\ m.type = type
           /\ toServer' \in Seq(ToServer) /\ ServerMoves(c) /\ Ordered(toServer')
           /\ OnTheWay(toServer, c, type) /\ Of(toServer, c)
           /\ \A t : OnTheWay(toServer, c, t) <=> OnTheWay(toServer', c, t) \/ t = type
           /\ \A t \in Firsts : ~OnTheWay(toServer', c, t)
           /\ type \in Lasts => ~Of(toServer', c)
           /\ Total(toServer, c, "adjust")
                = Total(toServer', c, "adjust") + NumberOf(m, c, "adjust")
           /\ Total(toServer, c, "data")
                = Total(toServer', c, "data") + NumberOf(m, c, "data")
           /\ Total(toServer', c, "adjust") \in Nat /\ Total(toServer', c, "data") \in Nat
           /\ \A w : Announces(toServer, c, w) /\ type = "confirm" => m.n = w
<1>1. /\ toServer \in Seq(ToServer) /\ toServer # <<>> /\ m.type = type
      /\ toServer' = Tail(toServer) /\ Ordered(toServer)
  BY Given, TypesAre DEF Reads, IInv
<1>2. /\ toServer' \in Seq(ToServer) /\ m \in ToServer
      /\ Holds(toServer', toServer, m, c) /\ HoldsData(toServer', toServer, m, c)
  BY <1>1, ServerTail
<1>3. c \in Channels
  BY <1>2 DEF ToServer
<1>4. ServerMoves(c)
  BY <1>1 DEF ServerMoves
<1>5. /\ Ordered(toServer')
      /\ type \in Lasts => ~Of(toServer', c)
      /\ \A t \in Firsts : ~OnTheWay(toServer', c, t)
  BY <1>1, OrderedTail
<1>6. Total(toServer', c, "adjust") \in Nat /\ Total(toServer', c, "data") \in Nat
  BY <1>2, ServerNumbers
<1>7. /\ \A t : OnTheWay(toServer, c, t) <=> OnTheWay(toServer', c, t) \/ t = type
      /\ Of(toServer, c)
      /\ \A w : Announces(toServer, c, w) /\ type = "confirm" => m.n = w
  BY <1>1, <1>2 DEF Holds
<1>8. /\ Total(toServer, c, "adjust")
            = Total(toServer', c, "adjust") + NumberOf(m, c, "adjust")
      /\ Total(toServer, c, "data")
            = Total(toServer', c, "data") + NumberOf(m, c, "data")
  BY <1>2 DEF Holds, HoldsData
<1> QED  BY <1>1, <1>2, <1>3, <1>4, <1>5, <1>6, <1>7, <1>8

LEMMA ConfirmationKeeps ==
    ASSUME IInv, ChannelOpenConfirmation,
           NEW m, m = Head(toServer), NEW c, c = m.ch
    PROVE  IInv'
<1> DEFINE ch == channels[c]
           e == device[c]
           w == written[c]
<1>r. /\ c \in Channels /\ m \in ToServer /\ m.type = "confirm"
      /\ toServer' \in Seq(ToServer) /\ ServerMoves(c) /\ Ordered(toServer')
      /\ OnTheWay(toServer, c, "confirm")
      /\ \A t : OnTheWay(toServer, c, t) <=> OnTheWay(toServer', c, t) \/ t = "confirm"
      /\ \A t \in Firsts : ~OnTheWay(toServer', c, t)
      /\ Total(toServer, c, "data") = Total(toServer', c, "data") + NumberOf(m, c, "data")
      /\ Total(toServer', c, "data") \in Nat
      /\ \A n : Announces(toServer, c, n) => m.n = n
  BY ServerReads DEF ChannelOpenConfirmation
<1>g. /\ Types /\ Ordered(toAmt) /\ Ordered(toServer) /\ TunnelsCounted /\ Fresh(c)
      /\ Opening(c) /\ Confirming(c) /\ Failing(c) /\ Waits(c) /\ Closing(c) /\ Stream(c)
      /\ Window(c) /\ ReplyWindow(c)
  BY <1>r, Given
<1>t. /\ ch \in ChannelRecord /\ e \in DeviceRecord /\ w \in Nat /\ w <= MaxWritten[c]
      /\ device = [device EXCEPT ![c] = e] /\ written = [written EXCEPT ![c] = w]
      /\ toAmt \in Seq(ToAmt) /\ activetunnels \in Nat /\ ch.state \in 0..2
      /\ ch.sendBuffer \in Seq(Nat) /\ e.window \in Nat
  BY <1>r, <1>g, RecordsAre, TypesAre, ChannelTypes
<1>a. activetunnels' = activetunnels + 1 /\ activetunnels' \in Nat
  BY <1>t DEF ChannelOpenConfirmation
<1>1. /\ activetunnels' = activetunnels + 1
      /\ IF ch.closing
         THEN /\ toAmt' = Append(toAmt, Close(c))
              /\ channels' = [channels EXCEPT ![c].sendcredits = m.n]
         ELSE Flush(c, [ch EXCEPT !.state = 2], m.n)
      /\ nextchannelid' = nextchannelid /\ registered' = registered /\ written' = written
      /\ device' = device
  BY DEF ChannelOpenConfirmation
\* A channel whose confirmation was on its way.
<1>2. /\ ~Of(toAmt, c) /\ \A type : ~OnTheWay(toAmt, c, type)
      /\ e.received = <<>> /\ e.consumed = 0 /\ m.n = e.window /\ m.n \in Nat
      /\ e.state \in {"open", "closed"}
      /\ e.state = "closed" => OnTheWay(toServer', c, "close")
      /\ OnTheWay(toServer', c, "close") => e.state = "closed"
      /\ ~OnTheWay(toServer', c, "confirm") /\ ~OnTheWay(toServer', c, "failure")
      /\ ~OnTheWay(toServer', c, "adjust") /\ ~OnTheWay(toServer', c, "open")
      /\ c \in registered /\ c < nextchannelid
      /\ BytesIn(toAmt, c) = <<>> /\ Total(toServer', c, "adjust") = 0
      /\ ~ch.closing => ch.state = 1
      /\ ch.closing => ch.state = 0
      /\ NumberOf(m, c, "data") = 0 /\ Total(toAmt, c, "adjust") = 0
  <2>1. ~Of(toAmt, c) /\ ~OnTheWay(toServer, c, "adjust") /\ Announces(toServer, c, e.window)
    BY <1>g, <1>r DEF Confirming
  <2>2. \A type : ~OnTheWay(toAmt, c, type)
    BY <2>1, NoneOf
  <2>3. BytesIn(toAmt, c) = <<>> /\ Total(toAmt, c, "adjust") = 0
    BY <1>t, <2>2, AmtNumbers, BytesOfNone, TotalOfNone
  <2>4. ~OnTheWay(toServer', c, "adjust")
    BY <1>r, <2>1
  <2>5. Total(toServer', c, "adjust") = 0
    BY <1>r, <2>4, ServerNumbers, TotalOfNone
  <2>6. NumberOf(m, c, "data") = 0
    BY <1>r DEF NumberOf
  <2>7. m.n = e.window
    BY <1>r, <2>1
  <2>8. /\ e.received = <<>> /\ e.consumed = 0 /\ e.state \in {"open", "closed"}
        /\ e.state = "closed" => OnTheWay(toServer', c, "close")
    BY <1>g, <1>r DEF Confirming
  <2>9. c \in registered /\ (~ch.closing => ch.state = 1) /\ (ch.closing => ch.state = 0)
    BY <1>g, <1>r DEF Waits, Waiting
  <2>10. c < nextchannelid
    BY <1>g, <1>r, <2>9, ChannelTypes
  <2>11. /\ ~OnTheWay(toServer', c, "confirm") /\ ~OnTheWay(toServer', c, "failure")
         /\ ~OnTheWay(toServer', c, "open")
    BY <1>r DEF Firsts
  <2>12. OnTheWay(toServer', c, "close") => e.state = "closed"
    BY <1>g, <1>r DEF Closing
  <2>13. m.n \in Nat
    BY <1>t, <2>7
  <2> QED  BY <2>1, <2>2, <2>3, <2>4, <2>5, <2>6, <2>7, <2>8, <2>9, <2>10, <2>11, <2>12, <2>13
<1>3. Counted(c)' /\ ~Counted(c)
  BY <1>1, <1>2, <1>r DEF Counted
<1>4. CASE ch.closing
  <2> DEFINE r == [ch EXCEPT !.sendcredits = m.n]
             cl == Close(c)
  <2>1. /\ channels' = [channels EXCEPT ![c] = r] /\ toAmt' = Append(toAmt, cl)
    BY <1>1, <1>4
  <2>2. /\ r \in ChannelRecord /\ r.state = 0 /\ r.closing = ch.closing
        /\ r.amtpendingcredits = ch.amtpendingcredits /\ r.sendcredits = m.n
    BY <1>2, <1>4, <1>t DEF ChannelRecord
  <2>3. cl \in ToAmt /\ cl.ch = c /\ cl.type = "close"
    BY <1>r DEF Close, ToAmt
  <2> HIDE DEF r, cl
  <2>4. Becomes(c, r, e, w) /\ AmtMoves(c)
    BY <1>1, <1>t, <2>1, <2>3 DEF Becomes, AmtMoves
  <2>5. /\ Types' /\ \A d \in Channels \ {c} : Alike(d)
        /\ channels'[c] = r /\ device'[c] = e /\ written'[c] = w
        /\ nextchannelid' = nextchannelid /\ nextchannelid \in Int
    BY <1>1, <1>a, <1>g, <1>r, <1>t, <2>2, <2>4, Becoming
  <2>6. Ordered(toAmt')
    BY <1>2, <1>g, <1>t, <2>1, <2>3, OrderedAppend
  <2>7. /\ Holds(toAmt, toAmt', cl, c)
        /\ BytesIn(toAmt', c) = BytesIn(toAmt, c) \o BytesOf(cl, c)
    BY <1>t, <2>1, <2>3, AmtAppend
  <2>8. \A type : OnTheWay(toAmt', c, type) <=> type = "close"
    BY <1>2, <2>3, <2>7 DEF Holds
  <2>9. BytesIn(toAmt', c) = <<>>
    BY <2>5, <2>8, AmtNumbers, BytesOfNone DEF Types
  <2>10. Fresh(c)' /\ Opening(c)' /\ Confirming(c)' /\ Failing(c)'
    BY <1>1, <1>2, <1>r, <2>5, <2>8 DEF Fresh, Opening, Confirming, Failing, Channels
  <2>11. Waits(c)' /\ Closing(c)'
    BY <1>1, <1>2, <1>4, <1>r, <2>2, <2>5, <2>8 DEF Waits, Waiting, Closing
  <2>12. Stream(c)' /\ ReplyWindow(c)'
    BY <1>g, <2>2, <2>5 DEF Stream, ReplyWindow
  <2>13. Window(c)'
    BY <1>2, <1>t, <2>2, <2>5, <2>9 DEF Window
  <2>14. ChannelInv(c)'
    BY <2>10, <2>11, <2>12, <2>13, ChannelInvAre
  <2> QED  BY <1>a, <1>3, <1>r, <2>5, <2>6, <2>14, StepAdds
<1>5. CASE ~ch.closing
  <2> DEFINE opened == [ch EXCEPT !.state = 2]
  <2>1. opened \in ChannelRecord /\ opened.state = 2 /\ opened.closing = ch.closing
        /\ opened.sendBuffer = ch.sendBuffer /\ opened.amtpendingcredits = ch.amtpendingcredits
    <3>1. ch \in ChannelRecord
      BY <1>t
    <3> HIDE DEF ch
    <3> QED  BY <3>1 DEF ChannelRecord
  <2>2. Flush(c, opened, m.n)
    BY <1>1, <1>5
  <2> HIDE DEF opened
  <2>p. PICK r \in ChannelRecord, sent \in Seq(Nat) : Flushed(c, opened, m.n, r, sent)
    <3>1. /\ toAmt \in Seq(ToAmt) /\ Ordered(toAmt) /\ c \in Channels /\ m.n \in Nat
          /\ \A type \in Lasts : ~OnTheWay(toAmt, c, type)
      BY <1>2, <1>g, <1>r, <1>t
    <3> QED  BY <2>1, <2>2, <3>1, Flushing
  <2>3. /\ channels' = [channels EXCEPT ![c] = r]
        /\ r.state = opened.state /\ r.closing = opened.closing
        /\ r.amtpendingcredits = opened.amtpendingcredits
        /\ r.sendcredits \in Nat /\ r.sendcredits + Len(sent) = m.n
        /\ r.sendBuffer \in Seq(Nat) /\ sent \o r.sendBuffer = opened.sendBuffer
        /\ BytesIn(toAmt', c) = BytesIn(toAmt, c) \o sent
        /\ Total(toAmt', c, "adjust") = Total(toAmt, c, "adjust")
        /\ \A type : type # "data" =>
              (OnTheWay(toAmt', c, type) <=> OnTheWay(toAmt, c, type))
        /\ AmtMoves(c) /\ Ordered(toAmt')
    BY <2>p DEF Flushed
  <2>4. Becomes(c, r, e, w)
    BY <1>1, <1>t, <2>3 DEF Becomes
  <2>5. /\ Types' /\ \A d \in Channels \ {c} : Alike(d)
        /\ channels'[c] = r /\ device'[c] = e /\ written'[c] = w
        /\ nextchannelid' = nextchannelid /\ nextchannelid \in Int
    BY <1>1, <1>a, <1>g, <1>r, <1>t, <2>3, <2>4, Becoming
  <2>6. BytesIn(toAmt', c) = sent
    BY <1>2, <2>3, Seqs!ConcatEmptySeq
  <2>7. r.state = 2 /\ ~r.closing
    BY <1>5, <2>1, <2>3
  <2>8. /\ ~OnTheWay(toAmt', c, "open") /\ ~OnTheWay(toAmt', c, "close")
        /\ e.state # "none"
    BY <1>2, <2>3
  <2>9. Fresh(c)' /\ Opening(c)' /\ Confirming(c)' /\ Failing(c)'
    BY <1>1, <1>2, <1>r, <2>5, <2>8 DEF Fresh, Opening, Confirming, Failing, Channels
  <2>10. Waits(c)' /\ Closing(c)'
    BY <1>1, <1>2, <1>r, <2>5, <2>7, <2>8 DEF Waits, Waiting, Closing
  <2>11. Stream(c)'
    <3>1. SUFFICES ASSUME e.state # "closed"
                   PROVE  e.received \o sent \o r.sendBuffer = [i \in 1..w |-> i]
      BY <2>5, <2>6 DEF Stream
    <3>2. e.received \o BytesIn(toAmt, c) \o ch.sendBuffer = [i \in 1..w |-> i]
      <4>1. ch.state # 0
        BY <1>2, <1>5
      <4> QED  BY <1>g, <3>1, <4>1, Zenon DEF Stream
    <3>3. <<>> \o <<>> = <<>> /\ <<>> \o ch.sendBuffer = ch.sendBuffer /\ <<>> \o sent = sent
      BY <1>t, Seqs!ConcatEmptySeq
    <3>4. ch.sendBuffer = [i \in 1..w |-> i]
      BY <1>2, <3>2, <3>3, ZenonT(30)
    <3>5. sent \o r.sendBuffer = ch.sendBuffer
      BY <2>1, <2>3
    <3> QED  BY <1>2, <3>3, <3>4, <3>5, Zenon
  <2>12. Window(c)'
    <3>1. r.sendcredits + (0 - 0) + Len(sent) + 0 = e.window
      BY <1>2, <1>t, <2>3
    <3>2. Len(<<>>) = 0
      OBVIOUS
    <3> QED  BY <1>2, <1>t, <2>5, <2>6, <3>1, <3>2, SMTT(30) DEF Window
  <2>13. ReplyWindow(c)'
    <3>1. /\ ch.state # 0 /\ e.state = "open" =>
               e.credits + Total(toServer, c, "data") + Total(toAmt, c, "adjust")
                 + ch.amtpendingcredits = CiraWindow
          /\ 2 * ch.amtpendingcredits <= CiraWindow
      BY <1>g DEF ReplyWindow
    <3>2. Total(toServer', c, "data") = Total(toServer, c, "data")
      BY <1>2, <1>r
    <3>3. ch.state # 0
      BY <1>2, <1>5
    <3>4. /\ channels'[c].amtpendingcredits = ch.amtpendingcredits /\ device'[c] = e
          /\ Total(toAmt', c, "adjust") = Total(toAmt, c, "adjust")
      BY <2>1, <2>3, <2>5, Zenon
    <3> QED  BY <3>1, <3>2, <3>3, <3>4, Zenon DEF ReplyWindow
  <2>14. ChannelInv(c)'
    BY <2>9, <2>10, <2>11, <2>12, <2>13, ChannelInvAre
  <2> QED  BY <1>a, <1>3, <1>r, <2>3, <2>5, <2>14, StepAdds
<1> QED  BY <1>4, <1>5

LEMMA FailureKeeps ==
    ASSUME IInv, ChannelOpenFailure, NEW m, m = Head(toServer), NEW c, c = m.ch
    PROVE  IInv'
<1> DEFINE ch == channels[c]
           e == device[c]
           w == written[c]
           r == IF ch.state > 0 THEN [ch EXCEPT !.state = 0] ELSE ch
<1>r. /\ c \in Channels /\ m \in ToServer /\ m.type = "failure"
      /\ toServer' \in Seq(ToServer) /\ ServerMoves(c) /\ Ordered(toServer')
      /\ OnTheWay(toServer, c, "failure")
      /\ \A t : OnTheWay(toServer, c, t) <=> OnTheWay(toServer', c, t) \/ t = "failure"
      /\ ~Of(toServer', c)
  BY ServerReads DEF ChannelOpenFailure, Lasts
<1>g. /\ Types /\ Ordered(toAmt) /\ Ordered(toServer) /\ TunnelsCounted /\ Fresh(c)
      /\ Opening(c) /\ Confirming(c) /\ Failing(c) /\ Waits(c) /\ Closing(c) /\ Stream(c)
      /\ Window(c) /\ ReplyWindow(c)
  BY <1>r, Given
<1>t. /\ ch \in ChannelRecord /\ e \in DeviceRecord /\ w \in Nat /\ w <= MaxWritten[c]
      /\ device = [device EXCEPT ![c] = e] /\ written = [written EXCEPT ![c] = w]
      /\ channels = [channels EXCEPT ![c] = ch]
      /\ toAmt \in Seq(ToAmt) /\ activetunnels \in Nat /\ ch.state \in 0..2
  BY <1>r, <1>g, RecordsAre, TypesAre, ChannelTypes
<1>1. /\ activetunnels' = activetunnels /\ toAmt' = toAmt
      /\ registered' = registered \/ registered' = registered \ {c}
      /\ nextchannelid' = nextchannelid /\ written' = written /\ device' = device
  BY DEF ChannelOpenFailure
<1>2. channels' = [channels EXCEPT ![c] = r]
  <2>1. CASE ch.state > 0
    BY <2>1 DEF ChannelOpenFailure
  <2>2. CASE ~(ch.state > 0)
    <3>1. channels' = channels
      BY <2>2 DEF ChannelOpenFailure
    <3> QED  BY <1>t, <2>2, <3>1
  <2> QED  BY <2>1, <2>2
<1>3. /\ r \in ChannelRecord /\ r.state = 0 /\ r.closing = ch.closing
      /\ r.amtpendingcredits = ch.amtpendingcredits
  <2>0. ch \in ChannelRecord /\ (~(ch.state > 0) => ch.state = 0)
    BY <1>t
  <2> HIDE DEF ch
  <2> QED  BY <2>0 DEF ChannelRecord
<1> HIDE DEF r
<1>4. Becomes(c, r, e, w) /\ AmtMoves(c)
  BY <1>1, <1>2, <1>t DEF Becomes, AmtMoves
<1>5. /\ Types' /\ \A d \in Channels \ {c} : Alike(d)
      /\ channels'[c] = r /\ device'[c] = e /\ written'[c] = w
      /\ nextchannelid' = nextchannelid /\ nextchannelid \in Int
  BY <1>1, <1>3, <1>4, <1>g, <1>r, <1>t, Becoming
<1>6. /\ ~Of(toAmt, c) /\ e.state = "closed" /\ c < nextchannelid
      /\ \A type : ~OnTheWay(toAmt, c, type)
      /\ \A type : ~OnTheWay(toServer', c, type)
  <2>1. ~Of(toAmt, c) /\ e.state = "closed"
    BY <1>g, <1>r DEF Failing
  <2>2. c \in registered
    BY <1>g, <1>r DEF Waits, Waiting
  <2>3. c < nextchannelid
    BY <1>g, <1>r, <2>2, ChannelTypes
  <2> QED  BY <1>r, <2>1, <2>3, NoneOf
<1>7. Control(c)'
  BY <1>1, <1>3, <1>5, <1>6, <1>r
  DEF Control, Fresh, Opening, Confirming, Failing, Waits, Waiting, Closing, Channels
<1>8. Stream(c)' /\ Window(c)' /\ ReplyWindow(c)'
  BY <1>3, <1>5, <1>6, <1>g DEF Stream, Window, ReplyWindow
<1>9. Counted(c)' <=> Counted(c)
  <2>1. ~OnTheWay(toServer, c, "close")
    BY <1>6, <1>r
  <2> QED  BY <1>5, <1>6, <2>1 DEF Counted
<1>10. ChannelInv(c)'
  BY <1>7, <1>8 DEF ChannelInv
<1>11. Ordered(toAmt')
  BY <1>1, <1>g
<1> QED  BY <1>1, <1>5, <1>9, <1>10, <1>11, <1>r, StepWithin

LEMMA ChannelCloseKeeps ==
    ASSUME IInv, ChannelClose, NEW m, m = Head(toServer), NEW c, c = m.ch
    PROVE  IInv'
<1> DEFINE ch == channels[c]
           e == device[c]
           w == written[c]
           answers == ch.state > 0
           r == IF answers THEN [ch EXCEPT !.state = 0] ELSE ch
           cl == Close(c)
<1>r. /\ c \in Channels /\ m \in ToServer /\ m.type = "close"
      /\ toServer' \in Seq(ToServer) /\ ServerMoves(c) /\ Ordered(toServer')
      /\ OnTheWay(toServer, c, "close") /\ Of(toServer, c)
      /\ \A t : OnTheWay(toServer, c, t) <=> OnTheWay(toServer', c, t) \/ t = "close"
      /\ ~Of(toServer', c)
  BY ServerReads DEF ChannelClose, Lasts
<1>g. /\ Types /\ Ordered(toAmt) /\ Ordered(toServer) /\ TunnelsCounted /\ Fresh(c)
      /\ Opening(c) /\ Confirming(c) /\ Failing(c) /\ Waits(c) /\ Closing(c) /\ Stream(c)
      /\ Window(c) /\ ReplyWindow(c)
  BY <1>r, Given
<1>t. /\ ch \in ChannelRecord /\ e \in DeviceRecord /\ w \in Nat /\ w <= MaxWritten[c]
      /\ device = [device EXCEPT ![c] = e] /\ written = [written EXCEPT ![c] = w]
      /\ channels = [channels EXCEPT ![c] = ch]
      /\ toAmt \in Seq(ToAmt) /\ activetunnels \in Nat /\ ch.state \in 0..2
  BY <1>r, <1>g, RecordsAre, TypesAre, ChannelTypes
<1>6. /\ e.state = "closed" /\ c \in registered /\ c < nextchannelid
      /\ ~OnTheWay(toAmt, c, "open") /\ ~OnTheWay(toAmt, c, "failure")
      /\ OnTheWay(toAmt, c, "close") => ~answers
      /\ \A type : ~OnTheWay(toServer', c, type)
  <2>1. e.state = "closed" /\ c \in registered
    BY <1>g, <1>r DEF Closing
  <2>2. c < nextchannelid
    BY <1>g, <1>r, <2>1, ChannelTypes
  <2>3. ~OnTheWay(toAmt, c, "open")
    BY <1>g, <1>r DEF Opening
  <2>4. ~OnTheWay(toAmt, c, "failure")
    BY <1>t, AmtNumbers
  <2>5. OnTheWay(toAmt, c, "close") => ~answers
    BY <1>g DEF Closing
  <2> HIDE DEF answers
  <2> QED  BY <1>r, <2>1, <2>2, <2>3, <2>4, <2>5, NoneOf
<1>7. Counted(c) /\ ~Counted(c)'
  <2>1. ~OnTheWay(toServer, c, "confirm")
    BY <1>6, <1>r
  <2>2. device' = device
    BY DEF ChannelClose
  <2> QED  BY <1>6, <1>r, <2>1, <2>2 DEF Counted
<1>1. /\ activetunnels' = activetunnels - 1 /\ activetunnels' \in Nat
      /\ toAmt' = IF answers THEN Append(toAmt, cl) ELSE toAmt
      /\ registered' = registered \/ registered' = registered \ {c}
      /\ nextchannelid' = nextchannelid /\ written' = written /\ device' = device
  <2>1. activetunnels \in Nat \ {0}
    BY <1>7, <1>g, <1>r, CountedIsPositive
  <2>2. activetunnels' = activetunnels - 1
    BY <1>6 DEF ChannelClose
  <2> QED  BY <1>6, <2>1, <2>2 DEF ChannelClose
<1>2. channels' = [channels EXCEPT ![c] = r]
  <2>1. CASE answers
    BY <1>6, <2>1 DEF ChannelClose
  <2>2. CASE ~answers
    <3>1. channels' = channels
      BY <2>2 DEF ChannelClose
    <3> QED  BY <1>t, <2>2, <3>1
  <2> QED  BY <2>1, <2>2
<1>3. /\ r \in ChannelRecord /\ r.state = 0 /\ r.closing = ch.closing
      /\ r.amtpendingcredits = ch.amtpendingcredits
  <2>0. ch \in ChannelRecord /\ (~(ch.state > 0) => ch.state = 0)
    BY <1>t
  <2> HIDE DEF ch
  <2> QED  BY <2>0 DEF ChannelRecord
<1>c. cl \in ToAmt /\ cl.ch = c /\ cl.type = "close"
  BY <1>r DEF Close, ToAmt
<1> HIDE DEF r, answers, cl
<1>4. Becomes(c, r, e, w) /\ AmtMoves(c)
  BY <1>1, <1>2, <1>c, <1>t DEF Becomes, AmtMoves
<1>5. /\ Types' /\ \A d \in Channels \ {c} : Alike(d)
      /\ channels'[c] = r /\ device'[c] = e /\ written'[c] = w
      /\ nextchannelid' = nextchannelid /\ nextchannelid \in Int
  BY <1>1, <1>3, <1>4, <1>g, <1>r, <1>t, Becoming
<1>8. Ordered(toAmt') /\ ~OnTheWay(toAmt', c, "open")
  <2>1. CASE answers
    <3>1. toAmt' = Append(toAmt, cl)
      BY <1>1, <2>1
    <3>2. \A type \in Lasts : ~OnTheWay(toAmt, c, type)
      BY <1>6, <2>1 DEF Lasts
    <3>3. cl.type \notin Firsts
      BY <1>c DEF Firsts
    <3>4. Ordered(toAmt')
      BY <1>c, <1>g, <1>t, <3>1, <3>2, <3>3, OrderedAppend
    <3>5. Holds(toAmt, toAmt', cl, c)
      BY <1>c, <1>t, <3>1, AmtAppend
    <3> QED  BY <1>6, <1>c, <3>4, <3>5 DEF Holds
  <2>2. CASE ~answers
    BY <1>1, <1>6, <1>g, <2>2
  <2> QED  BY <2>1, <2>2
<1>9. Control(c)'
  <2>1. Fresh(c)' /\ Opening(c)' /\ Confirming(c)' /\ Failing(c)'
    BY <1>1, <1>5, <1>6, <1>8, <1>r DEF Fresh, Opening, Confirming, Failing, Channels
  <2>2. Waits(c)' /\ Closing(c)'
    BY <1>3, <1>5, <1>6, <1>8 DEF Waits, Waiting, Closing
  <2> QED  BY <2>1, <2>2 DEF Control
<1>10. Stream(c)' /\ Window(c)' /\ ReplyWindow(c)'
  BY <1>3, <1>5, <1>6, <1>g DEF Stream, Window, ReplyWindow
<1>11. ChannelInv(c)'
  BY <1>9, <1>10 DEF ChannelInv
<1> QED  BY <1>1, <1>5, <1>7, <1>8, <1>11, <1>r, StepTakes

\* Credit that arrives is credit, or is used for what is sent.
LEMMA Balance ==
    ASSUME NEW a \in Int, NEW b \in Int, NEW s \in Int, NEW n \in Int, NEW u \in Int,
           NEW l \in Int, NEW t \in Int, NEW v, a + s = b + n, b + u + l + (t + n) = v
    PROVE  a + u + (l + s) + t = v
OBVIOUS

LEMMA AdjustKeeps ==
    ASSUME IInv, ChannelWindowAdjust, NEW m, m = Head(toServer), NEW c, c = m.ch
    PROVE  IInv'
<1> DEFINE ch == channels[c]
           e == device[c]
           w == written[c]
           credits == ch.sendcredits + m.n
<1>r. /\ c \in Channels /\ m \in ToServer /\ m.type = "adjust"
      /\ toServer' \in Seq(ToServer) /\ ServerMoves(c) /\ Ordered(toServer')
      /\ OnTheWay(toServer, c, "adjust") /\ Of(toServer, c)
      /\ \A t : OnTheWay(toServer, c, t) <=> OnTheWay(toServer', c, t) \/ t = "adjust"
      /\ \A t \in Firsts : ~OnTheWay(toServer', c, t)
      /\ Total(toServer, c, "adjust")
           = Total(toServer', c, "adjust") + NumberOf(m, c, "adjust")
      /\ Total(toServer, c, "data") = Total(toServer', c, "data") + NumberOf(m, c, "data")
      /\ Total(toServer', c, "adjust") \in Nat /\ Total(toServer', c, "data") \in Nat
  BY ServerReads DEF ChannelWindowAdjust
<1>g. /\ Types /\ Ordered(toAmt) /\ Ordered(toServer) /\ TunnelsCounted /\ Fresh(c)
      /\ Opening(c) /\ Confirming(c) /\ Failing(c) /\ Waits(c) /\ Closing(c) /\ Stream(c)
      /\ Window(c) /\ ReplyWindow(c)
  BY <1>r, Given
<1>t. /\ ch \in ChannelRecord /\ e \in DeviceRecord /\ w \in Nat /\ w <= MaxWritten[c]
      /\ device = [device EXCEPT ![c] = e] /\ written = [written EXCEPT ![c] = w]
      /\ channels = [channels EXCEPT ![c] = ch]
      /\ toAmt \in Seq(ToAmt) /\ activetunnels \in Nat /\ ch.state \in 0..2
      /\ ch.sendBuffer \in Seq(Nat) /\ e.window \in Nat /\ ch.sendcredits \in Nat
      /\ e.received \in Seq(Nat) /\ e.consumed \in Nat /\ Len(e.received) \in Nat
      /\ BytesIn(toAmt, c) \in Seq(Nat)
  BY <1>r, <1>g, RecordsAre, TypesAre, ChannelTypes, AmtNumbers
<1>n. /\ m.n \in Nat /\ NumberOf(m, c, "adjust") = m.n /\ NumberOf(m, c, "data") = 0
      /\ credits \in Nat /\ Len(BytesIn(toAmt, c)) \in Nat
  <2>1. m.n \in Nat
    BY <1>r DEF ToServer
  <2>2. NumberOf(m, c, "adjust") = m.n /\ NumberOf(m, c, "data") = 0
    BY <1>r DEF NumberOf
  <2> QED  BY <1>t, <2>1, <2>2
<1>o. /\ ~OnTheWay(toServer', c, "confirm") /\ ~OnTheWay(toServer', c, "failure")
      /\ ~OnTheWay(toAmt, c, "open") /\ ~OnTheWay(toServer, c, "confirm")
      /\ c \in registered => c < nextchannelid
      /\ Total(toServer', c, "data") = Total(toServer, c, "data")
      /\ Total(toServer, c, "adjust") = Total(toServer', c, "adjust") + m.n
  <2>1. ~OnTheWay(toServer', c, "confirm") /\ ~OnTheWay(toServer', c, "failure")
    BY <1>r DEF Firsts
  <2>2. ~OnTheWay(toAmt, c, "open")
    BY <1>g, <1>r DEF Opening
  <2>3. c \in registered => c < nextchannelid
    BY <1>g, <1>r, ChannelTypes
  <2> QED  BY <1>n, <1>r, <2>1, <2>2, <2>3
<1>f. c < nextchannelid
  BY <1>g, <1>r, <1>t, TypesAre DEF Fresh, Channels
<1>1. /\ activetunnels' = activetunnels /\ registered' = registered
      /\ nextchannelid' = nextchannelid /\ written' = written /\ device' = device
  BY DEF ChannelWindowAdjust
<1>2. Counted(c)' <=> Counted(c)
  BY <1>1, <1>o, <1>r DEF Counted
\* The credits of a channel that is not open, or is not known any more.
<1>3. CASE c \notin registered \/ ch.state # 2
  <2> DEFINE r == IF c \in registered THEN [ch EXCEPT !.sendcredits = credits] ELSE ch
  <2>1. channels' = [channels EXCEPT ![c] = r] /\ toAmt' = toAmt
    <3>1. CASE c \in registered
      BY <1>3, <3>1 DEF ChannelWindowAdjust
    <3>2. CASE c \notin registered
      <4>1. channels' = channels /\ toAmt' = toAmt
        BY <3>2 DEF ChannelWindowAdjust
      <4> QED  BY <1>t, <3>2, <4>1
    <3> QED  BY <3>1, <3>2
  <2>2. /\ r \in ChannelRecord /\ r.state = ch.state /\ r.closing = ch.closing
        /\ r.amtpendingcredits = ch.amtpendingcredits /\ r.sendBuffer = ch.sendBuffer
        /\ c \in registered => r.sendcredits = credits
    <3>0. ch \in ChannelRecord /\ credits \in Nat
      BY <1>n, <1>t
    <3> HIDE DEF ch, credits
    <3> QED  BY <3>0 DEF ChannelRecord
  <2> HIDE DEF r
  <2>3. Becomes(c, r, e, w) /\ AmtMoves(c)
    BY <1>1, <1>t, <2>1 DEF Becomes, AmtMoves
  <2>4. /\ Types' /\ \A d \in Channels \ {c} : Alike(d)
        /\ channels'[c] = r /\ device'[c] = e /\ written'[c] = w
        /\ nextchannelid' = nextchannelid /\ nextchannelid \in Int
    BY <1>1, <1>g, <1>r, <1>t, <2>2, <2>3, Becoming
  <2>5. Control(c)'
    <3>1. Fresh(c)' /\ Opening(c)' /\ Confirming(c)' /\ Failing(c)'
      BY <1>1, <1>f, <1>o, <1>r, <2>1, <2>4 DEF Fresh, Opening, Confirming, Failing, Channels
    <3>2. Waits(c)' /\ Closing(c)'
      BY <1>1, <1>g, <1>o, <1>r, <2>1, <2>2, <2>4 DEF Waits, Waiting, Closing
    <3> QED  BY <3>1, <3>2 DEF Control
  <2>6. Stream(c)' /\ ReplyWindow(c)'
    BY <1>g, <1>o, <2>1, <2>2, <2>4 DEF Stream, ReplyWindow
  <2>7. Window(c)'
    <3>1. SUFFICES ASSUME e.state = "open"
                   PROVE  /\ e.consumed <= Len(e.received)
                          /\ r.sendcredits + (Len(e.received) - e.consumed)
                               + Len(BytesIn(toAmt, c)) + Total(toServer', c, "adjust")
                               = e.window
      BY <2>1, <2>4 DEF Window
    <3>2. /\ e.consumed <= Len(e.received)
          /\ ch.sendcredits + (Len(e.received) - e.consumed)
               + Len(BytesIn(toAmt, c)) + Total(toServer, c, "adjust") = e.window
      BY <1>g, <1>o, <3>1 DEF Window
    <3>3. r.sendcredits = ch.sendcredits + m.n
      BY <1>g, <2>2, <3>1 DEF Closing
    <3>4. /\ Total(toServer', c, "adjust") \in Nat /\ ch.sendcredits \in Nat
          /\ e.consumed \in Nat /\ Len(e.received) \in Nat /\ m.n \in Nat
      BY <1>n, <1>r, <1>t
    <3>5. /\ Total(toServer, c, "adjust") = Total(toServer', c, "adjust") + m.n
          /\ Len(BytesIn(toAmt, c)) \in Nat
      BY <1>n, <1>o
    <3> HIDE DEF ch, e
    <3> QED  BY <3>2, <3>3, <3>4, <3>5
  <2>8. ChannelInv(c)'
    BY <2>5, <2>6, <2>7 DEF ChannelInv
  <2>9. Ordered(toAmt')
    BY <1>g, <2>1
  <2> QED  BY <1>1, <1>2, <1>r, <2>4, <2>8, <2>9, StepWithin
\* An open channel sends what its buffer holds.
<1>4. CASE c \in registered /\ ch.state = 2
  <2>1. Flush(c, ch, credits)
    BY <1>4 DEF ChannelWindowAdjust
  <2>2. /\ \A type \in Lasts : ~OnTheWay(toAmt, c, type)
        /\ e.state # "none" /\ ~ch.closing
    BY <1>4, <1>r, StatesAre
  <2>p. PICK r \in ChannelRecord, sent \in Seq(Nat) : Flushed(c, ch, credits, r, sent)
    <3>1. /\ toAmt \in Seq(ToAmt) /\ Ordered(toAmt) /\ c \in Channels /\ credits \in Nat
          /\ ch \in ChannelRecord
      BY <1>g, <1>n, <1>r, <1>t
    <3> HIDE DEF ch, credits
    <3> QED  BY <2>1, <2>2, <3>1, Flushing
  <2>3. /\ channels' = [channels EXCEPT ![c] = r]
        /\ r.state = 2 /\ r.closing = ch.closing
        /\ r.amtpendingcredits = ch.amtpendingcredits
        /\ r.sendcredits \in Nat /\ r.sendcredits + Len(sent) = credits
        /\ r.sendBuffer \in Seq(Nat) /\ sent \o r.sendBuffer = ch.sendBuffer
        /\ BytesIn(toAmt', c) = BytesIn(toAmt, c) \o sent
        /\ Total(toAmt', c, "adjust") = Total(toAmt, c, "adjust")
        /\ \A type : type # "data" =>
              (OnTheWay(toAmt', c, type) <=> OnTheWay(toAmt, c, type))
        /\ AmtMoves(c) /\ Ordered(toAmt')
    <3> HIDE DEF ch, credits
    <3> QED  BY <1>4, <2>p DEF Flushed
  <2>s. r \in ChannelRecord /\ sent \in Seq(Nat) /\ AmtMoves(c)
    BY <2>3
  <2>4. Becomes(c, r, e, w)
    BY <1>1, <1>t, <2>3 DEF Becomes
  <2>5. /\ Types' /\ \A d \in Channels \ {c} : Alike(d)
        /\ channels'[c] = r /\ device'[c] = e /\ written'[c] = w
        /\ nextchannelid' = nextchannelid /\ nextchannelid \in Int
    BY <1>1, <1>g, <1>r, <1>t, <2>s, <2>4, Becoming
  <2>6. ~OnTheWay(toAmt', c, "open") /\ ~OnTheWay(toAmt', c, "close")
    BY <2>2, <2>3 DEF Lasts
  <2>7. Control(c)'
    <3>1. Fresh(c)' /\ Opening(c)' /\ Confirming(c)' /\ Failing(c)'
      BY <1>1, <1>f, <1>o, <1>r, <2>5, <2>6 DEF Fresh, Opening, Confirming, Failing, Channels
    <3>2. Waits(c)'
      BY <1>o, <2>2, <2>3, <2>5, <2>6, SMTT(30) DEF Waits, Waiting
    <3>3. Closing(c)'
      BY <1>1, <1>4, <1>g, <1>r, <2>2, <2>3, <2>5, <2>6 DEF Closing
    <3> QED  BY <3>1, <3>2, <3>3 DEF Control
  <2>8. Stream(c)'
    <3>1. SUFFICES ASSUME e.state # "closed"
                   PROVE  e.received \o (BytesIn(toAmt, c) \o sent) \o r.sendBuffer
                            = [i \in 1..w |-> i]
      BY <2>3, <2>5 DEF Stream
    <3>2. e.received \o BytesIn(toAmt, c) \o ch.sendBuffer = [i \in 1..w |-> i]
      <4>1. ch.state # 0
        BY <1>4
      <4> QED  BY <1>g, <3>1, <4>1, Zenon DEF Stream
    <3> DEFINE u == e.received \o BytesIn(toAmt, c)
    <3>3. u \in Seq(Nat)
      BY <1>t, Joined
    <3>4. e.received \o (BytesIn(toAmt, c) \o sent) = u \o sent
      <4>1. /\ e.received \in Seq(Nat) /\ BytesIn(toAmt, c) \in Seq(Nat)
            /\ sent \in Seq(Nat)
        BY <1>t, <2>s
      <4> HIDE DEF e
      <4> QED  BY <4>1, Associative
    <3> HIDE DEF u
    <3>5. (u \o sent) \o r.sendBuffer = u \o (sent \o r.sendBuffer)
      BY <2>3, <3>3, Associative
    <3>6. u \o ch.sendBuffer = [i \in 1..w |-> i]
      BY <3>2 DEF u
    <3> QED  BY <2>3, <3>4, <3>5, <3>6, Zenon
  <2>9. Window(c)'
    <3>1. SUFFICES ASSUME e.state = "open"
                   PROVE  /\ e.consumed <= Len(e.received)
                          /\ r.sendcredits + (Len(e.received) - e.consumed)
                               + Len(BytesIn(toAmt', c)) + Total(toServer', c, "adjust")
                               = e.window
      BY <2>5 DEF Window
    <3>2. /\ e.consumed <= Len(e.received)
          /\ ch.sendcredits + (Len(e.received) - e.consumed)
               + Len(BytesIn(toAmt, c)) + Total(toServer, c, "adjust") = e.window
      BY <1>g, <1>o, <3>1 DEF Window
    <3>3. Len(BytesIn(toAmt', c)) = Len(BytesIn(toAmt, c)) + Len(sent) /\ Len(sent) \in Nat
      BY <1>t, <2>3, Joined, SMTT(30)
    <3>4. /\ Total(toServer', c, "adjust") \in Nat /\ ch.sendcredits \in Nat
          /\ e.consumed \in Nat /\ Len(e.received) \in Nat /\ m.n \in Nat
          /\ r.sendcredits + Len(sent) = ch.sendcredits + m.n /\ r.sendcredits \in Nat
      BY <1>n, <1>r, <1>t, <2>3
    <3>5. /\ Total(toServer, c, "adjust") = Total(toServer', c, "adjust") + m.n
          /\ Len(BytesIn(toAmt, c)) \in Nat
      BY <1>n, <1>o
    <3> HIDE DEF ch, e
    <3>6. /\ Len(e.received) - e.consumed \in Int /\ Len(BytesIn(toAmt, c)) \in Int
          /\ ch.sendcredits \in Int /\ r.sendcredits \in Int /\ m.n \in Int
          /\ Len(sent) \in Int /\ Total(toServer', c, "adjust") \in Int
      BY <3>3, <3>4, <3>5
    <3>7. ch.sendcredits + (Len(e.received) - e.consumed)
            + Len(BytesIn(toAmt, c)) + (Total(toServer', c, "adjust") + m.n) = e.window
      BY <3>2, <3>5, Zenon
    <3>8. r.sendcredits + Len(sent) = ch.sendcredits + m.n
      BY <3>4
    <3>9. r.sendcredits + (Len(e.received) - e.consumed)
            + (Len(BytesIn(toAmt, c)) + Len(sent)) + Total(toServer', c, "adjust") = e.window
      <4> DEFINE a == r.sendcredits
                 b == ch.sendcredits
                 k == Len(sent)
                 n == m.n
                 u == Len(e.received) - e.consumed
                 l == Len(BytesIn(toAmt, c))
                 t == Total(toServer', c, "adjust")
      <4>1. /\ a \in Int /\ b \in Int /\ k \in Int /\ n \in Int /\ u \in Int /\ l \in Int
            /\ t \in Int /\ a + k = b + n /\ b + u + l + (t + n) = e.window
        BY <3>6, <3>7, <3>8, Zenon
      <4> HIDE DEF a, b, k, n, u, l, t
      <4>2. a + u + (l + k) + t = e.window
        BY <4>1, Balance
      <4> QED  BY <4>2, Zenon DEF a, k, u, l, t
    <3> QED  BY <3>2, <3>3, <3>9, Zenon
  <2>10. ReplyWindow(c)'
    BY <1>4, <1>g, <1>o, <2>3, <2>5 DEF ReplyWindow
  <2>11. ChannelInv(c)'
    BY <2>7, <2>8, <2>9, <2>10 DEF ChannelInv
  <2> QED  BY <1>1, <1>2, <1>r, <2>3, <2>5, <2>11, StepWithin
<1> QED  BY <1>3, <1>4

LEMMA DataKeeps ==
    ASSUME IInv, ChannelData, NEW m, m = Head(toServer), NEW c, c = m.ch
    PROVE  IInv'
<1> DEFINE ch == channels[c]
           e == device[c]
           w == written[c]
           pending == ch.amtpendingcredits + m.n
           giveBack == 2 * pending > CiraWindow
           takes == c \in registered /\ ch.state > 0
           r == IF takes THEN [ch EXCEPT !.amtpendingcredits = IF giveBack THEN 0 ELSE pending]
                ELSE ch
           a == Adjust(c, pending)
<1>r. /\ c \in Channels /\ m \in ToServer /\ m.type = "data"
      /\ toServer' \in Seq(ToServer) /\ ServerMoves(c) /\ Ordered(toServer')
      /\ OnTheWay(toServer, c, "data") /\ Of(toServer, c)
      /\ \A t : OnTheWay(toServer, c, t) <=> OnTheWay(toServer', c, t) \/ t = "data"
      /\ \A t \in Firsts : ~OnTheWay(toServer', c, t)
      /\ Total(toServer, c, "adjust")
           = Total(toServer', c, "adjust") + NumberOf(m, c, "adjust")
      /\ Total(toServer, c, "data") = Total(toServer', c, "data") + NumberOf(m, c, "data")
      /\ Total(toServer', c, "adjust") \in Nat /\ Total(toServer', c, "data") \in Nat
  BY ServerReads DEF ChannelData
<1>g. /\ Types /\ Ordered(toAmt) /\ Ordered(toServer) /\ TunnelsCounted /\ Fresh(c)
      /\ Opening(c) /\ Confirming(c) /\ Failing(c) /\ Waits(c) /\ Closing(c) /\ Stream(c)
      /\ Window(c) /\ ReplyWindow(c)
  BY <1>r, Given
<1>t. /\ ch \in ChannelRecord /\ e \in DeviceRecord /\ w \in Nat /\ w <= MaxWritten[c]
      /\ device = [device EXCEPT ![c] = e] /\ written = [written EXCEPT ![c] = w]
      /\ channels = [channels EXCEPT ![c] = ch]
      /\ toAmt \in Seq(ToAmt) /\ activetunnels \in Nat /\ ch.state \in 0..2
      /\ ch.amtpendingcredits \in Nat /\ e.credits \in Nat /\ CiraWindow \in Nat
      /\ BytesIn(toAmt, c) \in Seq(Nat) /\ Total(toAmt, c, "adjust") \in Nat
  <2>1. CiraWindow \in Nat
    BY WindowAssumption
  <2>2. ch.amtpendingcredits \in 0..CiraWindow /\ ch.state \in 0..2 /\ e.credits \in Nat
    BY <1>r, <1>g, ChannelTypes
  <2>3. ch.amtpendingcredits \in Nat
    BY <2>1, <2>2
  <2> QED  BY <1>r, <1>g, <2>1, <2>2, <2>3, RecordsAre, TypesAre, AmtNumbers
<1>n. /\ m.n \in Nat /\ NumberOf(m, c, "adjust") = 0 /\ NumberOf(m, c, "data") = m.n
      /\ pending \in Nat
  <2>1. m.n \in Nat
    BY <1>r DEF ToServer
  <2>2. NumberOf(m, c, "adjust") = 0 /\ NumberOf(m, c, "data") = m.n
    BY <1>r DEF NumberOf
  <2> QED  BY <1>t, <2>1, <2>2
<1>o. /\ ~OnTheWay(toServer', c, "confirm") /\ ~OnTheWay(toServer', c, "failure")
      /\ ~OnTheWay(toAmt, c, "open") /\ ~OnTheWay(toAmt, c, "failure")
      /\ ~OnTheWay(toServer, c, "confirm") /\ c < nextchannelid
      /\ Total(toServer', c, "adjust") = Total(toServer, c, "adjust")
      /\ Total(toServer, c, "data") = Total(toServer', c, "data") + m.n
  <2>1. ~OnTheWay(toServer', c, "confirm") /\ ~OnTheWay(toServer', c, "failure")
    BY <1>r DEF Firsts
  <2>2. ~OnTheWay(toAmt, c, "open")
    BY <1>g, <1>r DEF Opening
  <2>3. c < nextchannelid
    BY <1>g, <1>r, <1>t, TypesAre DEF Fresh, Channels
  <2>4. ~OnTheWay(toAmt, c, "failure")
    BY <1>t, AmtNumbers
  <2> QED  BY <1>n, <1>r, <2>1, <2>2, <2>3, <2>4
<1>1. /\ activetunnels' = activetunnels /\ registered' = registered
      /\ nextchannelid' = nextchannelid /\ written' = written /\ device' = device
  BY DEF ChannelData
<1>2. /\ channels' = [channels EXCEPT ![c] = r]
      /\ toAmt' = IF takes /\ giveBack THEN Append(toAmt, a) ELSE toAmt
  <2>1. CASE takes
    BY <2>1 DEF ChannelData
  <2>2. CASE ~takes
    <3>1. channels' = channels /\ toAmt' = toAmt
      BY <2>2 DEF ChannelData
    <3> QED  BY <1>t, <2>2, <3>1
  <2> QED  BY <2>1, <2>2
<1>3. /\ r \in ChannelRecord /\ r.state = ch.state /\ r.closing = ch.closing
      /\ r.sendcredits = ch.sendcredits /\ r.sendBuffer = ch.sendBuffer
      /\ r.amtpendingcredits = IF takes THEN (IF giveBack THEN 0 ELSE pending)
                               ELSE ch.amtpendingcredits
  <2>0. ch \in ChannelRecord /\ pending \in Nat /\ CiraWindow \in Nat
    BY <1>n, <1>t
  <2>1. (IF giveBack THEN 0 ELSE pending) \in 0..CiraWindow
    BY <2>0
  <2> HIDE DEF ch, pending, giveBack, takes
  <2> QED  BY <2>0, <2>1 DEF ChannelRecord
<1>c. a \in ToAmt /\ a.ch = c /\ a.type = "adjust" /\ a.n = pending
  <2> HIDE DEF pending
  <2> QED  BY <1>n, <1>r DEF Adjust, ToAmt
\* What the server gives back is on its way.
<1>4. /\ Total(toAmt', c, "adjust")
            = Total(toAmt, c, "adjust") + (IF takes /\ giveBack THEN pending ELSE 0)
      /\ BytesIn(toAmt', c) = BytesIn(toAmt, c)
      /\ Ordered(toAmt') /\ AmtMoves(c)
      /\ \A type : type # "adjust" =>
            (OnTheWay(toAmt', c, type) <=> OnTheWay(toAmt, c, type))
      /\ Of(toAmt', c) <=> Of(toAmt, c) \/ (takes /\ giveBack)
  <2>1. CASE takes /\ giveBack
    <3>1. toAmt' = Append(toAmt, a)
      BY <1>2, <2>1
    <3>2. \A type \in Lasts : ~OnTheWay(toAmt, c, type)
      BY <1>g, <1>o, <2>1 DEF Closing, Lasts
    <3> HIDE DEF r, takes, giveBack, pending, a, ch
    <3>3. a.type \notin Firsts
      BY <1>c DEF Firsts
    <3>4. Ordered(toAmt')
      BY <1>c, <1>g, <1>t, <3>1, <3>2, <3>3, OrderedAppend
    <3>5. /\ Holds(toAmt, toAmt', a, c)
          /\ BytesIn(toAmt', c) = BytesIn(toAmt, c) \o BytesOf(a, c)
      BY <1>c, <1>t, <3>1, AmtAppend, ZenonT(30)
    <3>6. BytesOf(a, c) = <<>> /\ NumberOf(a, c, "adjust") = pending
      BY <1>c DEF BytesOf, NumberOf
    <3>7. BytesIn(toAmt, c) \o <<>> = BytesIn(toAmt, c)
      BY <1>t, Seqs!ConcatEmptySeq
    <3>8. BytesIn(toAmt', c) = BytesIn(toAmt, c)
      BY <3>5, <3>6, <3>7, Zenon
    <3>9. AmtMoves(c)
      BY <1>c, <3>1 DEF AmtMoves
    <3> QED  BY <1>c, <2>1, <3>4, <3>5, <3>6, <3>8, <3>9 DEF Holds
  <2>2. CASE ~(takes /\ giveBack)
    <3>1. toAmt' = toAmt
      BY <1>2, <2>2
    <3>2. AmtMoves(c)
      BY <3>1 DEF AmtMoves
    <3> HIDE DEF r, takes, giveBack, pending, a, ch
    <3> QED  BY <1>g, <1>t, <2>2, <3>1, <3>2
  <2> QED  BY <2>1, <2>2
<1>s. takes => c \in registered /\ ch.state # 0 /\ e.state # "none"
  <2>1. ch.state = 2 => e.state # "none"
    BY <1>r, StatesAre
  <2>2. ch.state = 1 => FALSE
    BY <1>g, <1>o, <1>r DEF Waits, Waiting, Failing, Firsts
  <2> QED  BY <1>t, <2>1, <2>2
<1>p. /\ takes /\ e.state = "open" =>
            e.credits + Total(toServer', c, "data") + Total(toAmt', c, "adjust")
              + r.amtpendingcredits = CiraWindow
      /\ 2 * r.amtpendingcredits <= CiraWindow
  <2>1. 2 * ch.amtpendingcredits <= CiraWindow
    BY <1>g DEF ReplyWindow
  <2>2. 2 * r.amtpendingcredits <= CiraWindow
    BY <1>3, <1>n, <1>t, <2>1
  <2>3. ASSUME takes, e.state = "open"
        PROVE  e.credits + Total(toServer', c, "data") + Total(toAmt', c, "adjust")
                 + r.amtpendingcredits = CiraWindow
    <3>1. e.credits + Total(toServer, c, "data") + Total(toAmt, c, "adjust")
            + ch.amtpendingcredits = CiraWindow
      BY <1>g, <1>s, <2>3 DEF ReplyWindow
    <3>2. Total(toAmt', c, "adjust") + r.amtpendingcredits
            = Total(toAmt, c, "adjust") + ch.amtpendingcredits + m.n
      <4> DEFINE k == Total(toAmt, c, "adjust")
                 k2 == Total(toAmt', c, "adjust")
                 p == ch.amtpendingcredits
                 p2 == r.amtpendingcredits
                 n == m.n
      <4>1. /\ k \in Nat /\ p \in Nat /\ n \in Nat /\ pending = p + n
            /\ k2 = k + (IF giveBack THEN pending ELSE 0)
            /\ p2 = IF giveBack THEN 0 ELSE pending
        <5>1. k \in Nat /\ p \in Nat /\ n \in Nat /\ pending = p + n
          BY <1>n, <1>t
        <5>2. takes
          BY <2>3
        <5> HIDE DEF takes, giveBack, pending, r, ch
        <5>3. /\ Total(toAmt', c, "adjust")
                   = Total(toAmt, c, "adjust") + (IF giveBack THEN pending ELSE 0)
              /\ r.amtpendingcredits = IF giveBack THEN 0 ELSE pending
          BY <1>3, <1>4, <5>2
        <5> QED  BY <5>1, <5>3
      <4> HIDE DEF k, k2, p, p2, n, pending, giveBack
      <4>2. k2 + p2 = k + p + n
        BY <4>1
      <4> QED  BY <4>2, Zenon DEF k, k2, p, p2, n
    <3>3. r.amtpendingcredits \in Nat /\ Total(toAmt', c, "adjust") \in Nat
      BY <1>3, <1>4, <1>n, <1>t, <2>3, SMTT(30)
    <3> DEFINE x == e.credits
               d == Total(toServer, c, "data")
               d2 == Total(toServer', c, "data")
               k == Total(toAmt, c, "adjust")
               k2 == Total(toAmt', c, "adjust")
               p == ch.amtpendingcredits
               p2 == r.amtpendingcredits
               n == m.n
    <3>4. /\ x \in Nat /\ d2 \in Nat /\ k \in Nat /\ k2 \in Nat /\ p \in Nat /\ p2 \in Nat
          /\ n \in Nat /\ d = d2 + n /\ x + d + k + p = CiraWindow /\ k2 + p2 = k + p + n
      BY <1>n, <1>o, <1>r, <1>t, <3>1, <3>2, <3>3, Zenon
    <3> HIDE DEF x, d, d2, k, k2, p, p2, n
    <3>5. x + d2 + k2 + p2 = CiraWindow
      BY <3>4
    <3> QED  BY <3>5, Zenon DEF x, d2, k2, p2
  <2> QED  BY <2>2, <2>3
<1> HIDE DEF r, takes, giveBack, pending, a
<1>5. Becomes(c, r, e, w)
  BY <1>1, <1>2, <1>t DEF Becomes
<1>6. /\ Types' /\ \A d \in Channels \ {c} : Alike(d)
      /\ channels'[c] = r /\ device'[c] = e /\ written'[c] = w
      /\ nextchannelid' = nextchannelid /\ nextchannelid \in Int
  BY <1>1, <1>3, <1>4, <1>5, <1>g, <1>r, <1>t, Becoming
<1>7. Fresh(c)' /\ Opening(c)' /\ Confirming(c)' /\ Failing(c)'
  BY <1>1, <1>4, <1>6, <1>o, <1>r DEF Fresh, Opening, Confirming, Failing, Channels
<1>8. Waits(c)' /\ Closing(c)'
  BY <1>1, <1>3, <1>4, <1>6, <1>g, <1>o, <1>r, <1>s DEF Waits, Waiting, Closing
<1>9. Stream(c)' /\ Window(c)'
  BY <1>1, <1>3, <1>4, <1>6, <1>g, <1>o DEF Stream, Window
<1>10. ReplyWindow(c)'
  <2>1. r.state # 0 /\ e.state = "open" => takes
    BY <1>3, <1>g, <1>t DEF Closing, takes
  <2> QED  BY <1>6, <1>p, <2>1 DEF ReplyWindow
<1>11. ChannelInv(c)'
  BY <1>7, <1>8, <1>9, <1>10, ChannelInvAre
<1>12. Counted(c)' <=> Counted(c)
  BY <1>1, <1>o, <1>r DEF Counted
<1> QED  BY <1>1, <1>4, <1>6, <1>11, <1>12, <1>r, StepWithin

-----------------------------------------------------------------------------
\* What the device reads was on its way, and is not any more.
LEMMA AmtReads ==
    ASSUME IInv, toAmt # <<>>, toAmt' = Tail(toAmt), NEW m, m = Head(toAmt), NEW c, c = m.ch
    PROVE  /\ c \in Channels /\ m \in ToAmt
           /\ toAmt' \in Seq(ToAmt) /\ AmtMoves(c) /\ Ordered(toAmt')
           /\ OnTheWay(toAmt, c, m.type) /\ Of(toAmt, c)
           /\ \A t : OnTheWay(toAmt, c, t) <=> OnTheWay(toAmt', c, t) \/ t = m.type
           /\ \A t \in Firsts : ~OnTheWay(toAmt', c, t)
           /\ m.type \in Lasts => ~Of(toAmt', c)
           /\ Total(toAmt, c, "adjust")
                = Total(toAmt', c, "adjust") + NumberOf(m, c, "adjust")
           /\ Total(toAmt', c, "adjust") \in Nat
           /\ BytesIn(toAmt, c) = BytesOf(m, c) \o BytesIn(toAmt', c)
           /\ BytesIn(toAmt', c) \in Seq(Nat)
<1>1. toAmt \in Seq(ToAmt) /\ Ordered(toAmt)
  BY Given, TypesAre DEF IInv
<1>2. /\ toAmt' \in Seq(ToAmt) /\ m \in ToAmt /\ Holds(toAmt', toAmt, m, c)
      /\ BytesIn(toAmt, c) = BytesOf(m, c) \o BytesIn(toAmt', c)
  BY <1>1, AmtTail
<1>3. c \in Channels
  BY <1>2 DEF ToAmt
<1>4. AmtMoves(c)
  BY DEF AmtMoves
<1>5. /\ Ordered(toAmt')
      /\ m.type \in Lasts => ~Of(toAmt', c)
      /\ \A t \in Firsts : ~OnTheWay(toAmt', c, t)
  BY <1>1, OrderedTail
<1>6. Total(toAmt', c, "adjust") \in Nat /\ BytesIn(toAmt', c) \in Seq(Nat)
  BY <1>2, AmtNumbers
<1>7. /\ \A t : OnTheWay(toAmt, c, t) <=> OnTheWay(toAmt', c, t) \/ t = m.type
      /\ Of(toAmt, c) /\ OnTheWay(toAmt, c, m.type)
      /\ Total(toAmt, c, "adjust") = Total(toAmt', c, "adjust") + NumberOf(m, c, "adjust")
  BY <1>2 DEF Holds
<1> QED  BY <1>1, <1>2, <1>3, <1>4, <1>5, <1>6, <1>7, Zenon

\* The device's steps leave the server as it is.
LEMMA DeviceStep ==
    ASSUME Types, NEW c \in Channels, NEW e \in DeviceRecord,
           device' = [device EXCEPT ![c] = e], UNCHANGED serverVars,
           AmtMoves(c), ServerMoves(c)
    PROVE  /\ Types' /\ \A d \in Channels \ {c} : Alike(d)
           /\ channels'[c] = channels[c] /\ device'[c] = e /\ written'[c] = written[c]
           /\ nextchannelid' = nextchannelid /\ nextchannelid \in Int
           /\ registered' = registered /\ activetunnels' = activetunnels
<1>1. /\ nextchannelid' = nextchannelid /\ channels' = channels /\ registered' = registered
      /\ activetunnels' = activetunnels /\ written' = written
  BY DEF serverVars
<1>2. Becomes(c, channels[c], e, written[c])
  BY <1>1, RecordsAre DEF Becomes
<1>3. activetunnels' \in Nat
  BY <1>1, TypesAre
<1> QED  BY <1>1, <1>2, <1>3, RecordsAre, Becoming

\* The device accepts a channel, or refuses it.
LEMMA AcceptKeeps ==
    ASSUME IInv, toAmt # <<>>, toAmt' = Tail(toAmt), NEW m, m = Head(toAmt),
           NEW c, c = m.ch, m.type = "open", NEW n \in AmtWindows,
           device' = [device EXCEPT ![c] = [NoEnd EXCEPT !.state = "open", !.window = n,
                                                         !.credits = CiraWindow]],
           toServer' = Append(toServer, Confirm(c, n)), UNCHANGED serverVars
    PROVE  IInv'
<1> DEFINE ch == channels[c]
           e == [NoEnd EXCEPT !.state = "open", !.window = n, !.credits = CiraWindow]
           w == written[c]
           k == Confirm(c, n)
<1>r. /\ c \in Channels
      /\ toAmt' \in Seq(ToAmt) /\ AmtMoves(c) /\ Ordered(toAmt')
      /\ OnTheWay(toAmt, c, "open") /\ Of(toAmt, c) /\ ~Of(toAmt', c)
      /\ BytesIn(toAmt, c) = BytesOf(m, c) \o BytesIn(toAmt', c)
      /\ BytesIn(toAmt', c) \in Seq(Nat)
  BY AmtReads DEF Lasts
<1>g. /\ Types /\ Ordered(toAmt) /\ Ordered(toServer) /\ TunnelsCounted /\ Fresh(c)
      /\ Opening(c) /\ Confirming(c) /\ Failing(c) /\ Waits(c) /\ Closing(c) /\ Stream(c)
      /\ Window(c) /\ ReplyWindow(c)
  BY <1>r, Given
<1>t. /\ toServer \in Seq(ToServer) /\ n \in Nat /\ CiraWindow \in Nat
      /\ ch.state \in 0..2 /\ ch.sendBuffer \in Seq(Nat)
  BY <1>r, <1>g, TypesAre, ChannelTypes, WindowAssumption
<1>1. /\ e.state = "open" /\ e.window = n /\ e.received = <<>> /\ e.consumed = 0
      /\ e.credits = CiraWindow /\ e \in DeviceRecord
  <2>1. <<>> \in Seq(Nat)
    OBVIOUS
  <2> QED  BY <1>t, <2>1 DEF NoEnd, DeviceRecord
<1>2. k \in ToServer /\ k.ch = c /\ k.type = "confirm" /\ k.n = n
  BY <1>r, <1>t DEF Confirm, ToServer
<1>d. device' = [device EXCEPT ![c] = e] /\ toServer' = Append(toServer, k)
  OBVIOUS
<1> HIDE DEF e, k
<1>3. ServerMoves(c)
  BY <1>2, <1>d DEF ServerMoves
<1>4. /\ Types' /\ \A d \in Channels \ {c} : Alike(d)
      /\ channels'[c] = ch /\ device'[c] = e /\ written'[c] = w
      /\ nextchannelid' = nextchannelid /\ nextchannelid \in Int
      /\ registered' = registered /\ activetunnels' = activetunnels
  BY <1>1, <1>3, <1>d, <1>g, <1>r, DeviceStep
<1>5. /\ ~Of(toServer, c) /\ device[c] = NoEnd /\ device[c].received = <<>>
      /\ device[c].state = "none"
      /\ ch.amtpendingcredits = 0 /\ c \in registered /\ c < nextchannelid
      /\ ch.state = 1 \/ (ch.state = 0 /\ ch.closing)
      /\ \A type : ~OnTheWay(toServer, c, type)
      /\ \A type : ~OnTheWay(toAmt', c, type)
  <2>1. ~Of(toServer, c) /\ device[c] = NoEnd /\ ch.amtpendingcredits = 0
    BY <1>g, <1>r DEF Opening
  <2>2. c \in registered /\ (ch.state = 1 \/ (ch.state = 0 /\ ch.closing))
    BY <1>g, <1>r DEF Waits, Waiting
  <2>3. c < nextchannelid
    BY <1>g, <1>r, <2>2, ChannelTypes
  <2>4. device[c].received = <<>> /\ device[c].state = "none"
    BY <2>1 DEF NoEnd
  <2> QED  BY <1>r, <2>1, <2>2, <2>3, <2>4, NoneOf
<1>6. /\ \A type : OnTheWay(toServer', c, type) <=> type = "confirm"
      /\ Announces(toServer', c, n)
      /\ Ordered(toServer')
      /\ toServer' \in Seq(ToServer)
  <2>1. Holds(toServer, toServer', k, c) /\ toServer' \in Seq(ToServer)
    BY <1>2, <1>d, <1>t, ServerAppend
  <2>2. Announces(toServer, c, n)
    BY <1>5, NoneOf
  <2>3. Ordered(toServer')
    BY <1>2, <1>5, <1>d, <1>g, <1>t, OrderedAppend
  <2> QED  BY <1>2, <1>5, <2>1, <2>2, <2>3 DEF Holds
<1>7. /\ Total(toServer', c, "data") = 0 /\ Total(toAmt', c, "adjust") = 0
      /\ BytesIn(toAmt', c) = <<>>
  <2>1. Len(toServer') \in Nat /\ Len(toAmt') \in Nat
    BY <1>6, <1>r, AmtNumbers, ServerNumbers, Zenon
  <2>2. ~OnTheWay(toServer', c, "data")
    BY <1>6
  <2>3. Total(toServer', c, "data") = 0
    BY <2>1, <2>2, TotalOfNone, Zenon
  <2>4. Total(toAmt', c, "adjust") = 0
    BY <1>5, <2>1, TotalOfNone, Zenon
  <2>5. BytesIn(toAmt', c) = <<>>
    BY <1>5, <2>1, BytesOfNone, Zenon
  <2> QED  BY <2>3, <2>4, <2>5
<1>8. Fresh(c)' /\ Opening(c)' /\ Confirming(c)' /\ Failing(c)'
  <2>1. Fresh(c)' /\ Opening(c)' /\ Failing(c)'
    BY <1>4, <1>5, <1>6, <1>r DEF Fresh, Opening, Failing, Channels
  <2>2. Announces(toServer', c, device'[c].window)
    BY <1>1, <1>4, <1>6
  <2>3. /\ device'[c].state = "open" /\ device'[c].received = <<>> /\ device'[c].consumed = 0
        /\ ~Of(toAmt', c) /\ ~OnTheWay(toServer', c, "adjust")
    <3>1. ~OnTheWay(toServer', c, "adjust")
      BY <1>6
    <3> QED  BY <1>1, <1>4, <1>r, <3>1, Zenon
  <2>4. Confirming(c)'
    BY <2>2, <2>3 DEF Confirming
  <2> QED  BY <2>1, <2>4
<1>9. Waits(c)' /\ Closing(c)'
  <2>1. OnTheWay(toServer', c, "confirm") /\ ~OnTheWay(toServer', c, "close")
    BY <1>6
  <2>2. device'[c].state = "open" /\ channels'[c] = channels[c] /\ registered' = registered
    BY <1>1, <1>4
  <2>3. ~channels[c].closing \/ channels[c].state = 0
    BY <1>g DEF Waits
  <2>4. /\ c \in registered /\ (ch.state = 1 \/ (ch.state = 0 /\ ch.closing))
        /\ ~OnTheWay(toAmt', c, "close")
    BY <1>5
  <2>5. Waits(c)'
    BY <2>1, <2>2, <2>3, <2>4 DEF Waits, Waiting
  <2>6. device'[c].state # "none" /\ channels'[c].state # 2
    BY <2>2, <2>4
  <2>7. Closing(c)'
    BY <2>1, <2>2, <2>4, <2>6, Zenon DEF Closing
  <2> QED  BY <2>5, <2>7
<1>10. Stream(c)'
  <2>1. SUFFICES ASSUME ch.state # 0
                 PROVE  <<>> \o <<>> \o ch.sendBuffer = [i \in 1..w |-> i]
    BY <1>1, <1>4, <1>7 DEF Stream
  <2>2. BytesIn(toAmt, c) = <<>>
    <3>1. BytesOf(m, c) = <<>>
      BY DEF BytesOf
    <3>2. <<>> \o <<>> = <<>>
      OBVIOUS
    <3> QED  BY <1>7, <1>r, <3>1, <3>2, Zenon
  <2>3. device[c].state # "closed"
    BY <1>5
  <2>4. device[c].received \o BytesIn(toAmt, c) \o ch.sendBuffer = [i \in 1..w |-> i]
    BY <1>g, <2>1, <2>3, Zenon DEF Stream
  <2> QED  BY <1>5, <2>2, <2>4, Zenon
<1>11. Window(c)' /\ ReplyWindow(c)'
  <2>1. Len(<<>>) = 0
    OBVIOUS
  <2>2. Window(c)'
    <3>1. device'[c].consumed <= Len(device'[c].received)
      <4>1. e.consumed <= Len(e.received)
        BY <1>1, <2>1
      <4> QED  BY <1>4, <4>1, Zenon
    <3> QED  BY <1>6, <3>1 DEF Window
  <2> QED  BY <1>1, <1>4, <1>5, <1>7, <1>t, <2>2 DEF ReplyWindow
<1>12. ChannelInv(c)'
  BY <1>8, <1>9, <1>10, <1>11, ChannelInvAre
<1>13. Counted(c)' <=> Counted(c)
  BY <1>4, <1>5, <1>6 DEF Counted
<1> QED  BY <1>4, <1>6, <1>12, <1>13, <1>r, StepWithin

LEMMA RefuseKeeps ==
    ASSUME IInv, toAmt # <<>>, toAmt' = Tail(toAmt), NEW m, m = Head(toAmt),
           NEW c, c = m.ch, m.type = "open",
           device' = [device EXCEPT ![c].state = "closed"],
           toServer' = Append(toServer, Failure(c)), UNCHANGED serverVars
    PROVE  IInv'
<1> DEFINE ch == channels[c]
           e == [device[c] EXCEPT !.state = "closed"]
           w == written[c]
           k == Failure(c)
<1>r. /\ c \in Channels
      /\ toAmt' \in Seq(ToAmt) /\ AmtMoves(c) /\ Ordered(toAmt')
      /\ OnTheWay(toAmt, c, "open") /\ Of(toAmt, c) /\ ~Of(toAmt', c)
  BY AmtReads DEF Lasts
<1>g. /\ Types /\ Ordered(toAmt) /\ Ordered(toServer) /\ TunnelsCounted /\ Fresh(c)
      /\ Opening(c) /\ Confirming(c) /\ Failing(c) /\ Waits(c) /\ Closing(c) /\ Stream(c)
      /\ Window(c) /\ ReplyWindow(c)
  BY <1>r, Given
<1>t. toServer \in Seq(ToServer) /\ ch.state \in 0..2 /\ device[c] \in DeviceRecord
  BY <1>r, <1>g, TypesAre, ChannelTypes, RecordsAre
<1>1. e.state = "closed" /\ e \in DeviceRecord
  BY <1>t DEF DeviceRecord
<1>2. k \in ToServer /\ k.ch = c /\ k.type = "failure"
  BY <1>r DEF Failure, ToServer
<1>d. device' = [device EXCEPT ![c] = e] /\ toServer' = Append(toServer, k)
  OBVIOUS
<1> HIDE DEF e, k
<1>3. ServerMoves(c)
  BY <1>2, <1>d DEF ServerMoves
<1>4. /\ Types' /\ \A d \in Channels \ {c} : Alike(d)
      /\ channels'[c] = ch /\ device'[c] = e /\ written'[c] = w
      /\ nextchannelid' = nextchannelid /\ nextchannelid \in Int
      /\ registered' = registered /\ activetunnels' = activetunnels
  BY <1>1, <1>3, <1>d, <1>g, <1>r, DeviceStep
<1>5. /\ device[c].state = "none"
      /\ ch.amtpendingcredits = 0 /\ c \in registered /\ c < nextchannelid
      /\ ch.state = 1 \/ (ch.state = 0 /\ ch.closing)
      /\ ~Of(toServer, c)
      /\ \A type : ~OnTheWay(toServer, c, type)
      /\ \A type : ~OnTheWay(toAmt', c, type)
  <2>1. ~Of(toServer, c) /\ device[c] = NoEnd /\ ch.amtpendingcredits = 0
    BY <1>g, <1>r DEF Opening
  <2>2. c \in registered /\ (ch.state = 1 \/ (ch.state = 0 /\ ch.closing))
    BY <1>g, <1>r DEF Waits, Waiting
  <2>3. c < nextchannelid
    BY <1>g, <1>r, <2>2, ChannelTypes
  <2>4. device[c].state = "none"
    BY <2>1 DEF NoEnd
  <2> QED  BY <1>r, <2>1, <2>2, <2>3, <2>4, NoneOf
<1>6. /\ \A type : OnTheWay(toServer', c, type) <=> type = "failure"
      /\ Ordered(toServer')
  <2>1. Holds(toServer, toServer', k, c)
    BY <1>2, <1>d, <1>t, ServerAppend
  <2>2. Ordered(toServer')
    BY <1>2, <1>5, <1>d, <1>g, <1>t, OrderedAppend
  <2> QED  BY <1>2, <1>5, <2>1, <2>2 DEF Holds
<1>8. Fresh(c)' /\ Opening(c)' /\ Confirming(c)' /\ Failing(c)'
  BY <1>1, <1>4, <1>5, <1>6, <1>r DEF Fresh, Opening, Confirming, Failing, Channels
<1>9. Waits(c)' /\ Closing(c)'
  BY <1>1, <1>4, <1>5, <1>6, <1>g, <1>r DEF Waits, Waiting, Closing
<1>10. Stream(c)' /\ Window(c)' /\ ReplyWindow(c)'
  BY <1>1, <1>4, <1>5, <1>g DEF Stream, Window, ReplyWindow
<1>12. ChannelInv(c)'
  BY <1>8, <1>9, <1>10, ChannelInvAre
<1>13. Counted(c)' <=> Counted(c)
  BY <1>1, <1>4, <1>5, <1>6 DEF Counted
<1> QED  BY <1>4, <1>6, <1>12, <1>13, <1>r, StepWithin

\* A channel of which anything but its open is on its way was accepted.
LEMMA Established ==
    ASSUME IInv, toAmt # <<>>, toAmt' = Tail(toAmt), NEW m, m = Head(toAmt),
           NEW c, c = m.ch, m.type # "open"
    PROVE  /\ device[c].state # "none" /\ c < nextchannelid
           /\ ~OnTheWay(toAmt, c, "open") /\ ~OnTheWay(toAmt', c, "open")
           /\ ~OnTheWay(toServer, c, "confirm") /\ ~OnTheWay(toServer, c, "failure")
           /\ ~OnTheWay(toServer, c, "open")
<1>r. /\ c \in Channels /\ Of(toAmt, c)
      /\ \A t : OnTheWay(toAmt, c, t) <=> OnTheWay(toAmt', c, t) \/ t = m.type
      /\ \A t \in Firsts : ~OnTheWay(toAmt', c, t)
  BY AmtReads
<1>g. /\ Types /\ Fresh(c) /\ Confirming(c) /\ Failing(c) /\ Closing(c)
  BY <1>r, Given
<1>1. ~OnTheWay(toAmt', c, "open") /\ ~OnTheWay(toAmt, c, "open")
  BY <1>r DEF Firsts
<1>2. device[c].state # "none"
  BY <1>1, <1>g, <1>r DEF Closing
<1>3. c < nextchannelid
  BY <1>g, <1>r, TypesAre DEF Fresh, Channels
<1>4. ~OnTheWay(toServer, c, "confirm") /\ ~OnTheWay(toServer, c, "failure")
  BY <1>g, <1>r DEF Confirming, Failing
<1>5. ~OnTheWay(toServer, c, "open")
  BY <1>r, StatesAre
<1> QED  BY <1>1, <1>2, <1>3, <1>4, <1>5

\* The device takes data.
LEMMA AmtDataKeeps ==
    ASSUME IInv, toAmt # <<>>, toAmt' = Tail(toAmt), NEW m, m = Head(toAmt),
           NEW c, c = m.ch, m.type = "data",
           device' = IF device[c].state = "open"
                     THEN [device EXCEPT ![c].received = @ \o m.bytes] ELSE device,
           toServer' = toServer, UNCHANGED serverVars
    PROVE  IInv'
<1> DEFINE ch == channels[c]
           e == device[c]
           w == written[c]
           e2 == IF e.state = "open" THEN [e EXCEPT !.received = @ \o m.bytes] ELSE e
<1>r. /\ c \in Channels /\ m \in ToAmt
      /\ toAmt' \in Seq(ToAmt) /\ AmtMoves(c) /\ Ordered(toAmt')
      /\ Of(toAmt, c)
      /\ \A t : OnTheWay(toAmt, c, t) <=> OnTheWay(toAmt', c, t) \/ t = "data"
      /\ Total(toAmt, c, "adjust")
           = Total(toAmt', c, "adjust") + NumberOf(m, c, "adjust")
      /\ Total(toAmt', c, "adjust") \in Nat
      /\ BytesIn(toAmt, c) = BytesOf(m, c) \o BytesIn(toAmt', c)
      /\ BytesIn(toAmt', c) \in Seq(Nat)
  BY AmtReads
<1>g. /\ Types /\ Ordered(toAmt) /\ Ordered(toServer) /\ TunnelsCounted /\ Fresh(c)
      /\ Opening(c) /\ Confirming(c) /\ Failing(c) /\ Waits(c) /\ Closing(c) /\ Stream(c)
      /\ Window(c) /\ ReplyWindow(c)
  BY <1>r, Given
<1>e. /\ e.state # "none" /\ c < nextchannelid
      /\ ~OnTheWay(toAmt, c, "open") /\ ~OnTheWay(toAmt', c, "open")
      /\ ~OnTheWay(toServer, c, "confirm") /\ ~OnTheWay(toServer, c, "failure")
  BY Established
<1>t. /\ e \in DeviceRecord /\ e.received \in Seq(Nat) /\ m.bytes \in Seq(Nat)
      /\ BytesOf(m, c) = m.bytes /\ NumberOf(m, c, "adjust") = 0
      /\ ch.sendBuffer \in Seq(Nat) /\ e.consumed \in Nat
      /\ device = [device EXCEPT ![c] = e]
  <2>1. m.bytes \in Seq(Nat)
    BY <1>r DEF ToAmt
  <2>2. BytesOf(m, c) = m.bytes /\ NumberOf(m, c, "adjust") = 0
    BY DEF BytesOf, NumberOf
  <2> QED  BY <1>g, <1>r, <2>1, <2>2, RecordsAre, ChannelTypes
<1>1. /\ e2 \in DeviceRecord /\ e2.state = e.state /\ e2.window = e.window
      /\ e2.consumed = e.consumed /\ e2.credits = e.credits
      /\ e2.received = IF e.state = "open" THEN e.received \o m.bytes ELSE e.received
  <2>1. e.received \o m.bytes \in Seq(Nat)
    BY <1>t, Joined
  <2>2. e \in DeviceRecord
    BY <1>t
  <2> HIDE DEF e
  <2> QED  BY <2>1, <2>2 DEF DeviceRecord
<1>2. device' = [device EXCEPT ![c] = e2]
  BY <1>t
<1> HIDE DEF e2
<1>3. ServerMoves(c)
  BY DEF ServerMoves
<1>4. /\ Types' /\ \A d \in Channels \ {c} : Alike(d)
      /\ channels'[c] = ch /\ device'[c] = e2 /\ written'[c] = w
      /\ nextchannelid' = nextchannelid /\ nextchannelid \in Int
      /\ registered' = registered /\ activetunnels' = activetunnels
  BY <1>1, <1>2, <1>3, <1>g, <1>r, DeviceStep
<1>5. Total(toAmt', c, "adjust") = Total(toAmt, c, "adjust")
  BY <1>r, <1>t, SMTT(30)
<1>6. Fresh(c)' /\ Opening(c)' /\ Confirming(c)' /\ Failing(c)'
  <2>1. ~OnTheWay(toServer', c, "confirm") /\ ~OnTheWay(toServer', c, "failure")
    BY <1>e, Zenon
  <2>2. Confirming(c)' /\ Failing(c)' /\ Opening(c)'
    BY <1>e, <2>1, Zenon DEF Opening, Confirming, Failing
  <2>3. Fresh(c)'
    <3>1. ~(c >= nextchannelid')
      <4>1. c \in Int
        BY <1>r DEF Channels
      <4> QED  BY <1>4, <1>e, <4>1, SMTT(30)
    <3> QED  BY <3>1, Zenon DEF Fresh
  <2> QED  BY <2>2, <2>3
<1>7. Waits(c)' /\ Closing(c)'
  <2>1. device'[c].state = e.state
    BY <1>1, <1>4, Zenon
  <2> QED  BY <1>4, <1>e, <1>g, <1>r, <2>1 DEF Waits, Waiting, Closing
<1>8. Stream(c)' /\ Window(c)'
  <2>1. CASE e.state = "open"
    <3>1. e2.received = e.received \o m.bytes
      BY <1>1, <2>1
    <3>2. e.received \o BytesIn(toAmt, c) = e2.received \o BytesIn(toAmt', c)
      <4>1. (e.received \o m.bytes) \o BytesIn(toAmt', c)
              = e.received \o (m.bytes \o BytesIn(toAmt', c))
        <5>1. /\ e.received \in Seq(Nat) /\ m.bytes \in Seq(Nat)
              /\ BytesIn(toAmt', c) \in Seq(Nat)
          BY <1>r, <1>t
        <5> DEFINE u == e.received
                   v == m.bytes
                   x == BytesIn(toAmt', c)
        <5>2. u \in Seq(Nat) /\ v \in Seq(Nat) /\ x \in Seq(Nat)
          BY <5>1, Zenon
        <5> HIDE DEF u, v, x
        <5>3. (u \o v) \o x = u \o (v \o x)
          BY <5>2, Associative
        <5> QED  BY <5>3, Zenon DEF u, v, x
      <4>2. BytesIn(toAmt, c) = m.bytes \o BytesIn(toAmt', c)
        BY <1>r, <1>t, Zenon
      <4> QED  BY <3>1, <4>1, <4>2, Zenon
    <3>3. /\ Len(e2.received) = Len(e.received) + Len(m.bytes)
          /\ Len(BytesIn(toAmt, c)) = Len(m.bytes) + Len(BytesIn(toAmt', c))
          /\ Len(e.received) \in Nat /\ Len(m.bytes) \in Nat
          /\ Len(BytesIn(toAmt', c)) \in Nat
      <4>1. /\ e.received \in Seq(Nat) /\ m.bytes \in Seq(Nat)
            /\ BytesIn(toAmt', c) \in Seq(Nat)
            /\ BytesIn(toAmt, c) = m.bytes \o BytesIn(toAmt', c)
        BY <1>r, <1>t
      <4> DEFINE u == e.received
                 v == m.bytes
                 x == BytesIn(toAmt', c)
      <4>2. u \in Seq(Nat) /\ v \in Seq(Nat) /\ x \in Seq(Nat)
        BY <4>1, Zenon
      <4>3. e2.received = u \o v /\ BytesIn(toAmt, c) = v \o x
        BY <3>1, <4>1, Zenon
      <4> HIDE DEF u, v, x
      <4>4. /\ Len(u \o v) = Len(u) + Len(v) /\ Len(v \o x) = Len(v) + Len(x)
            /\ Len(u) \in Nat /\ Len(v) \in Nat /\ Len(x) \in Nat
        BY <4>2, Joined
      <4> QED  BY <4>3, <4>4, Zenon DEF u, v, x
    <3>4. Stream(c)'
      <4>1. Stream(c) => (ch.state # 0 =>
                e.received \o BytesIn(toAmt, c) \o ch.sendBuffer = [i \in 1..w |-> i])
        BY <2>1 DEF Stream
      <4>2. ch.state # 0 =>
                e2.received \o BytesIn(toAmt', c) \o ch.sendBuffer = [i \in 1..w |-> i]
        BY <1>g, <3>2, <4>1, Zenon
      <4> QED  BY <1>4, <4>2, Zenon DEF Stream
    <3>5. Window(c)'
      <4>1. /\ e.consumed <= Len(e.received)
            /\ ch.sendcredits + (Len(e.received) - e.consumed)
                 + Len(BytesIn(toAmt, c)) + Total(toServer, c, "adjust") = e.window
        BY <1>e, <1>g, <2>1 DEF Window
      <4>2. /\ e.consumed \in Nat /\ ch.sendcredits \in Nat
            /\ Total(toServer, c, "adjust") \in Nat
        BY <1>g, <1>r, ChannelTypes, TypesAre, ServerNumbers
      <4> DEFINE b == ch.sendcredits
                 x == Len(e.received)
                 x2 == Len(e2.received)
                 k == e.consumed
                 l == Len(BytesIn(toAmt, c))
                 l2 == Len(BytesIn(toAmt', c))
                 n == Len(m.bytes)
                 t == Total(toServer, c, "adjust")
      <4>3. /\ b \in Nat /\ t \in Nat /\ k \in Nat /\ x \in Nat /\ n \in Nat /\ l2 \in Nat
            /\ x2 = x + n /\ l = n + l2 /\ k <= x /\ b + (x - k) + l + t = e.window
        BY <3>3, <4>1, <4>2, Zenon
      <4> HIDE DEF b, x, x2, k, l, l2, n, t
      <4>4. k <= x2 /\ b + (x2 - k) + l2 + t = e.window
        BY <4>3
      <4>5. /\ e2.consumed <= Len(e2.received)
            /\ ch.sendcredits + (Len(e2.received) - e2.consumed)
                 + Len(BytesIn(toAmt', c)) + Total(toServer, c, "adjust") = e2.window
        BY <1>1, <4>4, Zenon DEF b, x2, k, l2, t
      <4> QED  BY <1>4, <4>5, Zenon DEF Window
    <3> QED  BY <3>4, <3>5
  <2>2. CASE e.state # "open"
    <3>1. e.state = "closed" /\ device'[c].state = "closed"
      BY <1>1, <1>4, <1>e, <1>t, <2>2 DEF DeviceRecord
    <3> QED  BY <3>1 DEF Stream, Window
  <2> QED  BY <2>1, <2>2
<1>9. ReplyWindow(c)'
  <2>1. device'[c].state = e.state /\ device'[c].credits = e.credits
    BY <1>1, <1>4, Zenon
  <2> QED  BY <1>4, <1>5, <1>g, <2>1 DEF ReplyWindow
<1>10. ChannelInv(c)'
  BY <1>6, <1>7, <1>8, <1>9, ChannelInvAre
<1>11. Counted(c)' <=> Counted(c)
  <2>1. device'[c].state = e.state
    BY <1>1, <1>4, Zenon
  <2> QED  BY <2>1 DEF Counted
<1>12. Ordered(toServer')
  BY <1>g
<1> QED  BY <1>4, <1>10, <1>11, <1>12, <1>r, StepWithin

\* The device gets credit for what it sends.
LEMMA AmtAdjustKeeps ==
    ASSUME IInv, toAmt # <<>>, toAmt' = Tail(toAmt), NEW m, m = Head(toAmt),
           NEW c, c = m.ch, m.type = "adjust",
           device' = [device EXCEPT ![c].credits = @ + m.n],
           toServer' = toServer, UNCHANGED serverVars
    PROVE  IInv'
<1> DEFINE ch == channels[c]
           e == device[c]
           w == written[c]
           e2 == [e EXCEPT !.credits = @ + m.n]
<1>r. /\ c \in Channels /\ m \in ToAmt
      /\ toAmt' \in Seq(ToAmt) /\ AmtMoves(c) /\ Ordered(toAmt')
      /\ Of(toAmt, c)
      /\ \A t : OnTheWay(toAmt, c, t) <=> OnTheWay(toAmt', c, t) \/ t = "adjust"
      /\ Total(toAmt, c, "adjust")
           = Total(toAmt', c, "adjust") + NumberOf(m, c, "adjust")
      /\ Total(toAmt', c, "adjust") \in Nat
      /\ BytesIn(toAmt, c) = BytesOf(m, c) \o BytesIn(toAmt', c)
      /\ BytesIn(toAmt', c) \in Seq(Nat)
  BY AmtReads
<1>g. /\ Types /\ Ordered(toAmt) /\ Ordered(toServer) /\ TunnelsCounted /\ Fresh(c)
      /\ Opening(c) /\ Confirming(c) /\ Failing(c) /\ Waits(c) /\ Closing(c) /\ Stream(c)
      /\ Window(c) /\ ReplyWindow(c)
  BY <1>r, Given
<1>e. /\ e.state # "none" /\ c < nextchannelid
      /\ ~OnTheWay(toAmt, c, "open") /\ ~OnTheWay(toAmt', c, "open")
      /\ ~OnTheWay(toServer, c, "confirm") /\ ~OnTheWay(toServer, c, "failure")
  BY Established
<1>t. /\ e \in DeviceRecord /\ e.credits \in Nat /\ m.n \in Nat
      /\ BytesOf(m, c) = <<>> /\ NumberOf(m, c, "adjust") = m.n
      /\ ch.amtpendingcredits \in 0..CiraWindow
      /\ toServer \in Seq(ToServer)
  <2>1. m.n \in Nat
    BY <1>r DEF ToAmt
  <2>2. BytesOf(m, c) = <<>> /\ NumberOf(m, c, "adjust") = m.n
    BY DEF BytesOf, NumberOf
  <2> QED  BY <1>g, <1>r, <2>1, <2>2, RecordsAre, ChannelTypes, TypesAre
<1>1. /\ e2 \in DeviceRecord /\ e2.state = e.state /\ e2.window = e.window
      /\ e2.consumed = e.consumed /\ e2.credits = e.credits + m.n
      /\ e2.received = e.received
  <2>1. e.credits + m.n \in Nat /\ e \in DeviceRecord
    BY <1>t
  <2> HIDE DEF e
  <2> QED  BY <2>1 DEF DeviceRecord
<1>2. device' = [device EXCEPT ![c] = e2]
  OBVIOUS
<1> HIDE DEF e2
<1>3. ServerMoves(c)
  BY DEF ServerMoves
<1>4. /\ Types' /\ \A d \in Channels \ {c} : Alike(d)
      /\ channels'[c] = ch /\ device'[c] = e2 /\ written'[c] = w
      /\ nextchannelid' = nextchannelid /\ nextchannelid \in Int
      /\ registered' = registered /\ activetunnels' = activetunnels
  BY <1>1, <1>2, <1>3, <1>g, <1>r, DeviceStep, ZenonT(30)
<1>5. /\ BytesIn(toAmt', c) = BytesIn(toAmt, c)
      /\ Total(toAmt, c, "adjust") = Total(toAmt', c, "adjust") + m.n
  <2>1. <<>> \o BytesIn(toAmt', c) = BytesIn(toAmt', c)
    BY <1>r, Seqs!ConcatEmptySeq
  <2> QED  BY <1>r, <1>t, <2>1, Zenon
<1>s. /\ device'[c].state = e.state /\ device'[c].window = e.window
      /\ device'[c].consumed = e.consumed /\ device'[c].received = e.received
      /\ device'[c].credits = e.credits + m.n
  BY <1>1, <1>4, Zenon
<1>6. Fresh(c)' /\ Opening(c)' /\ Confirming(c)' /\ Failing(c)'
  BY <1>4, <1>e, <1>r, SMTT(30) DEF Fresh, Opening, Confirming, Failing, Channels
<1>7. Waits(c)' /\ Closing(c)'
  BY <1>4, <1>e, <1>g, <1>r, <1>s DEF Waits, Waiting, Closing
<1>8. Stream(c)' /\ Window(c)'
  <2>1. Stream(c)'
    BY <1>4, <1>5, <1>g, <1>s, Zenon DEF Stream
  <2>2. Window(c)'
    BY <1>4, <1>5, <1>g, <1>s, Zenon DEF Window
  <2> QED  BY <2>1, <2>2
<1>9. ReplyWindow(c)'
  <2>1. SUFFICES ASSUME ch.state # 0, e.state = "open"
                 PROVE  e.credits + m.n + Total(toServer, c, "data")
                          + Total(toAmt', c, "adjust") + ch.amtpendingcredits = CiraWindow
    <3>1. 2 * ch.amtpendingcredits <= CiraWindow
      BY <1>g DEF ReplyWindow
    <3> QED  BY <1>4, <1>s, <3>1, Zenon DEF ReplyWindow
  <2>2. e.credits + Total(toServer, c, "data") + Total(toAmt, c, "adjust")
          + ch.amtpendingcredits = CiraWindow
    BY <1>g, <2>1 DEF ReplyWindow
  <2> DEFINE x == e.credits
             d == Total(toServer, c, "data")
             k == Total(toAmt, c, "adjust")
             k2 == Total(toAmt', c, "adjust")
             p == ch.amtpendingcredits
             n == m.n
  <2>3. d \in Nat /\ p \in Nat
    BY <1>t, ServerNumbers, WindowAssumption
  <2>4. /\ x \in Nat /\ k2 \in Nat /\ n \in Nat /\ k = k2 + n
        /\ x + d + k + p = CiraWindow
    BY <1>5, <1>r, <1>t, <2>2, Zenon
  <2> HIDE DEF x, d, k, k2, p, n
  <2>5. x + n + d + k2 + p = CiraWindow
    BY <2>3, <2>4
  <2> QED  BY <2>5, Zenon DEF x, d, k2, p, n
<1>10. ChannelInv(c)'
  BY <1>6, <1>7, <1>8, <1>9, ChannelInvAre
<1>11. Counted(c)' <=> Counted(c)
  BY <1>s DEF Counted
<1>12. Ordered(toServer')
  BY <1>g
<1> QED  BY <1>4, <1>10, <1>11, <1>12, <1>r, StepWithin

\* The device reads a close, and answers it when it had not closed itself.
LEMMA AmtReadCloseKeeps ==
    ASSUME IInv, toAmt # <<>>, toAmt' = Tail(toAmt), NEW m, m = Head(toAmt),
           NEW c, c = m.ch, m.type = "close",
           device' = [device EXCEPT ![c].state = "closed"],
           toServer' = IF device[c].state = "open" THEN Append(toServer, Close(c))
                       ELSE toServer,
           UNCHANGED serverVars
    PROVE  IInv'
<1> DEFINE ch == channels[c]
           e == device[c]
           w == written[c]
           e2 == [e EXCEPT !.state = "closed"]
           k == Close(c)
<1>r. /\ c \in Channels
      /\ toAmt' \in Seq(ToAmt) /\ AmtMoves(c) /\ Ordered(toAmt')
      /\ OnTheWay(toAmt, c, "close") /\ ~Of(toAmt', c)
  BY AmtReads DEF Lasts
<1>g. /\ Types /\ Ordered(toAmt) /\ Ordered(toServer) /\ TunnelsCounted /\ Fresh(c)
      /\ Opening(c) /\ Confirming(c) /\ Failing(c) /\ Waits(c) /\ Closing(c) /\ Stream(c)
      /\ Window(c) /\ ReplyWindow(c)
  BY <1>r, Given
<1>e. /\ e.state # "none" /\ c < nextchannelid
      /\ ~OnTheWay(toServer, c, "confirm") /\ ~OnTheWay(toServer, c, "failure")
      /\ ~OnTheWay(toServer, c, "open")
  BY Established
<1>t. e \in DeviceRecord /\ toServer \in Seq(ToServer)
  BY <1>g, <1>r, RecordsAre, TypesAre
<1>1. e2 \in DeviceRecord /\ e2.state = "closed"
  <2>1. e \in DeviceRecord
    BY <1>t
  <2> HIDE DEF e
  <2> QED  BY <2>1 DEF DeviceRecord
<1>k. k \in ToServer /\ k.ch = c /\ k.type = "close"
  BY <1>r DEF Close, ToServer
<1>2. /\ device' = [device EXCEPT ![c] = e2]
      /\ toServer' = IF e.state = "open" THEN Append(toServer, k) ELSE toServer
  OBVIOUS
<1> HIDE DEF e2, k
<1>3. ServerMoves(c)
  BY <1>2, <1>k DEF ServerMoves
<1>4. /\ Types' /\ \A d \in Channels \ {c} : Alike(d)
      /\ channels'[c] = ch /\ device'[c] = e2 /\ written'[c] = w
      /\ nextchannelid' = nextchannelid /\ nextchannelid \in Int
      /\ registered' = registered /\ activetunnels' = activetunnels
  BY <1>1, <1>2, <1>3, <1>g, <1>r, DeviceStep
<1>c. /\ ch.state = 0 /\ \A type : ~OnTheWay(toAmt', c, type)
      /\ e.state = "open" => c \in registered
      /\ OnTheWay(toServer, c, "close") => e.state = "closed" /\ c \in registered
  BY <1>g, <1>r, NoneOf DEF Closing
<1>5. /\ Ordered(toServer')
      /\ \A type : OnTheWay(toServer', c, type)
                     <=> OnTheWay(toServer, c, type) \/ (e.state = "open" /\ type = "close")
  <2>1. CASE e.state = "open"
    <3>1. toServer' = Append(toServer, k)
      BY <1>2, <2>1
    <3>2. \A type \in Lasts : ~OnTheWay(toServer, c, type)
      BY <1>c, <1>e, <2>1 DEF Lasts
    <3>3. k.type \notin Firsts
      BY <1>k DEF Firsts
    <3>4. Ordered(toServer')
      BY <1>g, <1>k, <1>t, <3>1, <3>2, <3>3, OrderedAppend
    <3>5. Holds(toServer, toServer', k, c)
      BY <1>k, <1>t, <3>1, ServerAppend
    <3> QED  BY <1>k, <2>1, <3>4, <3>5 DEF Holds
  <2>2. CASE e.state # "open"
    BY <1>2, <1>g, <2>2
  <2> QED  BY <2>1, <2>2
<1>s. device'[c].state = "closed"
  BY <1>1, <1>4, Zenon
<1>6. Fresh(c)' /\ Opening(c)' /\ Confirming(c)' /\ Failing(c)'
  <2>1. ~OnTheWay(toServer', c, "confirm") /\ ~OnTheWay(toServer', c, "failure")
    BY <1>5, <1>e
  <2>2. Confirming(c)' /\ Failing(c)' /\ Opening(c)'
    BY <1>c, <2>1, Zenon DEF Opening, Confirming, Failing
  <2>3. Fresh(c)'
    BY <1>4, <1>e, <1>r DEF Fresh, Channels
  <2> QED  BY <2>2, <2>3
<1>7. Waits(c)'
  <2>1. ~Waiting(c)'
    BY <1>5, <1>c, <1>e DEF Waiting
  <2> QED  BY <1>4, <1>c, <2>1 DEF Waits
<1>8. Closing(c)'
  BY <1>4, <1>5, <1>c, <1>r, <1>s DEF Closing
<1>9. Stream(c)' /\ Window(c)' /\ ReplyWindow(c)'
  BY <1>4, <1>g, <1>s DEF Stream, Window, ReplyWindow
<1>10. ChannelInv(c)'
  BY <1>6, <1>7, <1>8, <1>9, ChannelInvAre
<1>11. Counted(c)' <=> Counted(c)
  BY <1>5, <1>c, <1>e, <1>s DEF Counted
<1> QED  BY <1>4, <1>5, <1>10, <1>11, <1>r, StepWithin

\* The device closes a channel.
LEMMA AmtCloseKeeps ==
    ASSUME IInv, NEW c \in Channels, AmtClose(c)
    PROVE  IInv'
<1> DEFINE ch == channels[c]
           e == device[c]
           w == written[c]
           e2 == [e EXCEPT !.state = "closed"]
           k == Close(c)
<1>g. /\ Types /\ Ordered(toAmt) /\ Ordered(toServer) /\ TunnelsCounted /\ Fresh(c)
      /\ Opening(c) /\ Confirming(c) /\ Failing(c) /\ Waits(c) /\ Closing(c) /\ Stream(c)
      /\ Window(c) /\ ReplyWindow(c)
  BY Given
<1>t. e \in DeviceRecord /\ toServer \in Seq(ToServer)
  BY <1>g, RecordsAre, TypesAre
<1>1. e2 \in DeviceRecord /\ e2.state = "closed" /\ e2.received = e.received
      /\ e2.consumed = e.consumed /\ e2.window = e.window
  <2>1. e \in DeviceRecord
    BY <1>t
  <2> HIDE DEF e
  <2> QED  BY <2>1 DEF DeviceRecord
<1>k. k \in ToServer /\ k.ch = c /\ k.type = "close"
  BY DEF Close, ToServer
<1>2. /\ e.state = "open" /\ device' = [device EXCEPT ![c] = e2]
      /\ toServer' = Append(toServer, k) /\ toAmt' = toAmt /\ UNCHANGED serverVars
  BY DEF AmtClose
<1> HIDE DEF e2, k
<1>3. ServerMoves(c) /\ AmtMoves(c)
  BY <1>2, <1>k DEF ServerMoves, AmtMoves
<1>4. /\ Types' /\ \A d \in Channels \ {c} : Alike(d)
      /\ channels'[c] = ch /\ device'[c] = e2 /\ written'[c] = w
      /\ nextchannelid' = nextchannelid /\ nextchannelid \in Int
      /\ registered' = registered /\ activetunnels' = activetunnels
  BY <1>1, <1>2, <1>3, <1>g, DeviceStep
<1>s. /\ device'[c].state = "closed" /\ device'[c].received = e.received
      /\ device'[c].consumed = e.consumed /\ device'[c].window = e.window
  BY <1>1, <1>4, Zenon
<1>c. /\ c \in registered /\ c < nextchannelid
      /\ ~OnTheWay(toServer, c, "close") /\ ~OnTheWay(toServer, c, "failure")
      /\ ~OnTheWay(toServer, c, "open") /\ ~OnTheWay(toAmt, c, "open")
  <2>1. c \in registered /\ ~OnTheWay(toServer, c, "close") /\ ~OnTheWay(toServer, c, "failure")
    BY <1>2, <1>g DEF Closing, Failing
  <2>2. ~OnTheWay(toServer, c, "open")
    BY StatesAre
  <2>3. ~OnTheWay(toAmt, c, "open")
    BY <1>2, <1>g DEF Opening, NoEnd
  <2>4. c < nextchannelid
    BY <1>g, <2>1, ChannelTypes
  <2> QED  BY <2>1, <2>2, <2>3, <2>4
<1>5. /\ Ordered(toServer')
      /\ \A type : OnTheWay(toServer', c, type)
                     <=> OnTheWay(toServer, c, type) \/ type = "close"
      /\ Announces(toServer, c, e.window) => Announces(toServer', c, e.window)
  <2>1. \A type \in Lasts : ~OnTheWay(toServer, c, type)
    BY <1>c DEF Lasts
  <2>2. k.type \notin Firsts
    BY <1>k DEF Firsts
  <2>3. Ordered(toServer')
    BY <1>2, <1>g, <1>k, <1>t, <2>1, <2>2, OrderedAppend
  <2>4. Holds(toServer, toServer', k, c)
    BY <1>2, <1>k, <1>t, ServerAppend
  <2> QED  BY <1>k, <2>3, <2>4 DEF Holds
<1>6. Fresh(c)' /\ Opening(c)' /\ Failing(c)'
  BY <1>2, <1>4, <1>5, <1>c DEF Fresh, Opening, Failing, Channels
<1>7. Confirming(c)'
  BY <1>2, <1>4, <1>5, <1>g, <1>s DEF Confirming
<1>8. Waits(c)' /\ Closing(c)'
  BY <1>2, <1>4, <1>5, <1>c, <1>g, <1>s DEF Waits, Waiting, Closing
<1>9. Stream(c)' /\ Window(c)' /\ ReplyWindow(c)'
  BY <1>4, <1>g, <1>s DEF Stream, Window, ReplyWindow
<1>10. ChannelInv(c)'
  BY <1>6, <1>7, <1>8, <1>9, ChannelInvAre
<1>11. Counted(c)' <=> Counted(c)
  BY <1>2, <1>5, <1>s DEF Counted
<1>12. Ordered(toAmt')
  BY <1>2, <1>g
<1> QED  BY <1>4, <1>5, <1>10, <1>11, <1>12, StepWithin

\* The device gives credit back for what its user consumed.
LEMMA AmtConsumeKeeps ==
    ASSUME IInv, NEW c \in Channels, AmtConsume(c)
    PROVE  IInv'
<1> DEFINE ch == channels[c]
           e == device[c]
           w == written[c]
           unread == Len(e.received) - e.consumed
           e2 == [e EXCEPT !.consumed = @ + unread]
           k == Adjust(c, unread)
<1>g. /\ Types /\ Ordered(toAmt) /\ Ordered(toServer) /\ TunnelsCounted /\ Fresh(c)
      /\ Opening(c) /\ Confirming(c) /\ Failing(c) /\ Waits(c) /\ Closing(c) /\ Stream(c)
      /\ Window(c) /\ ReplyWindow(c)
  BY Given
<1>t. /\ e \in DeviceRecord /\ toServer \in Seq(ToServer) /\ e.consumed \in Nat
      /\ Len(e.received) \in Nat
      /\ Total(toServer, c, "adjust") \in Nat /\ Total(toServer, c, "data") \in Nat
  BY <1>g, RecordsAre, TypesAre, ChannelTypes, ServerNumbers
<1>2. /\ e.state = "open" /\ unread > 0 /\ device' = [device EXCEPT ![c] = e2]
      /\ toServer' = Append(toServer, k) /\ toAmt' = toAmt /\ UNCHANGED serverVars
  BY DEF AmtConsume
<1>n. unread \in Nat /\ e.consumed + unread = Len(e.received)
  <2>1. e.consumed \in Nat /\ Len(e.received) \in Nat
    BY <1>t
  <2>2. Len(e.received) - e.consumed > 0
    BY <1>2
  <2> HIDE DEF e
  <2> QED  BY <2>1, <2>2
<1>1. e2 \in DeviceRecord /\ e2.state = "open" /\ e2.received = e.received
      /\ e2.consumed = Len(e.received) /\ e2.window = e.window /\ e2.credits = e.credits
  <2>1. /\ e \in DeviceRecord /\ e.state = "open" /\ e.consumed + unread = Len(e.received)
        /\ Len(e.received) \in Nat
    BY <1>2, <1>n, <1>t
  <2> HIDE DEF e, unread
  <2> QED  BY <2>1 DEF DeviceRecord
<1>k. k \in ToServer /\ k.ch = c /\ k.type = "adjust" /\ k.n = unread
  <2>1. unread \in Nat
    BY <1>n
  <2> HIDE DEF unread
  <2> QED  BY <2>1 DEF Adjust, ToServer
<1> HIDE DEF e2, k, unread
<1>3. ServerMoves(c) /\ AmtMoves(c)
  BY <1>2, <1>k DEF ServerMoves, AmtMoves
<1>4. /\ Types' /\ \A d \in Channels \ {c} : Alike(d)
      /\ channels'[c] = ch /\ device'[c] = e2 /\ written'[c] = w
      /\ nextchannelid' = nextchannelid /\ nextchannelid \in Int
      /\ registered' = registered /\ activetunnels' = activetunnels
  BY <1>1, <1>2, <1>3, <1>g, DeviceStep
<1>s. /\ device'[c].state = "open" /\ device'[c].received = e.received
      /\ device'[c].consumed = Len(e.received) /\ device'[c].window = e.window
      /\ device'[c].credits = e.credits
  BY <1>1, <1>4, Zenon
<1>c. /\ c \in registered /\ c < nextchannelid /\ ~OnTheWay(toServer, c, "confirm")
      /\ ~OnTheWay(toServer, c, "close") /\ ~OnTheWay(toServer, c, "failure")
      /\ ~OnTheWay(toServer, c, "open") /\ ~OnTheWay(toAmt, c, "open")
  <2>1. c \in registered /\ ~OnTheWay(toServer, c, "close") /\ ~OnTheWay(toServer, c, "failure")
    BY <1>2, <1>g DEF Closing, Failing
  <2>2. ~OnTheWay(toServer, c, "open")
    BY StatesAre
  <2>3. ~OnTheWay(toAmt, c, "open")
    BY <1>2, <1>g DEF Opening, NoEnd
  <2>4. c < nextchannelid
    BY <1>g, <2>1, ChannelTypes
  <2>5. ~OnTheWay(toServer, c, "confirm")
    <3>1. SUFFICES ASSUME OnTheWay(toServer, c, "confirm") PROVE FALSE
      OBVIOUS
    <3>2. e.received = <<>> /\ e.consumed = 0
      BY <1>g, <3>1 DEF Confirming
    <3>3. Len(<<>>) = 0
      OBVIOUS
    <3>4. unread = 0
      BY <3>2, <3>3 DEF unread
    <3> QED  BY <1>2, <3>4
  <2> QED  BY <2>1, <2>2, <2>3, <2>4, <2>5
<1>5. /\ Ordered(toServer')
      /\ \A type : OnTheWay(toServer', c, type)
                     <=> OnTheWay(toServer, c, type) \/ type = "adjust"
      /\ Total(toServer', c, "adjust") = Total(toServer, c, "adjust") + unread
      /\ Total(toServer', c, "data") = Total(toServer, c, "data")
  <2>1. \A type \in Lasts : ~OnTheWay(toServer, c, type)
    BY <1>c DEF Lasts
  <2>2. k.type \notin Firsts
    BY <1>k DEF Firsts
  <2>3. Ordered(toServer')
    BY <1>2, <1>g, <1>k, <1>t, <2>1, <2>2, OrderedAppend
  <2>4. Holds(toServer, toServer', k, c) /\ HoldsData(toServer, toServer', k, c)
    BY <1>2, <1>k, <1>t, ServerAppend
  <2>5. NumberOf(k, c, "adjust") = unread /\ NumberOf(k, c, "data") = 0
    BY <1>k DEF NumberOf
  <2> QED  BY <1>k, <1>t, <2>3, <2>4, <2>5 DEF Holds, HoldsData
<1>6. Fresh(c)' /\ Opening(c)' /\ Failing(c)' /\ Confirming(c)'
  BY <1>2, <1>4, <1>5, <1>c DEF Fresh, Opening, Failing, Confirming, Channels
<1>8. Waits(c)' /\ Closing(c)'
  BY <1>2, <1>4, <1>5, <1>c, <1>g, <1>s DEF Waits, Waiting, Closing
<1>9. Stream(c)'
  BY <1>2, <1>4, <1>g, <1>s DEF Stream
<1>10. Window(c)'
  <2>1. ch.sendcredits + (Len(e.received) - e.consumed)
          + Len(BytesIn(toAmt, c)) + Total(toServer, c, "adjust") = e.window
    BY <1>2, <1>c, <1>g DEF Window
  <2>2. /\ ch.sendcredits \in Nat /\ BytesIn(toAmt, c) \in Seq(Nat)
        /\ e.consumed \in Nat /\ Len(e.received) \in Nat
    BY <1>g, <1>t, ChannelTypes, TypesAre, AmtNumbers
  <2> DEFINE b == ch.sendcredits
             x == Len(e.received)
             y == e.consumed
             l == Len(BytesIn(toAmt, c))
             t == Total(toServer, c, "adjust")
             t2 == Total(toServer', c, "adjust")
  <2>3. /\ b \in Nat /\ x \in Nat /\ y \in Nat /\ t \in Nat
        /\ b + (x - y) + l + t = e.window
        /\ unread \in Nat /\ y + unread = x /\ t2 = t + unread
    BY <1>5, <1>n, <1>t, <2>1, <2>2, Zenon
  <2>4. l \in Nat
    BY <2>2
  <2> HIDE DEF b, x, y, l, t, t2
  <2>5. b + (x - x) + l + t2 = e.window /\ x <= x
    BY <2>3, <2>4
  <2>6. /\ Len(e.received) <= Len(e.received)
        /\ ch.sendcredits + (Len(e.received) - Len(e.received))
             + Len(BytesIn(toAmt, c)) + Total(toServer', c, "adjust") = e.window
    BY <2>5, Zenon DEF b, x, l, t2
  <2> QED  BY <1>2, <1>4, <1>s, <2>6, Zenon DEF Window
<1>11. ReplyWindow(c)'
  BY <1>2, <1>4, <1>5, <1>g, <1>s DEF ReplyWindow
<1>12. ChannelInv(c)'
  BY <1>6, <1>8, <1>9, <1>10, <1>11, ChannelInvAre
<1>13. Counted(c)' <=> Counted(c)
  BY <1>2, <1>5, <1>s DEF Counted
<1>14. Ordered(toAmt')
  BY <1>2, <1>g
<1> QED  BY <1>4, <1>5, <1>12, <1>13, <1>14, StepWithin

\* The device sends n bytes.
LEMMA AmtSendKeeps ==
    ASSUME IInv, NEW c \in Channels, NEW n \in 1..MaxReplied[c], AmtSend(c, n)
    PROVE  IInv'
<1> DEFINE ch == channels[c]
           e == device[c]
           w == written[c]
           e2 == [e EXCEPT !.credits = @ - n, !.replied = @ + n]
           k == [type |-> "data", ch |-> c, n |-> n]
<1>g. /\ Types /\ Ordered(toAmt) /\ Ordered(toServer) /\ TunnelsCounted /\ Fresh(c)
      /\ Opening(c) /\ Confirming(c) /\ Failing(c) /\ Waits(c) /\ Closing(c) /\ Stream(c)
      /\ Window(c) /\ ReplyWindow(c)
  BY Given
<1>t. /\ e \in DeviceRecord /\ toServer \in Seq(ToServer) /\ e.credits \in Nat
      /\ e.replied \in Nat /\ n \in Nat
      /\ Total(toServer, c, "adjust") \in Nat /\ Total(toServer, c, "data") \in Nat
  BY <1>g, RecordsAre, TypesAre, ChannelTypes, ServerNumbers
<1>2. /\ e.state = "open" /\ n <= e.credits /\ device' = [device EXCEPT ![c] = e2]
      /\ toServer' = Append(toServer, k) /\ toAmt' = toAmt /\ UNCHANGED serverVars
  BY DEF AmtSend
<1>1. e2 \in DeviceRecord /\ e2.state = "open" /\ e2.received = e.received
      /\ e2.consumed = e.consumed /\ e2.window = e.window /\ e2.credits = e.credits - n
  <2>1. e \in DeviceRecord /\ e.state = "open"
    BY <1>2, <1>t
  <2>2. e.credits - n \in Nat /\ e.replied + n \in Nat
    BY <1>2, <1>t
  <2> HIDE DEF e
  <2> QED  BY <2>1, <2>2 DEF DeviceRecord
<1>k. k \in ToServer /\ k.ch = c /\ k.type = "data" /\ k.n = n
  BY <1>t DEF ToServer
<1> HIDE DEF e2, k
<1>3. ServerMoves(c) /\ AmtMoves(c)
  BY <1>2, <1>k DEF ServerMoves, AmtMoves
<1>4. /\ Types' /\ \A d \in Channels \ {c} : Alike(d)
      /\ channels'[c] = ch /\ device'[c] = e2 /\ written'[c] = w
      /\ nextchannelid' = nextchannelid /\ nextchannelid \in Int
      /\ registered' = registered /\ activetunnels' = activetunnels
  BY <1>1, <1>2, <1>3, <1>g, DeviceStep
<1>s. /\ device'[c].state = "open" /\ device'[c].received = e.received
      /\ device'[c].consumed = e.consumed /\ device'[c].window = e.window
      /\ device'[c].credits = e.credits - n
  BY <1>1, <1>4, Zenon
<1>c. /\ c \in registered /\ c < nextchannelid
      /\ ~OnTheWay(toServer, c, "close") /\ ~OnTheWay(toServer, c, "failure")
      /\ ~OnTheWay(toServer, c, "open") /\ ~OnTheWay(toAmt, c, "open")
  <2>1. c \in registered /\ ~OnTheWay(toServer, c, "close") /\ ~OnTheWay(toServer, c, "failure")
    BY <1>2, <1>g DEF Closing, Failing
  <2>2. ~OnTheWay(toServer, c, "open")
    BY StatesAre
  <2>3. ~OnTheWay(toAmt, c, "open")
    BY <1>2, <1>g DEF Opening, NoEnd
  <2>4. c < nextchannelid
    BY <1>g, <2>1, ChannelTypes
  <2> QED  BY <2>1, <2>2, <2>3, <2>4
<1>5. /\ Ordered(toServer')
      /\ \A type : OnTheWay(toServer', c, type)
                     <=> OnTheWay(toServer, c, type) \/ type = "data"
      /\ Total(toServer', c, "adjust") = Total(toServer, c, "adjust")
      /\ Total(toServer', c, "data") = Total(toServer, c, "data") + n
      /\ Announces(toServer, c, e.window) => Announces(toServer', c, e.window)
  <2>1. \A type \in Lasts : ~OnTheWay(toServer, c, type)
    BY <1>c DEF Lasts
  <2>2. k.type \notin Firsts
    BY <1>k DEF Firsts
  <2>3. Ordered(toServer')
    BY <1>2, <1>g, <1>k, <1>t, <2>1, <2>2, OrderedAppend
  <2>4. Holds(toServer, toServer', k, c) /\ HoldsData(toServer, toServer', k, c)
    BY <1>2, <1>k, <1>t, ServerAppend
  <2>5. NumberOf(k, c, "adjust") = 0 /\ NumberOf(k, c, "data") = n
    BY <1>k DEF NumberOf
  <2>6. Announces(toServer, c, e.window) => Announces(toServer', c, e.window)
    BY <1>k, <2>4 DEF Holds
  <2> QED  BY <1>k, <1>t, <2>3, <2>4, <2>5, <2>6 DEF Holds, HoldsData
<1>6. Fresh(c)' /\ Opening(c)' /\ Failing(c)'
  BY <1>2, <1>4, <1>5, <1>c DEF Fresh, Opening, Failing, Channels
<1>7. Confirming(c)'
  BY <1>2, <1>4, <1>5, <1>g, <1>s DEF Confirming
<1>8. Waits(c)' /\ Closing(c)'
  BY <1>2, <1>4, <1>5, <1>c, <1>g, <1>s DEF Waits, Waiting, Closing
<1>9. Stream(c)' /\ Window(c)'
  BY <1>2, <1>4, <1>5, <1>g, <1>s DEF Stream, Window
<1>10. ReplyWindow(c)'
  <2>1. SUFFICES ASSUME ch.state # 0
                 PROVE  e.credits - n + Total(toServer', c, "data")
                          + Total(toAmt, c, "adjust") + ch.amtpendingcredits = CiraWindow
    <3>1. 2 * ch.amtpendingcredits <= CiraWindow
      BY <1>g DEF ReplyWindow
    <3> QED  BY <1>2, <1>4, <1>s, <3>1, Zenon DEF ReplyWindow
  <2>2. e.credits + Total(toServer, c, "data") + Total(toAmt, c, "adjust")
          + ch.amtpendingcredits = CiraWindow
    BY <1>2, <1>g, <2>1 DEF ReplyWindow
  <2>3. e.credits - n + (Total(toServer, c, "data") + n) = e.credits + Total(toServer, c, "data")
    BY <1>t
  <2> QED  BY <1>5, <2>2, <2>3, Zenon
<1>12. ChannelInv(c)'
  BY <1>6, <1>7, <1>8, <1>9, <1>10, ChannelInvAre
<1>13. Counted(c)' <=> Counted(c)
  BY <1>2, <1>5, <1>s DEF Counted
<1>14. Ordered(toAmt')
  BY <1>2, <1>g
<1> QED  BY <1>4, <1>5, <1>12, <1>13, <1>14, StepWithin

-----------------------------------------------------------------------------
LEMMA Stutters == ASSUME IInv, UNCHANGED vars PROVE IInv'
<1>1. /\ nextchannelid' = nextchannelid /\ channels' = channels
      /\ registered' = registered /\ activetunnels' = activetunnels
      /\ written' = written /\ toAmt' = toAmt /\ toServer' = toServer
      /\ device' = device
  BY DEF vars, serverVars
<1>2. Types' /\ TunnelsCounted'
  BY <1>1, Zenon DEF IInv, Types, TypeOK, TunnelsCounted
<1>3. Ordered(toAmt)' /\ Ordered(toServer)'
  BY <1>1, Zenon DEF IInv
<1>4. ASSUME NEW c \in Channels PROVE ChannelInv(c)'
  <2>1. ChannelInv(c)
    BY DEF IInv
  <2>2. Control(c)'
    BY <1>1, <2>1, Zenon DEF ChannelInv, Control, Fresh, Opening, Confirming, Failing,
       Waits, Waiting, Closing
  <2>3. Stream(c)' /\ Window(c)' /\ ReplyWindow(c)'
    BY <1>1, <2>1, Zenon DEF ChannelInv, Stream, Window, ReplyWindow
  <2> QED
    BY <2>2, <2>3, Zenon DEF ChannelInv
<1> QED
  BY <1>2, <1>3, <1>4, Zenon DEF IInv

LEMMA ProcessCommandKeeps == ASSUME IInv, ProcessCommand PROVE IInv'
<1>1. CASE ChannelOpenConfirmation
  BY <1>1, ConfirmationKeeps, Zenon
<1>2. CASE ChannelOpenFailure
  BY <1>2, FailureKeeps, Zenon
<1>3. CASE ChannelClose
  BY <1>3, ChannelCloseKeeps, Zenon
<1>4. CASE ChannelWindowAdjust
  BY <1>4, AdjustKeeps, Zenon
<1>5. CASE ChannelData
  BY <1>5, DataKeeps, Zenon
<1> QED
  BY <1>1, <1>2, <1>3, <1>4, <1>5, Zenon DEF ProcessCommand

LEMMA AmtReadKeeps ==
    ASSUME IInv, AmtRead, NEW m, m = Head(toAmt), NEW c, c = m.ch PROVE IInv'
<1>1. toAmt # <<>> /\ toAmt' = Tail(toAmt) /\ UNCHANGED serverVars
  BY Zenon DEF AmtRead
<1>2. CASE /\ m.type = "open"
           /\ \E n \in AmtWindows :
                 /\ device' = [device EXCEPT ![c] =
                       [NoEnd EXCEPT !.state = "open", !.window = n,
                                     !.credits = CiraWindow]]
                 /\ toServer' = Append(toServer, Confirm(c, n))
  BY <1>1, <1>2, AcceptKeeps, Zenon
<1>3. CASE /\ m.type = "open"
           /\ device' = [device EXCEPT ![c].state = "closed"]
           /\ toServer' = Append(toServer, Failure(c))
  BY <1>1, <1>3, RefuseKeeps, Zenon
<1>4. CASE /\ m.type = "data"
           /\ device' = IF device[c].state = "open"
                        THEN [device EXCEPT ![c].received = @ \o m.bytes] ELSE device
           /\ UNCHANGED toServer
  BY <1>1, <1>4, AmtDataKeeps, Zenon
<1>5. CASE /\ m.type = "adjust"
           /\ device' = [device EXCEPT ![c].credits = @ + m.n]
           /\ UNCHANGED toServer
  BY <1>1, <1>5, AmtAdjustKeeps, Zenon
<1>6. CASE /\ m.type = "close"
           /\ device' = [device EXCEPT ![c].state = "closed"]
           /\ toServer' = IF device[c].state = "open" THEN Append(toServer, Close(c))
                          ELSE toServer
  BY <1>1, <1>6, AmtReadCloseKeeps, Zenon
<1> QED
  BY <1>2, <1>3, <1>4, <1>5, <1>6, Zenon DEF AmtRead

LEMMA NextKeeps == ASSUME IInv, Next PROVE IInv'
<1>1. CASE SetupChannel
  <2>1. nextchannelid \in Channels
    BY <1>1 DEF IInv, Types, TypeOK, SetupChannel, Channels
  <2> QED
    BY <1>1, <2>1, SetupChannelKeeps, Zenon
<1>2. ASSUME NEW c \in Channels, NEW n \in 1..MaxWritten[c], Write(c, n) PROVE IInv'
  BY <1>2, WriteKeeps, Zenon
<1>3. ASSUME NEW c \in Channels, CloseChannel(c) PROVE IInv'
  BY <1>3, CloseChannelKeeps, Zenon
<1>4. CASE ProcessCommand
  BY <1>4, ProcessCommandKeeps
<1>5. CASE AmtRead
  BY <1>5, AmtReadKeeps, Zenon
<1>6. ASSUME NEW c \in Channels, AmtConsume(c) PROVE IInv'
  BY <1>6, AmtConsumeKeeps, Zenon
<1>7. ASSUME NEW c \in Channels, NEW n \in 1..MaxReplied[c], AmtSend(c, n) PROVE IInv'
  BY <1>7, AmtSendKeeps, Zenon
<1>8. ASSUME NEW c \in Channels, AmtClose(c) PROVE IInv'
  BY <1>8, AmtCloseKeeps, Zenon
<1> QED
  BY <1>1, <1>2, <1>3, <1>4, <1>5, <1>6, <1>7, <1>8, Zenon DEF Next

\* IInv is an inductive invariant, for any number of channels, any windows and
\* any amount of data.
THEOREM Invariance == Spec => []IInv
<1>1. IInv /\ [Next]_vars => IInv'
  BY NextKeeps, Stutters, Zenon
<1> QED
  BY <1>1, InitHolds, PTL DEF Spec

\* Every variable of the connection has its type; in particular the credits of
\* a channel are never negative and what is pending stays within the window.
THEOREM TypeCorrect == Spec => []TypeOK
<1>1. IInv => TypeOK
  BY DEF IInv, Types
<1> QED
  BY <1>1, Invariance, PTL

\* What the device has received of a channel open at both ends, what is on its
\* way and what waits in the server's sendBuffer are, in that order, the bytes
\* that were written: the channel's write, the flush of its buffer by a
\* confirmation or a window adjustment, and the device's reads never lose,
\* repeat or reorder one.
THEOREM StreamIsIntact == Spec => []StreamIntact
<1>1. ASSUME IInv PROVE StreamIntact
  <2>1. SUFFICES ASSUME NEW c \in Channels, channels[c].state = 2, device[c].state = "open"
                 PROVE  device[c].received \o BytesOnTheWay(c) \o channels[c].sendBuffer
                            = [i \in 1..written[c] |-> i]
    BY Zenon DEF StreamIntact
  <2>2. Stream(c)
    BY <1>1 DEF IInv, ChannelInv
  <2>3. channels[c].state # 0 /\ device[c].state # "closed"
    BY <2>1
  <2> QED
    BY <2>2, <2>3, Zenon DEF Stream, BytesOnTheWay
<1> QED
  BY <1>1, Invariance, PTL

\* The server never has more bytes on their way to the device or unread there
\* than the window that the device announced and the credit it gave back, and
\* none of the window that the server announced is ever lost.
THEOREM CreditIsKept == Spec => []CreditKept
<1>1. ASSUME IInv PROVE WindowRespected
  <2>1. SUFFICES ASSUME NEW c \in Channels, device[c].state = "open"
                 PROVE  Len(device[c].received) - device[c].consumed
                            + Len(BytesOnTheWay(c)) <= device[c].window
    BY Zenon DEF WindowRespected
  <2>2. /\ Fresh(c) /\ Opening(c) /\ Confirming(c) /\ Window(c) /\ ReplyWindow(c)
    BY <1>1, Given
  <2>3. /\ Types /\ toAmt \in Seq(ToAmt) /\ toServer \in Seq(ToServer)
    BY <1>1 DEF IInv, Types
  <2>4. /\ channels[c].sendcredits \in Nat /\ Total(toServer, c, "adjust") \in Nat
        /\ device[c].window \in Nat /\ device[c].received \in Seq(Nat)
        /\ device[c].consumed \in Nat /\ BytesIn(toAmt, c) \in Seq(Nat)
    <3>1. channels[c].sendcredits \in Nat
      BY <2>3 DEF Types, TypeOK
    <3>2. device[c].window \in Nat /\ device[c].received \in Seq(Nat) /\ device[c].consumed \in Nat
      BY <2>3 DEF Types
    <3> QED
      BY <2>3, <3>1, <3>2, AmtNumbers, ServerNumbers, Zenon
  <2>5. CASE OnTheWay(toServer, c, "confirm")
    <3>1. device[c].received = <<>> /\ device[c].consumed = 0 /\ ~Of(toAmt, c)
      BY <2>2, <2>5 DEF Confirming
    <3>2. BytesIn(toAmt, c) = <<>>
      <4>1. Len(toAmt) \in Nat /\ ~OnTheWay(toAmt, c, "data")
        BY <2>3, <3>1 DEF Of, OnTheWay
      <4> QED
        BY <4>1, BytesOfNone, Zenon
    <3>3. device[c].window >= 0
      BY <2>4
    <3> QED
      BY <2>4, <3>1, <3>2, <3>3 DEF BytesOnTheWay
  <2>6. CASE ~OnTheWay(toServer, c, "confirm")
    <3> DEFINE credits == channels[c].sendcredits
               unread == Len(device[c].received) - device[c].consumed
               going == Len(BytesIn(toAmt, c))
               back == Total(toServer, c, "adjust")
               window == device[c].window
    <3>1. credits + unread + going + back = window
      BY <2>1, <2>2, <2>6, Zenon DEF Window
    <3>2. credits \in Nat /\ unread \in Int /\ going \in Int /\ back \in Nat /\ window \in Nat
      BY <2>4
    <3> HIDE DEF credits, unread, going, back, window
    <3>3. unread + going <= window
      BY <3>1, <3>2
    <3> QED
      BY <3>3, Zenon DEF unread, going, window, BytesOnTheWay
  <2> QED
    BY <2>5, <2>6
<1>2. ASSUME IInv PROVE ReplyWindowKept
  <2>1. SUFFICES ASSUME NEW c \in Channels, channels[c].state = 2, device[c].state = "open"
                 PROVE  /\ device[c].credits + Total(toServer, c, "data")
                             + Total(toAmt, c, "adjust") + channels[c].amtpendingcredits
                               = CiraWindow
                        /\ 2 * channels[c].amtpendingcredits <= CiraWindow
    BY Zenon DEF ReplyWindowKept
  <2>2. ReplyWindow(c)
    BY <1>2 DEF IInv, ChannelInv
  <2>3. channels[c].state # 0
    BY <2>1
  <2> QED
    BY <2>1, <2>2, <2>3, Zenon DEF ReplyWindow
<1>3. IInv => CreditKept
  BY <1>1, <1>2 DEF CreditKept
<1> QED
  BY <1>3, Invariance, PTL

\* The count of tunnels is right at every moment, and when nothing is on its
\* way a channel is open at the device exactly when the server has it open:
\* however the two ends' closes, a refusal and a close before the confirmation
\* cross, no channel is left open at one end.
THEOREM EndsAlwaysAgree == Spec => []EndsAgree
<1>1. ASSUME IInv PROVE EndsAgree
  <2>1. TunnelsCounted
    BY <1>1 DEF IInv
  <2>2. ASSUME toAmt = <<>>, toServer = <<>>, NEW c \in Channels
        PROVE  device[c].state = "open" <=> channels[c].state = 2
    <3>1. \A t : ~OnTheWay(toAmt, c, t) /\ ~OnTheWay(toServer, c, t)
      BY <2>2 DEF OnTheWay
    <3>2. Closing(c)
      BY <1>1 DEF IInv, ChannelInv, Control
    <3> QED
      BY <3>1, <3>2, Zenon DEF Closing
  <2> QED
    BY <2>1, <2>2, Zenon DEF EndsAgree
<1> QED
  BY <1>1, Invariance, PTL

-----------------------------------------------------------------------------
(***************************************************************************)
(* The connections, for every set of sockets and devices and every choice  *)
(* of types, cookies, overlaps and power polls: the inductive invariant,   *)
(* and the invariants on what the server shows that follow.                *)
(***************************************************************************)

\* A list has no socket twice.
Injective == \A n \in MpsNodes : IsInjective(ciraConnections[n])

\* What is listed has logged in, as the device under which it is listed.
ListedIsAdded ==
    \A n \in MpsNodes : \A s \in Listed(n) : phase[s] = "added" /\ NodeOf[s] = n

\* A connection of an orderly type needs no lookup; while it is listed it is
\* open, the only one of its type, and not shown before its hold ends.
OrderlyAlone ==
    /\ \A s \in Sockets : TypeOf[s] \in Orderly => phase[s] # "lookup"
    /\ \A n \in MpsNodes : \A s \in Listed(n) :
          TypeOf[s] \in Orderly =>
             /\ s \in open
             /\ s \in xxStartHold => ~(Bits(TypeOf[s]) \subseteq shown[n])
             /\ \A r \in Listed(n) : TypeOf[r] = TypeOf[s] => r = s

ConnIInv == /\ ConnTypeOK /\ Injective /\ ListedIsAdded /\ UpIsShown /\ OrderlyAlone
        /\ OrderlyIsExact

-----------------------------------------------------------------------------
\* Appending what is not in the list.
LEMMA AppendList ==
    ASSUME NEW S, NEW list \in Seq(S), NEW s \in S,
           IsInjective(list), s \notin ToSet(list)
    PROVE  /\ Append(list, s) \in Seq(S)
           /\ IsInjective(Append(list, s))
           /\ ToSet(Append(list, s)) = ToSet(list) \cup {s}
<1> DEFINE a == Append(list, s)
<1>1. /\ a \in Seq(S) /\ Len(a) = Len(list) + 1
      /\ DOMAIN list = 1..Len(list) /\ DOMAIN a = 1..(Len(list) + 1)
      /\ \A i \in 1..Len(list) : a[i] = list[i]
      /\ a[Len(list) + 1] = s /\ Len(list) \in Nat
  OBVIOUS
<1> HIDE DEF a
<1>2. IsInjective(a)
  BY <1>1 DEF IsInjective, ToSet
<1>3. ToSet(a) = ToSet(list) \cup {s}
  BY <1>1 DEF ToSet
<1> QED  BY <1>1, <1>2, <1>3 DEF a

\* The length of what follows place i in a list of n.
LEMMA RestLength ==
    ASSUME NEW n \in Nat, NEW i \in 1..n
    PROVE  (IF i + 1 <= n THEN n - (i + 1) + 1 ELSE 0) = n - i
OBVIOUS

\* Taking out the element at place i.
LEMMA RemoveAtList ==
    ASSUME NEW S, NEW list \in Seq(S), IsInjective(list), NEW i \in 1..Len(list)
    PROVE  /\ RemoveAt(list, i) \in Seq(S)
           /\ IsInjective(RemoveAt(list, i))
           /\ ToSet(RemoveAt(list, i)) = ToSet(list) \ {list[i]}
<1> DEFINE w == RemoveAt(list, i)
           s == list[i]
<1>1. i \in 1..Len(list) /\ list[i] = s
  OBVIOUS
<1> HIDE DEF s
<1>2. /\ w \in Seq(S) /\ Len(w) = Len(list) - 1 /\ DOMAIN list = 1..Len(list)
      /\ DOMAIN w = 1..(Len(list) - 1) /\ Len(list) \in Nat
      /\ \A k \in 1..(Len(list) - 1) :
            w[k] = IF k < i THEN list[k] ELSE list[k + 1]
  <2> DEFINE p == SubSeq(list, 1, i - 1)
             q == SubSeq(list, i + 1, Len(list))
  <2>1. Len(list) \in Nat /\ DOMAIN list = 1..Len(list) /\ i \in Nat \ {0}
    BY <1>1
  <2>2. /\ p \in Seq(S) /\ Len(p) = i - 1
        /\ \A k \in 1..(i - 1) : p[k] = list[k]
    <3>1. i - 1 \in Int /\ \A k \in 1..(i - 1) : list[k] \in S
      BY <1>1, <2>1
    <3> QED  BY <1>1, <2>1, <3>1, Seqs!SubSeqProperties
  <2>3. /\ q \in Seq(S) /\ Len(q) = Len(list) - i
        /\ \A k \in 1..(Len(list) - i) : q[k] = list[k + i]
    <3>1. i + 1 \in Int /\ \A k \in (i + 1)..Len(list) : list[k] \in S
      BY <1>1, <2>1
    <3>2. /\ q \in Seq(S)
          /\ Len(q) = IF i + 1 <= Len(list) THEN Len(list) - (i + 1) + 1 ELSE 0
          /\ \A k \in 1..(Len(list) - (i + 1) + 1) : q[k] = list[i + 1 + k - 1]
      BY <1>1, <2>1, <3>1, Seqs!SubSeqProperties
    <3> HIDE DEF q
    <3>3. Len(q) = Len(list) - i
      <4>1. (IF i + 1 <= Len(list) THEN Len(list) - (i + 1) + 1 ELSE 0) = Len(list) - i
        BY <1>1, <2>1, RestLength
      <4> QED  BY <3>2, <4>1
    <3>4. ASSUME NEW k \in 1..(Len(list) - i)  PROVE q[k] = list[k + i]
      <4>1. k \in 1..(Len(list) - (i + 1) + 1) /\ i + 1 + k - 1 = k + i
        BY <1>1, <2>1
      <4> QED  BY <3>2, <4>1
    <3> QED  BY <3>2, <3>3, <3>4
  <2> HIDE DEF p, q
  <2>5. /\ p \o q \in Seq(S) /\ Len(p \o q) = Len(p) + Len(q)
        /\ DOMAIN (p \o q) = 1..Len(p \o q)
        /\ \A k \in 1..(Len(p) + Len(q)) :
              (p \o q)[k] = IF k <= Len(p) THEN p[k] ELSE q[k - Len(p)]
    <3>1. /\ p \o q \in Seq(S) /\ Len(p \o q) = Len(p) + Len(q)
          /\ \A k \in 1..(Len(p) + Len(q)) :
                (p \o q)[k] = IF k <= Len(p) THEN p[k] ELSE q[k - Len(p)]
      BY <2>2, <2>3, Seqs!ConcatProperties
    <3> QED  BY <3>1
  <2>7. ASSUME NEW k \in 1..(Len(list) - 1)
        PROVE  (p \o q)[k] = IF k < i THEN list[k] ELSE list[k + 1]
    <3>1. CASE k < i
      BY <3>1, <1>1, <2>1, <2>2, <2>3, <2>5
    <3>2. CASE ~(k < i)
      <4>1. (p \o q)[k] = q[k - (i - 1)] /\ k - (i - 1) \in 1..(Len(list) - i)
        BY <3>2, <1>1, <2>1, <2>2, <2>3, <2>5
      <4>2. q[k - (i - 1)] = list[k - (i - 1) + i]
        BY <4>1, <2>3
      <4> QED  BY <4>1, <4>2, <3>2, <2>1
    <3> QED  BY <3>1, <3>2
  <2>6. w = p \o q
    BY DEF RemoveAt, p, q
  <2>8. /\ p \o q \in Seq(S) /\ Len(p \o q) = Len(list) - 1
        /\ DOMAIN (p \o q) = 1..(Len(list) - 1)
    BY <2>1, <2>2, <2>3, <2>5
  <2> HIDE DEF w
  <2> QED  BY <2>1, <2>6, <2>7, <2>8
<1> HIDE DEF w
<1>3. IsInjective(w)
  <2> SUFFICES ASSUME NEW k \in DOMAIN w, NEW l \in DOMAIN w, w[k] = w[l]
               PROVE  k = l
    BY DEF IsInjective
  <2> DEFINE At(m) == IF m < i THEN m ELSE m + 1
  <2>1. ASSUME NEW m \in DOMAIN w  PROVE At(m) \in DOMAIN list /\ w[m] = list[At(m)]
    BY <1>1, <1>2
  <2>2. list[At(k)] = list[At(l)] /\ At(k) \in DOMAIN list /\ At(l) \in DOMAIN list
    BY <2>1
  <2>3. At(k) = At(l)
    <3> HIDE DEF At
    <3> QED  BY <2>2 DEF IsInjective
  <2>4. k \in Nat /\ l \in Nat /\ i \in Nat
    BY <1>1, <1>2
  <2> QED  BY <2>3, <2>4
<1>4. ASSUME NEW x \in ToSet(w)  PROVE x \in ToSet(list) /\ x # s
  <2>1. PICK k \in 1..(Len(list) - 1) : w[k] = x
    BY <1>2 DEF ToSet
  <2>2. CASE k < i
    <3>1. x = list[k] /\ k \in 1..Len(list) /\ k # i
      BY <2>1, <2>2, <1>1, <1>2
    <3> QED  BY <3>1, <1>1, <1>2 DEF ToSet, IsInjective
  <2>3. CASE ~(k < i)
    <3>1. x = list[k + 1] /\ k + 1 \in 1..Len(list) /\ k + 1 # i
      BY <2>1, <2>3, <1>1, <1>2
    <3> QED  BY <3>1, <1>1, <1>2 DEF ToSet, IsInjective
  <2> QED  BY <2>2, <2>3
<1>5. ASSUME NEW x \in ToSet(list), x # s  PROVE x \in ToSet(w)
  <2>1. PICK k \in 1..Len(list) : list[k] = x
    BY <1>2 DEF ToSet
  <2>2. CASE k < i
    BY <2>1, <2>2, <1>1, <1>2 DEF ToSet
  <2>3. CASE ~(k < i)
    <3>1. k - 1 \in 1..(Len(list) - 1) /\ w[k - 1] = x
      BY <2>1, <2>3, <1>1, <1>2, <1>5
    <3> QED  BY <3>1, <1>2 DEF ToSet
  <2> QED  BY <2>2, <2>3
<1> HIDE DEF w
<1>6. ToSet(w) = ToSet(list) \ {s}
  BY <1>4, <1>5
<1> QED  BY <1>2, <1>3, <1>6 DEF w, s

-----------------------------------------------------------------------------
\* What Without leaves of a list.
LEMMA WithoutList ==
    ASSUME NEW S, NEW list \in Seq(S), NEW s, IsInjective(list)
    PROVE  /\ Without(list, s) \in Seq(S)
           /\ IsInjective(Without(list, s))
           /\ ToSet(Without(list, s)) = ToSet(list) \ {s}
<1>1. CASE Contains(list, s)
  <2> DEFINE i == CHOOSE j \in 1..Len(list) : list[j] = s
  <2>1. i \in 1..Len(list) /\ list[i] = s
    BY <1>1 DEF Contains
  <2>2. Without(list, s) = RemoveAt(list, i)
    BY <1>1 DEF Without
  <2> HIDE DEF i
  <2> QED  BY <2>1, <2>2, RemoveAtList
<1>2. CASE ~Contains(list, s)
  <2>1. Without(list, s) = list
    BY <1>2 DEF Without
  <2>2. s \notin ToSet(list)
    BY <1>2 DEF Contains, ToSet
  <2> QED  BY <2>1, <2>2
<1> QED  BY <1>1, <1>2

\* What a loop that takes out every other element leaves of a list.
LEMMA EvenList ==
    ASSUME NEW S, NEW list \in Seq(S), IsInjective(list)
    PROVE  LET even == [k \in 1..(Len(list) \div 2) |-> list[2 * k]]
           IN  /\ even \in Seq(S)
               /\ IsInjective(even)
               /\ ToSet(even) = {list[i] : i \in {j \in 1..Len(list) : j % 2 # 1}}
<1> DEFINE h == Len(list) \div 2
           even == [k \in 1..h |-> list[2 * k]]
<1>1. /\ Len(list) \in Nat /\ h \in Nat /\ DOMAIN list = 1..Len(list)
      /\ \A k \in 1..h : 2 * k \in 1..Len(list) /\ (2 * k) % 2 # 1
      /\ \A j \in 1..Len(list) : j % 2 # 1 => j \div 2 \in 1..h /\ 2 * (j \div 2) = j
  OBVIOUS
<1> HIDE DEF h
<1>2. even \in Seq(S) /\ DOMAIN even = 1..h
  BY <1>1
<1>3. IsInjective(even)
  BY <1>1 DEF IsInjective
<1>4. ToSet(even) = {list[i] : i \in {j \in 1..Len(list) : j % 2 # 1}}
  <2>1. ASSUME NEW x \in ToSet(even)
        PROVE  \E i \in 1..Len(list) : i % 2 # 1 /\ x = list[i]
    BY <1>1, <1>2 DEF ToSet
  <2>2. ASSUME NEW i \in 1..Len(list), i % 2 # 1  PROVE list[i] \in ToSet(even)
    <3>1. i \div 2 \in 1..h /\ even[i \div 2] = list[i]
      BY <1>1, <2>2
    <3> QED  BY <3>1, <1>2 DEF ToSet
  <2> QED  BY <2>1, <2>2
<1> QED  BY <1>2, <1>3, <1>4 DEF h

\* The bits of different types are different.
LEMMA BitsOfTypes ==
    /\ \A t \in {CiraType, RelayType, LmsType} : Bits(t) \subseteq {CIRA, Relay}
    /\ \A t, u \in {CiraType, RelayType, LmsType} : t # u => Bits(t) \cap Bits(u) = {}
    /\ Bits(CiraType) = {CIRA} /\ Bits(RelayType) = {Relay} /\ Bits(LmsType) = {}
    /\ CIRA # Relay
  BY DEF Bits, CiraType, RelayType, LmsType, CIRA, Relay

-----------------------------------------------------------------------------
\* What every step needs to know of the state before it.
LEMMA ConnParts ==
    ASSUME ConnIInv
    PROVE  /\ ciraConnections \in [MpsNodes -> Seq(Sockets)]
           /\ phase \in [Sockets -> Phases]
           /\ open \subseteq Sockets /\ xxStartHold \subseteq Sockets
           /\ shown \in [MpsNodes -> SUBSET {CIRA, Relay}]
           /\ dropped \subseteq Sockets
           /\ NodeOf \in [Sockets -> MpsNodes]
           /\ TypeOf \in [Sockets -> {CiraType, RelayType, LmsType}]
           /\ \A n \in MpsNodes : Listed(n) \subseteq Sockets
           /\ Orderly \subseteq {CiraType, RelayType}
<1>1. \A n \in MpsNodes : Listed(n) \subseteq Sockets
  BY DEF ConnIInv, ConnTypeOK, Listed, ToSet
<1> QED  BY <1>1, SocketAssumption DEF ConnIInv, ConnTypeOK, Orderly

THEOREM ConnInitInv == ConnInit => ConnIInv
<1> SUFFICES ASSUME ConnInit  PROVE ConnIInv
  OBVIOUS
<1>1. \A n \in MpsNodes : Listed(n) = {}
  BY DEF ConnInit, Listed, ToSet
<1>2. Injective
  BY DEF ConnInit, Injective, IsInjective
<1>3. ConnTypeOK
  BY DEF ConnInit, ConnTypeOK, Phases
<1>4. ListedIsAdded /\ UpIsShown
  BY <1>1 DEF ListedIsAdded, UpIsShown
<1>5. OrderlyAlone
  BY <1>1 DEF OrderlyAlone, ConnInit
<1>6. OrderlyIsExact
  BY BitsOfTypes DEF OrderlyIsExact, ConnInit, Orderly
<1> QED  BY <1>2, <1>3, <1>4, <1>5, <1>6 DEF ConnIInv

\* addCiraConnection of a socket that has not logged in before.
LEMMA AddStep ==
    ASSUME ConnIInv, NEW s \in Sockets, phase[s] # "added", Add(s), dropped' = dropped,
           open \subseteq open', open' \subseteq open \cup {s},
           TypeOf[s] \in Orderly =>
              /\ s \in open'
              /\ \A r \in Listed(NodeOf[s]) : TypeOf[r] # TypeOf[s]
    PROVE  ConnIInv'
<1> USE ConnParts
<1> DEFINE m == NodeOf[s]
<1>1. m \in MpsNodes /\ s \notin Listed(m)
  BY DEF ConnIInv, ListedIsAdded
<1>2. /\ ciraConnections' = [ciraConnections EXCEPT ![m] = Append(@, s)]
      /\ xxStartHold' = xxStartHold \cup {s}
      /\ phase' = [phase EXCEPT ![s] = "added"]
      /\ shown' = shown
  BY DEF Add
<1>3. /\ Append(ciraConnections[m], s) \in Seq(Sockets)
      /\ IsInjective(Append(ciraConnections[m], s))
      /\ ToSet(Append(ciraConnections[m], s)) = Listed(m) \cup {s}
  <2>1. /\ ciraConnections[m] \in Seq(Sockets) /\ IsInjective(ciraConnections[m])
        /\ s \notin ToSet(ciraConnections[m])
    BY <1>1 DEF ConnIInv, Injective, Listed
  <2> QED  BY <2>1, AppendList DEF Listed
<1>4. \A n \in MpsNodes : Listed(n)' = IF n = m THEN Listed(m) \cup {s} ELSE Listed(n)
  BY <1>1, <1>2, <1>3 DEF Listed
<1>5. ConnTypeOK'
  BY <1>1, <1>2, <1>3 DEF ConnTypeOK, Phases
<1>6. Injective'
  BY <1>1, <1>2, <1>3 DEF Injective, ConnIInv
<1>7. ListedIsAdded'
  BY <1>1, <1>2, <1>4 DEF ListedIsAdded, ConnIInv
<1>8. UpIsShown'
  BY <1>1, <1>2, <1>4 DEF UpIsShown, ConnIInv
<1>9. OrderlyIsExact'
  <2> SUFFICES ASSUME NEW n \in MpsNodes, NEW t \in Orderly, Bits(t) \subseteq shown[n]
               PROVE  \E r \in Listed(n)' \cap open' : TypeOf[r] = t
    BY <1>2 DEF OrderlyIsExact, Orderly
  <2>1. PICK r \in Listed(n) \cap open : TypeOf[r] = t
    BY DEF ConnIInv, OrderlyIsExact
  <2> QED  BY <1>1, <1>4, <2>1
<1>10. OrderlyAlone'
  <2>1. \A r \in Sockets : TypeOf[r] \in Orderly => phase'[r] # "lookup"
    BY <1>2 DEF ConnIInv, OrderlyAlone
  <2>2. TypeOf[s] \in Orderly => ~(Bits(TypeOf[s]) \subseteq shown[m])
    BY <1>1 DEF ConnIInv, OrderlyIsExact
  <2>3. ASSUME NEW n \in MpsNodes, NEW r \in Listed(n)', TypeOf[r] \in Orderly
        PROVE  /\ r \in open'
               /\ r \in xxStartHold' => ~(Bits(TypeOf[r]) \subseteq shown'[n])
               /\ \A q \in Listed(n)' : TypeOf[q] = TypeOf[r] => q = r
    <3>1. CASE r = s
      <4>1. n = m
        BY <3>1, <2>3, <1>1, <1>4, <1>7, <1>2 DEF ListedIsAdded, ConnIInv
      <4> QED  BY <3>1, <4>1, <2>2, <2>3, <1>1, <1>2, <1>4
    <3>2. CASE r # s
      <4>1. r \in Listed(n)
        BY <3>2, <2>3, <1>4
      <4>2. /\ r \in open /\ (r \in xxStartHold => ~(Bits(TypeOf[r]) \subseteq shown[n]))
            /\ \A q \in Listed(n) : TypeOf[q] = TypeOf[r] => q = r
        BY <4>1, <2>3 DEF ConnIInv, OrderlyAlone
      <4> QED  BY <3>2, <4>1, <4>2, <2>3, <1>1, <1>2, <1>4, ZenonT(40)
    <3> QED  BY <3>1, <3>2
  <2>4. Orderly' = Orderly
    BY DEF Orderly
  <2> QED  BY <2>1, <2>3, <2>4 DEF OrderlyAlone
<1> QED  BY <1>5, <1>6, <1>7, <1>8, <1>9, <1>10 DEF ConnIInv


\* removeCiraConnection of a socket, which may close as well.
LEMMA UnlistStep ==
    ASSUME ConnIInv, NEW s \in Sockets, Unlist(s), open' = open \/ open' = open \ {s},
           UNCHANGED <<phase, xxStartHold, dropped>>
    PROVE  ConnIInv'
<1> USE ConnParts
<1> DEFINE m == NodeOf[s]
           list == ciraConnections[m]
           bits == RemainingBits(s, list, shown[m])
<1>1. /\ m \in MpsNodes /\ list \in Seq(Sockets) /\ IsInjective(list)
      /\ ciraConnections' = [ciraConnections EXCEPT ![m] = Without(list, s)]
      /\ shown' = [shown EXCEPT ![m] = bits]
      /\ phase' = phase /\ xxStartHold' = xxStartHold /\ dropped' = dropped
  BY DEF Unlist, ConnIInv, Injective
<1>2. /\ Without(list, s) \in Seq(Sockets) /\ IsInjective(Without(list, s))
      /\ ToSet(Without(list, s)) = Listed(m) \ {s}
  BY <1>1, WithoutList DEF Listed
<1>3. \A n \in MpsNodes : Listed(n)' = Listed(n) \ {s}
  <2>1. \A n \in MpsNodes : n # m => s \notin Listed(n)
    BY DEF ConnIInv, ListedIsAdded
  <2> QED  BY <1>1, <1>2, <2>1 DEF Listed
<1>13. /\ Contains(list, s) <=> s \in Listed(m)
       /\ (\E i \in 1..Len(list) : list[i] # s /\ TypeOf[list[i]] = TypeOf[s])
             <=> (\E r \in Listed(m) : r # s /\ TypeOf[r] = TypeOf[s])
  <2>1. DOMAIN list = 1..Len(list) /\ Listed(m) = {list[i] : i \in 1..Len(list)}
    BY <1>1 DEF Listed, ToSet
  <2> HIDE DEF list
  <2> QED  BY <2>1 DEF Contains
<1>4. \/ bits = shown[m]
      \/ /\ bits = shown[m] \ Bits(TypeOf[s])
         /\ \A r \in Listed(m) : r # s => TypeOf[r] # TypeOf[s]
  BY <1>13 DEF RemainingBits
<1>5. /\ s \in Listed(m) /\ s \notin xxStartHold
      /\ \A r \in Listed(m) : TypeOf[r] = TypeOf[s] => r = s
      => bits = shown[m] \ Bits(TypeOf[s])
  BY <1>13 DEF RemainingBits
<1> HIDE DEF bits, list
<1>6. \A n \in MpsNodes : shown'[n] \subseteq shown[n]
  BY <1>1, <1>4
<1>7. ConnTypeOK'
  BY <1>1, <1>2, <1>4 DEF ConnTypeOK, Phases
<1>8. Injective'
  BY <1>1, <1>2 DEF Injective, ConnIInv
<1>9. ListedIsAdded'
  BY <1>1, <1>3 DEF ListedIsAdded, ConnIInv
<1>10. UpIsShown'
  <2> SUFFICES ASSUME NEW n \in MpsNodes, NEW r \in Listed(n) \ xxStartHold, r # s
               PROVE  Bits(TypeOf[r]) \subseteq shown'[n]
    BY <1>1, <1>3 DEF UpIsShown
  <2>1. Bits(TypeOf[r]) \subseteq shown[n]
    BY DEF ConnIInv, UpIsShown
  <2>2. n = m /\ TypeOf[r] # TypeOf[s] => Bits(TypeOf[r]) \cap Bits(TypeOf[s]) = {}
    BY BitsOfTypes
  <2> QED  BY <1>1, <1>4, <2>1, <2>2
<1>11. OrderlyIsExact'
  <2> SUFFICES ASSUME NEW n \in MpsNodes, NEW t \in Orderly, Bits(t) \subseteq shown'[n]
               PROVE  \E r \in Listed(n)' \cap open' : TypeOf[r] = t
    BY DEF OrderlyIsExact, Orderly
  <2>1. PICK r \in Listed(n) \cap open : TypeOf[r] = t
    BY <1>6 DEF ConnIInv, OrderlyIsExact
  <2>2. r # s
    <3> SUFFICES ASSUME r = s  PROVE FALSE
      OBVIOUS
    <3>1. n = m /\ s \in Listed(m)
      BY <2>1 DEF ConnIInv, ListedIsAdded
    <3>2. s \notin xxStartHold /\ \A q \in Listed(m) : TypeOf[q] = TypeOf[s] => q = s
      BY <2>1, <3>1, <1>6 DEF ConnIInv, OrderlyAlone
    <3>3. shown'[n] = shown[n] \ Bits(t)
      BY <2>1, <3>1, <3>2, <1>1, <1>5
    <3>4. Bits(t) # {}
      BY BitsOfTypes
    <3> QED  BY <3>3, <3>4
  <2> QED  BY <2>1, <2>2, <1>3
<1>12. OrderlyAlone'
  <2>1. Orderly' = Orderly
    BY DEF Orderly
  <2>2. ASSUME NEW n \in MpsNodes, NEW r \in Listed(n)', TypeOf[r] \in Orderly
        PROVE  /\ r \in open'
               /\ r \in xxStartHold' => ~(Bits(TypeOf[r]) \subseteq shown'[n])
               /\ \A q \in Listed(n)' : TypeOf[q] = TypeOf[r] => q = r
    <3>1. /\ r \in open /\ (r \in xxStartHold => ~(Bits(TypeOf[r]) \subseteq shown[n]))
          /\ \A q \in Listed(n) : TypeOf[q] = TypeOf[r] => q = r
      BY <1>3, <2>2 DEF ConnIInv, OrderlyAlone
    <3> QED  BY <3>1, <1>1, <1>3, <1>6, <2>2
  <2> QED  BY <2>1, <2>2, <1>1 DEF OrderlyAlone, ConnIInv
<1> QED  BY <1>7, <1>8, <1>9, <1>10, <1>11, <1>12 DEF ConnIInv

\* A step that leaves the lists alone, and shows of a device some of what is
\* listed there and past its hold.
LEMMA ShowStep ==
    ASSUME ConnIInv, NEW s \in Sockets, NEW b \in SUBSET {CIRA, Relay},
           UNCHANGED <<ciraConnections, phase, open, dropped>>,
           xxStartHold' = xxStartHold \ {s},
           shown' = [shown EXCEPT ![NodeOf[s]] = @ \cup b],
           s \in Listed(NodeOf[s]) \ xxStartHold' => Bits(TypeOf[s]) \subseteq shown'[NodeOf[s]],
           \A t \in Orderly : Bits(t) \subseteq b =>
               s \in Listed(NodeOf[s]) /\ TypeOf[s] = t,
           \A t \in Orderly : Bits(t) \subseteq b \/ Bits(t) \cap b = {}
    PROVE  ConnIInv'
<1> USE ConnParts
<1> DEFINE m == NodeOf[s]
<1>1. m \in MpsNodes /\ \A n \in MpsNodes : Listed(n)' = Listed(n)
  BY DEF Listed
<1>2. ConnTypeOK' /\ Injective' /\ ListedIsAdded'
  BY <1>1 DEF ConnTypeOK, Injective, ListedIsAdded, ConnIInv
<1>3. UpIsShown'
  <2> SUFFICES ASSUME NEW n \in MpsNodes, NEW r \in Listed(n), r \notin xxStartHold'
               PROVE  Bits(TypeOf[r]) \subseteq shown'[n]
    BY <1>1 DEF UpIsShown
  <2>1. CASE r = s
    <3>1. n = m
      BY <2>1 DEF ConnIInv, ListedIsAdded
    <3> QED  BY <2>1, <3>1
  <2>2. CASE r # s
    BY <2>2 DEF ConnIInv, UpIsShown
  <2> QED  BY <2>1, <2>2
<1>4. \A t \in Orderly : Bits(t) # {} /\ Bits(t) \in {{CIRA}, {Relay}}
  BY BitsOfTypes
<1>5. \A n \in MpsNodes, t \in Orderly :
         Bits(t) \subseteq shown'[n] =>
            \/ Bits(t) \subseteq shown[n]
            \/ n = m /\ Bits(t) \subseteq b
  BY <1>4
<1>6. OrderlyAlone'
  <2>1. Orderly' = Orderly
    BY DEF Orderly
  <2>2. ASSUME NEW n \in MpsNodes, NEW r \in Listed(n)', TypeOf[r] \in Orderly
        PROVE  /\ r \in open'
               /\ r \in xxStartHold' => ~(Bits(TypeOf[r]) \subseteq shown'[n])
               /\ \A q \in Listed(n)' : TypeOf[q] = TypeOf[r] => q = r
    <3>1. /\ r \in Listed(n)
          /\ r \in open /\ (r \in xxStartHold => ~(Bits(TypeOf[r]) \subseteq shown[n]))
          /\ \A q \in Listed(n) : TypeOf[q] = TypeOf[r] => q = r
      BY <1>1, <2>2 DEF ConnIInv, OrderlyAlone
    <3>2. ASSUME r \in xxStartHold', Bits(TypeOf[r]) \subseteq shown'[n]  PROVE FALSE
      <4>1. n = m /\ Bits(TypeOf[r]) \subseteq b
        BY <3>1, <3>2, <2>2, <1>5
      <4>2. s \in Listed(m) /\ TypeOf[s] = TypeOf[r]
        BY <4>1, <2>2
      <4> QED  BY <4>1, <4>2, <3>1, <3>2
    <3> QED  BY <3>1, <3>2, <1>1
  <2> QED  BY <2>1, <2>2 DEF OrderlyAlone, ConnIInv
<1>7. OrderlyIsExact'
  <2> SUFFICES ASSUME NEW n \in MpsNodes, NEW t \in Orderly, Bits(t) \subseteq shown'[n]
               PROVE  \E r \in Listed(n)' \cap open' : TypeOf[r] = t
    BY DEF OrderlyIsExact, Orderly
  <2>1. CASE Bits(t) \subseteq shown[n]
    BY <2>1, <1>1 DEF ConnIInv, OrderlyIsExact
  <2>2. CASE n = m /\ Bits(t) \subseteq b
    BY <2>2, <1>1 DEF ConnIInv, OrderlyAlone
  <2> QED  BY <2>1, <2>2, <1>5
<1> QED  BY <1>2, <1>3, <1>6, <1>7 DEF ConnIInv

\* closeAllForNode: what it takes out of the list it closes, and a bit that it
\* clears is that of no connection that is left.
LEMMA CloseAllStep ==
    ASSUME ConnIInv, NEW m \in MpsNodes, CloseAllForNode(m)
    PROVE  ConnIInv'
<1> USE ConnParts
<1> DEFINE list == ciraConnections[m]
           L == 1..Len(list)
           met == {i \in L : i % 2 = 1}
           clears(i) == /\ list[i] \notin xxStartHold
                        /\ \A j \in L :
                              TypeOf[list[j]] = TypeOf[list[i]] => j \in met /\ j <= i
           left == [k \in 1..(Len(list) \div 2) |-> list[2 * k]]
           cleared == UNION {Bits(TypeOf[list[i]]) : i \in {j \in met : clears(j)}}
<1>1. /\ list \in Seq(Sockets) /\ IsInjective(list)
      /\ open' = open \ {list[i] : i \in met}
      /\ ciraConnections' = [ciraConnections EXCEPT ![m] = left]
      /\ shown' = [shown EXCEPT ![m] = @ \ cleared]
      /\ dropped' = dropped \cup Listed(m)
      /\ phase' = phase /\ xxStartHold' = xxStartHold
  BY DEF CloseAllForNode, ConnIInv, Injective
<1>2. /\ DOMAIN list = L /\ Listed(m) = {list[i] : i \in L} /\ L \subseteq Nat
      /\ \A i, j \in L : list[i] = list[j] => i = j
      /\ \A i \in L : list[i] \in Sockets
  <2>1. Listed(m) = ToSet(list)
    BY DEF Listed
  <2> HIDE DEF list
  <2>2. DOMAIN list = L /\ L \subseteq Nat /\ \A i \in L : list[i] \in Sockets
    BY <1>1
  <2>3. Listed(m) = {list[i] : i \in L}
    BY <2>1, <2>2 DEF ToSet
  <2>4. \A i, j \in L : list[i] = list[j] => i = j
    BY <1>1, <2>2 DEF IsInjective
  <2> QED  BY <2>2, <2>3, <2>4
<1>3. /\ left \in Seq(Sockets) /\ IsInjective(left)
      /\ ToSet(left) = {list[i] : i \in {j \in L : j % 2 # 1}}
  BY <1>1, EvenList
<1> HIDE DEF left, list, L
<1>12. \A x : x \in cleared <=> \E i \in met : clears(i) /\ x \in Bits(TypeOf[list[i]])
  <2> HIDE DEF clears, met
  <2> QED  OBVIOUS
<1>13. /\ met \subseteq L
       /\ \A i \in met : clears(i) <=>
             /\ list[i] \notin xxStartHold
             /\ \A j \in L : TypeOf[list[j]] = TypeOf[list[i]] => j \in met /\ j <= i
  OBVIOUS
<1> HIDE DEF clears, met, cleared
<1>4. \A n \in MpsNodes :
         Listed(n)' = IF n = m THEN {list[i] : i \in L \ met} ELSE Listed(n)
  <2>1. {list[i] : i \in {j \in L : j % 2 # 1}} = {list[i] : i \in L \ met}
    <3>1. {j \in L : j % 2 # 1} = L \ met
      BY <1>2 DEF met
    <3> QED  BY <3>1
  <2> QED  BY <1>1, <1>3, <2>1 DEF Listed
<1>5. \A n \in MpsNodes : \A r \in Listed(n)' :
         r \in Listed(n) /\ r \notin {list[i] : i \in met}
  <2> SUFFICES ASSUME NEW n \in MpsNodes, NEW r \in Listed(n)'
               PROVE  r \in Listed(n) /\ r \notin {list[i] : i \in met}
    OBVIOUS
  <2>1. CASE n = m
    <3>1. PICK j \in L \ met : r = list[j]
      BY <1>4, <2>1
    <3> QED  BY <3>1, <1>2, <1>13, <2>1
  <2>2. CASE n # m
    <3>1. r \in Listed(n) /\ NodeOf[r] = n
      BY <1>4, <2>2 DEF ConnIInv, ListedIsAdded
    <3>2. \A i \in L : NodeOf[list[i]] = m
      BY <1>2 DEF ConnIInv, ListedIsAdded
    <3> QED  BY <3>1, <3>2, <2>2, <1>13
  <2> QED  BY <2>1, <2>2
<1>6. \A n \in MpsNodes : shown'[n] = IF n = m THEN shown[m] \ cleared ELSE shown[n]
  BY <1>1
<1>7. ConnTypeOK'
  <2>1. shown' \in [MpsNodes -> SUBSET {CIRA, Relay}]
    BY <1>1
  <2> QED  BY <1>1, <1>3, <2>1 DEF ConnTypeOK, Phases
<1>8. Injective' /\ ListedIsAdded'
  BY <1>1, <1>3, <1>5 DEF Injective, ListedIsAdded, ConnIInv
<1>9. UpIsShown'
  <2> SUFFICES ASSUME NEW n \in MpsNodes, NEW r \in Listed(n)', r \notin xxStartHold
               PROVE  Bits(TypeOf[r]) \subseteq shown'[n]
    BY <1>1 DEF UpIsShown
  <2>1. Bits(TypeOf[r]) \subseteq shown[n] /\ r \in Sockets
    BY <1>5 DEF ConnIInv, UpIsShown
  <2>2. n = m => Bits(TypeOf[r]) \cap cleared = {}
    <3> SUFFICES ASSUME n = m, NEW i \in met, clears(i)
                 PROVE  Bits(TypeOf[r]) \cap Bits(TypeOf[list[i]]) = {}
      BY <1>12
    <3>1. PICK j \in L \ met : r = list[j]
      BY <1>4
    <3>2. TypeOf[r] # TypeOf[list[i]]
      BY <3>1, <1>13
    <3>3. i \in L /\ list[i] \in Sockets
      BY <1>2, <1>13
    <3> QED  BY <3>2, <3>3, <2>1, BitsOfTypes
  <2> QED  BY <2>1, <2>2, <1>6
<1>10. OrderlyIsExact'
  <2> SUFFICES ASSUME NEW n \in MpsNodes, NEW t \in Orderly, Bits(t) \subseteq shown'[n]
               PROVE  \E r \in Listed(n)' \cap open' : TypeOf[r] = t
    BY DEF OrderlyIsExact, Orderly
  <2>1. Bits(t) \subseteq shown[n]
    BY <1>6
  <2>2. PICK r \in Listed(n) \cap open : TypeOf[r] = t
    BY <2>1 DEF ConnIInv, OrderlyIsExact
  <2>3. r \notin xxStartHold /\ \A q \in Listed(n) : TypeOf[q] = t => q = r
    BY <2>1, <2>2 DEF ConnIInv, OrderlyAlone
  <2>4. r \in Listed(n)'
    <3>1. CASE n = m
      <4>1. PICK j \in L : r = list[j]
        BY <3>1, <2>2, <1>2
      <4>2. ASSUME j \in met  PROVE FALSE
        <5>1. clears(j)
          <6>1. \A k \in L : TypeOf[list[k]] = t => k = j
            BY <4>1, <3>1, <2>3, <1>2
          <6>2. j <= j
            BY <1>2
          <6> QED  BY <6>1, <6>2, <4>1, <4>2, <2>2, <2>3, <1>13
        <5>2. Bits(t) \subseteq cleared
          BY <5>1, <4>1, <4>2, <2>2, <1>12
        <5>3. Bits(t) # {}
          BY BitsOfTypes
        <5> QED  BY <5>2, <5>3, <3>1, <1>6
      <4> QED  BY <4>1, <4>2, <3>1, <1>4
    <3>2. CASE n # m
      BY <3>2, <2>2, <1>4
    <3> QED  BY <3>1, <3>2
  <2> QED  BY <2>2, <2>4, <1>1, <1>5
<1>11. OrderlyAlone'
  <2>1. Orderly' = Orderly
    BY DEF Orderly
  <2>2. ASSUME NEW n \in MpsNodes, NEW r \in Listed(n)', TypeOf[r] \in Orderly
        PROVE  /\ r \in open'
               /\ r \in xxStartHold' => ~(Bits(TypeOf[r]) \subseteq shown'[n])
               /\ \A q \in Listed(n)' : TypeOf[q] = TypeOf[r] => q = r
    <3>1. /\ r \in open /\ (r \in xxStartHold => ~(Bits(TypeOf[r]) \subseteq shown[n]))
          /\ \A q \in Listed(n) : TypeOf[q] = TypeOf[r] => q = r
      BY <1>5, <2>2 DEF ConnIInv, OrderlyAlone
    <3> QED  BY <3>1, <1>1, <1>5, <1>6, <2>2
  <2> QED  BY <2>1, <2>2, <1>1 DEF OrderlyAlone, ConnIInv
<1> QED  BY <1>7, <1>8, <1>9, <1>10, <1>11 DEF ConnIInv

\* Every step keeps the invariant.
THEOREM ConnNextInv == ConnIInv /\ [ConnNext]_connVars => ConnIInv'
<1> SUFFICES ASSUME ConnIInv, [ConnNext]_connVars  PROVE ConnIInv'
  OBVIOUS
<1> USE ConnParts
<1>1. ASSUME NEW s \in Sockets, Connect(s)  PROVE ConnIInv'
  <2>1. \A r \in open \cup Listed(NodeOf[s]) :
           TypeOf[s] \in Orderly /\ NodeOf[r] = NodeOf[s] => TypeOf[r] # TypeOf[s]
    BY <1>1 DEF Connect, Orderly
  <2>2. CASE s \in Cookie
    <3>1. \A r \in Listed(NodeOf[s]) : NodeOf[r] = NodeOf[s]
      BY DEF ConnIInv, ListedIsAdded
    <3>2. /\ phase[s] # "added" /\ Add(s) /\ dropped' = dropped /\ open' = open \cup {s}
      BY <1>1, <2>2 DEF Connect
    <3> QED  BY <2>1, <3>1, <3>2, AddStep
  <2>3. CASE s \notin Cookie
    <3>1. /\ open' = open \cup {s} /\ phase' = [phase EXCEPT ![s] = "lookup"]
          /\ phase[s] = "new" /\ TypeOf[s] \notin Orderly
          /\ UNCHANGED <<ciraConnections, xxStartHold, shown, dropped>>
      BY <1>1, <2>3 DEF Connect, Orderly
    <3>2. \A n \in MpsNodes : Listed(n)' = Listed(n) /\ s \notin Listed(n)
      BY <3>1 DEF Listed, ConnIInv, ListedIsAdded
    <3>3. ConnTypeOK' /\ Injective' /\ ListedIsAdded'
      BY <3>1, <3>2 DEF ConnIInv, ConnTypeOK, Injective, ListedIsAdded, Phases
    <3>4. UpIsShown'
      BY <3>1, <3>2 DEF ConnIInv, UpIsShown
    <3>5. OrderlyAlone' /\ OrderlyIsExact'
      <4>1. Orderly' = Orderly
        BY DEF Orderly
      <4>2. OrderlyAlone'
        BY <3>1, <3>2, <4>1 DEF ConnIInv, OrderlyAlone
      <4>3. OrderlyIsExact'
        BY <3>1, <3>2, <4>1 DEF ConnIInv, OrderlyIsExact
      <4> QED  BY <4>2, <4>3
    <3> QED  BY <3>3, <3>4, <3>5 DEF ConnIInv
  <2> QED  BY <2>2, <2>3
<1>2. ASSUME NEW s \in Sockets, LoginAccepted(s)  PROVE ConnIInv'
  <2>1. phase[s] = "lookup" /\ Add(s) /\ open' = open /\ dropped' = dropped
    BY <1>2 DEF LoginAccepted
  <2>2. TypeOf[s] \notin Orderly
    BY <2>1 DEF ConnIInv, OrderlyAlone
  <2> QED  BY <2>1, <2>2, AddStep
<1>3. ASSUME NEW s \in Sockets, LoginRefused(s)  PROVE ConnIInv'
  <2>1. /\ open' = open \ {s} /\ phase' = [phase EXCEPT ![s] = "refused"]
        /\ phase[s] = "lookup"
        /\ UNCHANGED <<ciraConnections, xxStartHold, shown, dropped>>
    BY <1>3 DEF LoginRefused
  <2>2. \A n \in MpsNodes : Listed(n)' = Listed(n) /\ s \notin Listed(n)
    BY <2>1 DEF Listed, ConnIInv, ListedIsAdded
  <2>3. ConnTypeOK' /\ Injective' /\ ListedIsAdded'
    BY <2>1, <2>2 DEF ConnIInv, ConnTypeOK, Injective, ListedIsAdded, Phases
  <2>4. UpIsShown'
    BY <2>1, <2>2 DEF ConnIInv, UpIsShown
  <2>5. Orderly' = Orderly
    BY DEF Orderly
  <2>6. OrderlyAlone'
    BY <2>1, <2>2, <2>5 DEF ConnIInv, OrderlyAlone
  <2>7. OrderlyIsExact'
    BY <2>1, <2>2, <2>5 DEF ConnIInv, OrderlyIsExact
  <2> QED  BY <2>3, <2>4, <2>6, <2>7 DEF ConnIInv
<1>4. ASSUME NEW s \in Sockets, HoldEnds(s)  PROVE ConnIInv'
  <2> DEFINE b == IF s \in Listed(NodeOf[s]) THEN Bits(TypeOf[s]) ELSE {}
  <2>1. /\ UNCHANGED <<ciraConnections, phase, open, dropped>>
        /\ xxStartHold' = xxStartHold \ {s}
        /\ shown' = [shown EXCEPT ![NodeOf[s]] = @ \cup b]
    BY <1>4 DEF HoldEnds
  <2>2. /\ b \in SUBSET {CIRA, Relay}
        /\ \A t \in Orderly : Bits(t) \subseteq b =>
              s \in Listed(NodeOf[s]) /\ TypeOf[s] = t
        /\ \A t \in Orderly : Bits(t) \subseteq b \/ Bits(t) \cap b = {}
    BY BitsOfTypes
  <2>3. s \in Listed(NodeOf[s]) => Bits(TypeOf[s]) \subseteq shown'[NodeOf[s]]
    BY <2>1
  <2> HIDE DEF b
  <2> QED  BY <2>1, <2>2, <2>3, ShowStep
<1>5. ASSUME NEW s \in Sockets, SocketClosed(s)  PROVE ConnIInv'
  BY <1>5, UnlistStep DEF SocketClosed
<1>6. ASSUME NEW s \in Sockets, Disconnect(s)  PROVE ConnIInv'
  BY <1>6, UnlistStep DEF Disconnect
<1>7. ASSUME NEW n \in MpsNodes, CloseAllForNode(n)  PROVE ConnIInv'
  BY <1>7, CloseAllStep
<1>8. ASSUME NEW s \in Sockets, PowerPoll(s)  PROVE ConnIInv'
  <2>1. /\ UNCHANGED <<ciraConnections, phase, open, dropped>>
        /\ s \in PowerPolls /\ s \in Listed(NodeOf[s]) \ xxStartHold
        /\ xxStartHold' = xxStartHold \ {s}
        /\ shown' = [shown EXCEPT ![NodeOf[s]] = @ \cup {CIRA}]
    BY <1>8 DEF PowerPoll
  <2>2. CiraType \in Orderly => TypeOf[s] = CiraType
    BY <2>1 DEF Orderly
  <2>3. /\ \A t \in Orderly : Bits(t) \subseteq {CIRA} =>
              s \in Listed(NodeOf[s]) /\ TypeOf[s] = t
        /\ \A t \in Orderly : Bits(t) \subseteq {CIRA} \/ Bits(t) \cap {CIRA} = {}
    BY <2>1, <2>2, BitsOfTypes
  <2>4. Bits(TypeOf[s]) \subseteq shown'[NodeOf[s]]
    BY <2>1 DEF ConnIInv, UpIsShown
  <2> QED  BY <2>1, <2>3, <2>4, ShowStep
<1>9. CASE UNCHANGED connVars
  <2>1. Orderly' = Orderly /\ \A n \in MpsNodes : Listed(n)' = Listed(n)
    BY <1>9 DEF Orderly, connVars, Listed
  <2>2. ConnTypeOK' /\ Injective' /\ ListedIsAdded' /\ UpIsShown'
    BY <1>9, <2>1 DEF ConnIInv, connVars, ConnTypeOK, Injective, ListedIsAdded, UpIsShown
  <2>3. OrderlyAlone' /\ OrderlyIsExact'
    BY <1>9, <2>1 DEF ConnIInv, connVars, OrderlyAlone, OrderlyIsExact
  <2> QED  BY <2>2, <2>3 DEF ConnIInv
<1> QED  BY <1>1, <1>2, <1>3, <1>4, <1>5, <1>6, <1>7, <1>8, <1>9 DEF ConnNext

\* The inductive invariant holds in every reachable state.
THEOREM ConnInvariance == ConnSpec => []ConnIInv
  BY ConnInitInv, ConnNextInv, PTL DEF ConnSpec

\* Each variable keeps its type.
THEOREM ConnTypeCorrect == ConnSpec => []ConnTypeOK
<1>1. ConnIInv => ConnTypeOK
  BY DEF ConnIInv
<1> QED  BY <1>1, ConnInvariance, PTL

\* A connection that is listed and past its hold is shown, whatever becomes of
\* the other connections of its device.
THEOREM UpIsAlwaysShown == ConnSpec => []UpIsShown
<1>1. ConnIInv => UpIsShown
  BY DEF ConnIInv
<1> QED  BY <1>1, ConnInvariance, PTL

\* The bit of a type whose connections follow each other is shown exactly of
\* devices with an open connection of that type.
THEOREM OrderlyIsAlwaysExact == ConnSpec => []OrderlyIsExact
<1>1. ConnIInv => OrderlyIsExact
  BY DEF ConnIInv
<1> QED  BY <1>1, ConnInvariance, PTL
=============================================================================
