-------------------------- MODULE AmtScannerProofs --------------------------
(***************************************************************************)
(* Proofs about AmtScanner and AmtManager for any number of devices, hosts *)
(* and slots: a host of the local network is in one first contact at a     *)
(* time, and a device that leaves the list of managed ones leaves its slot *)
(* of the task limiter.  The lemmas are about the operators of AmtManager, *)
(* which take and give the state of the manager as a record.               *)
(***************************************************************************)
EXTENDS AmtScanner, FiniteSetTheorems, WellFoundedInduction, TLAPS

Seqs == INSTANCE SequenceTheorems


\* What a state of the manager is.
ManagerState ==
    [dev : [Devs -> Object \cup {None}], list : [Nodes -> Seq(Devs)],
     active : SUBSET Hosts, current : SUBSET Devs, pending : Seq(Devs)]

\* A device is listed once, as one of its node.
ListsAreRight(m) ==
    \A n \in Nodes :
        /\ \A i, j \in DOMAIN m.list[n] : m.list[n][i] = m.list[n][j] => i = j
        /\ \A i \in DOMAIN m.list[n] :
              m.dev[m.list[n][i]] # None /\ m.dev[m.list[n][i]].node = n

\* What is held is in the queue, once, and has no slot; what has one and is
\* listed is neither held nor done; slots are free only when nothing is held.
HeldRight(m) ==
    /\ \A p, q \in DOMAIN m.pending : m.pending[p] = m.pending[q] => p = q
    /\ \A p \in DOMAIN m.pending :
          /\ m.dev[m.pending[p]] # None /\ m.dev[m.pending[p]].phase = "held"
          /\ m.pending[p] \notin m.current
SlotsRight(m) ==
    \A d \in m.current : IsAmtDeviceValid(m, d) => m.dev[d].phase \notin {"held", "done"}
SlotsInUse(m) ==
    IsFiniteSet(m.current) /\ (m.pending # <<>> => Cardinality(m.current) >= MaxTasks)

\* While TLS is set up a query is on its way.
TlsRight(m) ==
    \A d \in Devs : m.dev[d] # None /\ m.dev[d].phase = "tls" => m.dev[d].calls > 0

\* The devices of a node are held in the order of its list, the last ones.
HeldInOrder(m) ==
    \A n \in Nodes : \A i, j \in DOMAIN m.list[n] : i < j =>
        \A p \in DOMAIN m.pending : m.pending[p] = m.list[n][i] =>
            \E q \in DOMAIN m.pending : p < q /\ m.pending[q] = m.list[n][j]

\* ContactsAlone, of the devices D in a state.
InContact(m, d) == m.dev[d] # None /\ m.dev[d].phase = "contact"
Alone(m, D) ==
    \A d \in D : InContact(m, d) /\ Local(m, d) =>
        /\ m.dev[d].conn \in m.active
        /\ \A e \in D \ {d} : InContact(m, e) => m.dev[e].conn # m.dev[d].conn

\* A handler may leave devices for its next step to deal with: those not in D.
Sound(m, D) ==
    /\ m \in ManagerState
    /\ ListsAreRight(m)
    /\ HeldRight(m)
    /\ SlotsRight(m)
    /\ SlotsInUse(m)
    /\ TlsRight(m)
    /\ HeldInOrder(m)
    /\ Alone(m, D)
Right(m) == Sound(m, Devs)

IInv ==
    /\ Right(Manager)
    /\ TypeOK
    /\ probes \subseteq [node : Nodes, to : Hosts, host : Hosts, shows : BOOLEAN]

\* What handlers may do to the slots.  When one has begun with state m and ends
\* with state r: what has a slot without being listed had it so before, or left
\* beside another.
LeavesBeside(m, r, d) ==
    \E e \in Devs \ {d} :
        /\ IsAmtDeviceValid(m, e) /\ ~IsAmtDeviceValid(r, e)
        /\ m.dev[e].phase = "tls" /\ m.dev[e].node = m.dev[d].node
SlotsFollow(m, r) ==
    \A d \in r.current :
        \/ IsAmtDeviceValid(r, d)
        \/ ~IsAmtDeviceValid(m, d) /\ d \in m.current
        \/ IsAmtDeviceValid(m, d) /\ LeavesBeside(m, r, d)

\* A step of a handler lists no device again and sets up TLS with none that it did
\* not set up before.
Remains(m, r) ==
    \A d \in Devs : IsAmtDeviceValid(r, d) =>
        /\ IsAmtDeviceValid(m, d) /\ r.dev[d].node = m.dev[d].node
        /\ r.dev[d].phase = "tls" => m.dev[d].phase = "tls"
Follows(m, r) == Remains(m, r) /\ SlotsFollow(m, r)
-----------------------------------------------------------------------------
(***************************************************************************)
(* Induction.                                                              *)
(***************************************************************************)

LEMMA LeastOfNat ==
    ASSUME NEW T \in SUBSET Nat, T # {}
    PROVE  \E x \in T : \A y \in T : x <= y
<1> DEFINE TT == {0..n : n \in T}
<1>1. IsWellFoundedOn(StrictSubsetOrdering(Nat), FiniteSubsetsOf(Nat))
  BY FS_StrictSubsetOrderingWellFounded
<1>2. TT \subseteq FiniteSubsetsOf(Nat)
  <2>1. \A n \in T : IsFiniteSet(0..n) /\ 0..n \subseteq Nat
    BY FS_Interval
  <2> QED  BY <2>1 DEF FiniteSubsetsOf
<1>3. TT # {}
  OBVIOUS
<1>4. PICK X \in TT : \A Y \in TT : ~(<<Y, X>> \in StrictSubsetOrdering(Nat))
  <2> HIDE DEF TT
  <2> QED  BY <1>1, <1>2, <1>3, WFMin
<1>5. PICK x \in T : X = 0..x
  OBVIOUS
<1>6. ASSUME NEW y \in T, y < x  PROVE FALSE
  <2>1. 0..y \in TT /\ 0..y \subseteq 0..x /\ 0..y # 0..x
    BY <1>6
  <2>2. <<0..y, X>> \in StrictSubsetOrdering(Nat)
    BY <2>1, <1>5 DEF StrictSubsetOrdering
  <2> QED  BY <1>4, <2>1, <2>2
<1> QED  BY <1>6

\* A set that has 0, and with a number the next one, has every number.
LEMMA SetInduction ==
    ASSUME NEW S, 0 \in S, \A n \in Nat : n \in S => n + 1 \in S
    PROVE  Nat \subseteq S
<1> DEFINE T == Nat \ S
<1>1. CASE T = {}
  BY <1>1
<1>2. CASE T # {}
  <2>1. PICK x \in T : \A y \in T : x <= y
    BY <1>2, LeastOfNat
  <2>2. x # 0
    BY <2>1
  <2>3. x - 1 \in Nat /\ x - 1 \notin T
    BY <2>1, <2>2
  <2> QED  BY <2>1, <2>3
<1> QED  BY <1>1, <1>2

\* Iteration: from x, by one function after the other.
Iterates(f, n, X, x, step) ==
    /\ f[0] = x /\ \A i \in 0..n : f[i] \in X
    /\ \A i \in 1..n : f[i] = step[i][f[i - 1]]

LEMMA IterationExists ==
    ASSUME NEW n \in Nat, NEW X, NEW x \in X, NEW step, \A i \in 1..n : step[i] \in [X -> X]
    PROVE  \E f : Iterates(f, n, X, x, step)
<1> DEFINE Runs(f, k) == Iterates(f, k, X, x, step)
           S == {k \in Nat : k <= n => \E f : Runs(f, k)}
<1>1. 0 \in S
  <2>1. Runs([i \in {0} |-> x], 0)
    BY DEF Iterates
  <2> HIDE DEF Runs
  <2> QED  BY <2>1
<1>2. ASSUME NEW k \in Nat, k \in S  PROVE k + 1 \in S
  <2> SUFFICES ASSUME k + 1 <= n  PROVE \E f : Runs(f, k + 1)
    OBVIOUS
  <2>1. PICK f : Runs(f, k)
    <3> HIDE DEF Runs
    <3> QED  BY <1>2
  <2> DEFINE g == [i \in 0..(k + 1) |-> IF i <= k THEN f[i] ELSE step[k + 1][f[k]]]
  <2>2. step[k + 1] \in [X -> X] /\ f[k] \in X
    BY <2>1 DEF Iterates
  <2>3. g[k + 1] = step[k + 1][f[k]] /\ \A i \in 0..k : g[i] = f[i]
    OBVIOUS
  <2> HIDE DEF g
  <2>4. \A i \in 0..(k + 1) : g[i] \in X
    <3>1. \A i \in 0..(k + 1) : i = k + 1 \/ i \in 0..k
      OBVIOUS
    <3>2. g[k + 1] \in X
      BY <2>2, <2>3
    <3> QED  BY <2>1, <2>3, <3>1, <3>2 DEF Iterates
  <2>5. ASSUME NEW i \in 1..(k + 1)  PROVE g[i] = step[i][g[i - 1]]
    <3>1. CASE i \in 1..k
      <4>1. g[i] = f[i] /\ g[i - 1] = f[i - 1]
        BY <2>3, <3>1
      <4> QED  BY <2>1, <3>1, <4>1 DEF Iterates
    <3>2. CASE i = k + 1
      <4>1. i - 1 = k /\ g[k] = f[k]
        BY <2>3, <3>2
      <4> QED  BY <2>3, <3>2, <4>1
    <3> QED  BY <3>1, <3>2
  <2>6. g[0] = x
    BY <2>1, <2>3 DEF Iterates
  <2>7. Runs(g, k + 1)
    BY <2>4, <2>5, <2>6 DEF Iterates
  <2> HIDE DEF Runs
  <2> QED  BY <2>7
<1> HIDE DEF S
<1>3. n \in S
  BY <1>1, <1>2, SetInduction
<1> QED  BY <1>3 DEF S

\* Two functions that agree at 0, and at a number when they agree before it.
LEMMA Agreeing ==
    ASSUME NEW n \in Nat, NEW f, NEW g, f[0] = g[0],
           \A i \in 1..n : f[i - 1] = g[i - 1] => f[i] = g[i]
    PROVE  \A i \in 0..n : f[i] = g[i]
<1> DEFINE S == {k \in Nat : k <= n => f[k] = g[k]}
<1>1. 0 \in S
  OBVIOUS
<1>2. ASSUME NEW k \in Nat, k \in S  PROVE k + 1 \in S
  <2> SUFFICES ASSUME k + 1 <= n  PROVE f[k + 1] = g[k + 1]
    OBVIOUS
  <2>1. f[k] = g[k] /\ (k + 1) - 1 = k /\ k + 1 \in 1..n
    BY <1>2
  <2> QED  BY <2>1
<1> HIDE DEF S
<1>3. Nat \subseteq S
  BY <1>1, <1>2, SetInduction
<1> QED  BY <1>3 DEF S

-----------------------------------------------------------------------------
(***************************************************************************)
(* Lists that are cut.                                                     *)
(***************************************************************************)

\* What a list is without the places from i to u.
LEMMA CutNumbers ==
    ASSUME NEW l \in Nat, NEW u \in Nat
    PROVE  \E n \in Nat :
              /\ n = IF u < l THEN l - u ELSE 0
              /\ n = IF u + 1 <= l THEN l - (u + 1) + 1 ELSE 0
              /\ \A k \in 1..n : k \in 1..(l - (u + 1) + 1) /\ u + 1 + k - 1 = k + u
<1>1. CASE u < l
  <2> DEFINE n == l - u
  <2>1. n \in Nat /\ u + 1 <= l /\ l - (u + 1) + 1 = n /\ \A k \in 1..n : u + 1 + k - 1 = k + u
    BY <1>1
  <2> QED  BY <1>1, <2>1
<1>2. CASE ~(u < l)
  <2>1. ~(u + 1 <= l)
    BY <1>2
  <2> QED  BY <1>2, <2>1
<1> QED  BY <1>1, <1>2

LEMMA CutParts ==
    ASSUME NEW S, NEW s \in Seq(S), NEW i \in 1..Len(s), NEW u \in Nat
    PROVE  LET w == SubSeq(s, 1, i - 1) \o SubSeq(s, u + 1, Len(s))
           IN  /\ w \in Seq(S)
               /\ \E n \in Nat :
                     /\ n = IF u < Len(s) THEN Len(s) - u ELSE 0
                     /\ DOMAIN w = 1..((i - 1) + n)
                     /\ \A k \in 1..((i - 1) + n) :
                           w[k] = IF k < i THEN s[k] ELSE s[k - (i - 1) + u]
<1> DEFINE p == SubSeq(s, 1, i - 1)
           q == SubSeq(s, u + 1, Len(s))
           w == p \o q
<1>1. Len(s) \in Nat /\ DOMAIN s = 1..Len(s) /\ i \in Nat \ {0}
  OBVIOUS
<1>0. PICK n \in Nat :
         /\ n = IF u < Len(s) THEN Len(s) - u ELSE 0
         /\ n = IF u + 1 <= Len(s) THEN Len(s) - (u + 1) + 1 ELSE 0
         /\ \A k \in 1..n : k \in 1..(Len(s) - (u + 1) + 1) /\ u + 1 + k - 1 = k + u
  BY <1>1, CutNumbers, Zenon
<1>2. p \in Seq(S) /\ Len(p) = i - 1 /\ \A k \in 1..(i - 1) : p[k] = s[k]
  <2>1. i - 1 \in Int /\ \A k \in 1..(i - 1) : s[k] \in S
    BY <1>1
  <2> QED  BY <1>1, <2>1, Seqs!SubSeqProperties
<1>3. q \in Seq(S) /\ Len(q) = n /\ \A k \in 1..n : q[k] = s[k + u]
  <2>1. u + 1 \in Int /\ Len(s) \in Int /\ \A k \in (u + 1)..Len(s) : s[k] \in S
    BY <1>1
  <2>2. /\ q \in Seq(S)
        /\ Len(q) = IF u + 1 <= Len(s) THEN Len(s) - (u + 1) + 1 ELSE 0
        /\ \A k \in 1..(Len(s) - (u + 1) + 1) : q[k] = s[u + 1 + k - 1]
    BY <1>1, <2>1, Seqs!SubSeqProperties
  <2> HIDE DEF q
  <2>3. Len(q) = n
    BY <1>0, <2>2, Zenon
  <2>4. \A k \in 1..n : q[k] = s[k + u]
    BY <1>0, <2>2, Zenon
  <2> QED  BY <2>2, <2>3, <2>4
<1> HIDE DEF p, q
<1>4. /\ w \in Seq(S) /\ Len(w) = Len(p) + Len(q)
      /\ \A k \in 1..(Len(p) + Len(q)) : w[k] = IF k <= Len(p) THEN p[k] ELSE q[k - Len(p)]
  BY <1>2, <1>3, Seqs!ConcatProperties
<1>5. DOMAIN w = 1..Len(w)
  BY <1>4
<1> HIDE DEF w
<1>6. Len(w) = (i - 1) + n /\ DOMAIN w = 1..((i - 1) + n)
  BY <1>2, <1>3, <1>4, <1>5, Zenon
<1>7. ASSUME NEW k \in 1..((i - 1) + n)
      PROVE  w[k] = IF k < i THEN s[k] ELSE s[k - (i - 1) + u]
  <2>1. w[k] = IF k <= i - 1 THEN p[k] ELSE q[k - (i - 1)]
    BY <1>2, <1>3, <1>4, Zenon
  <2>2. CASE k < i
    <3>1. k <= i - 1 /\ k \in 1..(i - 1)
      BY <2>2, <1>1
    <3> QED  BY <1>2, <2>1, <2>2, <3>1, Zenon
  <2>3. CASE ~(k < i)
    <3>1. ~(k <= i - 1) /\ k - (i - 1) \in 1..n
      BY <2>3, <1>1
    <3> QED  BY <1>3, <2>1, <2>3, <3>1, Zenon
  <2> QED  BY <2>2, <2>3
<1> QED  BY <1>0, <1>4, <1>6, <1>7, Zenon DEF p, q, w

\* The place in the longer list.
PlaceOf(k, i, u) == IF k < i THEN k ELSE k - (i - 1) + u

PlacesAre(len, i, u, n) ==
    /\ \A k \in 1..((i - 1) + n) :
          PlaceOf(k, i, u) \in 1..len /\ (PlaceOf(k, i, u) < i \/ PlaceOf(k, i, u) > u)
    /\ \A k, j \in 1..((i - 1) + n) : k < j => PlaceOf(k, i, u) < PlaceOf(j, i, u)
    /\ \A j \in 1..len : j < i \/ j > u =>
          \E k \in 1..((i - 1) + n) : PlaceOf(k, i, u) = j

LEMMA CutOrder ==
    ASSUME NEW len \in Nat, NEW i \in 1..len, NEW u \in Nat, i <= u,
           NEW n \in Nat, n = IF u < len THEN len - u ELSE 0
    PROVE  PlacesAre(len, i, u, n)
<1>1. ASSUME NEW k \in 1..((i - 1) + n)
      PROVE  PlaceOf(k, i, u) \in 1..len /\ (PlaceOf(k, i, u) < i \/ PlaceOf(k, i, u) > u)
  BY <1>1 DEF PlaceOf
<1>2. \A k, j \in 1..((i - 1) + n) : k < j => PlaceOf(k, i, u) < PlaceOf(j, i, u)
  BY DEF PlaceOf
<1>3. ASSUME NEW j \in 1..len, j < i \/ j > u
      PROVE  \E k \in 1..((i - 1) + n) : PlaceOf(k, i, u) = j
  <2>1. CASE j < i
    <3>1. j \in 1..((i - 1) + n) /\ PlaceOf(j, i, u) = j
      BY <2>1 DEF PlaceOf
    <3> QED  BY <3>1
  <2>2. CASE ~(j < i)
    <3>1. j - u + (i - 1) \in 1..((i - 1) + n) /\ PlaceOf(j - u + (i - 1), i, u) = j
      BY <2>2, <1>3 DEF PlaceOf
    <3> QED  BY <3>1
  <2> QED  BY <2>1, <2>2
<1> QED  BY <1>1, <1>2, <1>3 DEF PlacesAre

\* The elements of the shorter list: from where they come, in the same order, and
\* all of the other places.
CutTo(s, i, u, w) ==
    \E h \in [DOMAIN w -> DOMAIN s] :
        /\ \A k \in DOMAIN w : w[k] = s[h[k]] /\ (h[k] < i \/ h[k] > u)
        /\ \A k, l \in DOMAIN w : k < l => h[k] < h[l]
        /\ \A j \in DOMAIN s : j < i \/ j > u => \E k \in DOMAIN w : h[k] = j

LEMMA Cut ==
    ASSUME NEW S, NEW s \in Seq(S), NEW i \in 1..Len(s), NEW u \in Nat, i <= u,
           NEW w, w = SubSeq(s, 1, i - 1) \o SubSeq(s, u + 1, Len(s))
    PROVE  w \in Seq(S) /\ CutTo(s, i, u, w)
<1> DEFINE Is(n) ==
             /\ n = IF u < Len(s) THEN Len(s) - u ELSE 0
             /\ DOMAIN w = 1..((i - 1) + n)
             /\ \A k \in 1..((i - 1) + n) :
                   w[k] = IF k < i THEN s[k] ELSE s[k - (i - 1) + u]
<1>1. Len(s) \in Nat /\ DOMAIN s = 1..Len(s)
  OBVIOUS
<1>2. w \in Seq(S) /\ \E n \in Nat : Is(n)
  BY CutParts, Zenon
<1>3. PICK n \in Nat : Is(n)
  BY <1>2, Zenon
<1>4. PlacesAre(Len(s), i, u, n)
  <2>1. n = IF u < Len(s) THEN Len(s) - u ELSE 0
    BY <1>3, Zenon
  <2> QED  BY <1>1, <2>1, CutOrder, Zenon
<1> DEFINE h == [k \in DOMAIN w |-> PlaceOf(k, i, u)]
<1>5. \A k \in DOMAIN w : h[k] = PlaceOf(k, i, u)
  BY Zenon
<1>6. \A k \in DOMAIN w : w[k] = s[PlaceOf(k, i, u)]
  BY <1>3, Zenon DEF PlaceOf
<1>7. h \in [DOMAIN w -> DOMAIN s]
  BY <1>1, <1>3, <1>4, Zenon DEF PlacesAre
<1>8. DOMAIN w = 1..((i - 1) + n)
  BY <1>3, Zenon
<1> HIDE DEF h, Is
<1>9. \A k \in DOMAIN w : w[k] = s[h[k]] /\ (h[k] < i \/ h[k] > u)
  BY <1>4, <1>5, <1>6, <1>8, Zenon DEF PlacesAre
<1>10. ASSUME NEW k \in DOMAIN w, NEW l \in DOMAIN w, k < l  PROVE h[k] < h[l]
  <2>1. PlaceOf(k, i, u) < PlaceOf(l, i, u)
    BY <1>4, <1>8, <1>10, Zenon DEF PlacesAre
  <2>2. h[k] = PlaceOf(k, i, u) /\ h[l] = PlaceOf(l, i, u)
    BY <1>5, Zenon
  <2> QED  BY <2>1, <2>2, Zenon
<1>11. \A j \in DOMAIN s : j < i \/ j > u => \E k \in DOMAIN w : h[k] = j
  BY <1>1, <1>4, <1>5, <1>8, Zenon DEF PlacesAre
<1> QED  BY <1>2, <1>7, <1>9, <1>10, <1>11, Zenon DEF CutTo

-----------------------------------------------------------------------------
(***************************************************************************)
(* Elementary facts.                                                       *)
(***************************************************************************)

LEMMA Listed ==
    ASSUME NEW s, NEW e
    PROVE  e \in ToSet(s) <=> \E i \in DOMAIN s : s[i] = e
BY DEF ToSet

LEMMA StateFields ==
    ASSUME NEW m \in ManagerState
    PROVE  /\ m.dev \in [Devs -> Object \cup {None}]
           /\ m.list \in [Nodes -> Seq(Devs)]
           /\ m.active \subseteq Hosts /\ m.current \subseteq Devs
           /\ m.pending \in Seq(Devs)
BY DEF ManagerState

LEMMA ObjectFields ==
    ASSUME NEW m \in ManagerState, NEW d \in Devs, m.dev[d] # None
    PROVE  /\ m.dev[d] \in Object
           /\ m.dev[d].node \in Nodes /\ m.dev[d].conn \in Hosts \cup {Cira}
           /\ m.dev[d].phase \in Phases /\ m.dev[d].calls \in 0..3
           /\ m.dev[d].acctry \in Nat \ {0}
BY StateFields DEF Object

\* What is listed is an object of its node, and conversely.
LEMMA ListedIsValid ==
    ASSUME NEW m \in ManagerState, ListsAreRight(m), NEW n \in Nodes, NEW d
    PROVE  /\ d \in ToSet(m.list[n]) => d \in Devs /\ IsAmtDeviceValid(m, d) /\ m.dev[d].node = n
           /\ d \in Devs /\ IsAmtDeviceValid(m, d) /\ m.dev[d].node = n => d \in ToSet(m.list[n])
<1>1. ASSUME d \in ToSet(m.list[n])
      PROVE  d \in Devs /\ IsAmtDeviceValid(m, d) /\ m.dev[d].node = n
  <2>1. PICK i \in DOMAIN m.list[n] : m.list[n][i] = d
    BY <1>1, Listed
  <2>2. m.list[n] \in Seq(Devs)
    BY StateFields
  <2>3. d \in Devs
    BY <2>1, <2>2
  <2>4. m.dev[d] # None /\ m.dev[d].node = n
    BY <2>1 DEF ListsAreRight
  <2> QED  BY <1>1, <2>3, <2>4 DEF IsAmtDeviceValid
<1> QED  BY <1>1 DEF IsAmtDeviceValid

LEMMA Weaker ==
    ASSUME NEW m, NEW D, NEW D2, Sound(m, D), D2 \subseteq D
    PROVE  Sound(m, D2)
BY DEF Sound, Alone

-----------------------------------------------------------------------------
(***************************************************************************)
(* The completion of a task.                                               *)
(***************************************************************************)

\* The objects once the first n of the queue q are out of it, of which those in
\* started begin.
Objects(dv, q, n, started) ==
    [e \in Devs |->
        IF e \in started THEN [dv[e] EXCEPT !.phase = "read"]
        ELSE IF e \in {q[i] : i \in 1..n} THEN None ELSE dv[e]]

\* The first n of the queue of m are out of it: the last of them, if it is listed,
\* takes the slot of d.
Advances(m, r, d, n, started) ==
    LET q == m.pending
    IN  /\ \A i \in 1..n : IsAmtDeviceValid(m, q[i]) => started = {q[i]}
        /\ \/ started = {} /\ n = Len(q)
           \/ n \in 1..Len(q) /\ started = {q[n]} /\ IsAmtDeviceValid(m, q[n])
        /\ r \in ManagerState
        /\ r.dev = Objects(m.dev, q, n, started) /\ r.list = m.list /\ r.active = m.active
        /\ r.current = (m.current \ {d}) \cup started
        /\ r.pending = SubSeq(q, n + 1, Len(q))

LEMMA CompletedIs ==
    ASSUME NEW m \in ManagerState, NEW d \in m.current
    PROVE  \E n \in 0..Len(m.pending), started \in SUBSET Devs :
               Advances(m, Completed(m, d), d, n, started)
<1> DEFINE q == m.pending
           valid == {i \in DOMAIN q : IsAmtDeviceValid(m, q[i])}
           n == IF valid = {} THEN Len(q)
                ELSE CHOOSE i \in valid : \A j \in valid : i <= j
           started == IF valid = {} THEN {} ELSE {q[n]}
           r == [m EXCEPT !.current = (@ \ {d}) \cup started,
                       !.pending = SubSeq(@, n + 1, Len(@)),
                       !.dev = [e \in Devs |->
                           IF e \in started THEN [@[e] EXCEPT !.phase = "read"]
                           ELSE IF e \in {q[i] : i \in 1..n} THEN None ELSE @[e]]]
<1>1. Completed(m, d) = r
  BY DEF Completed
<1>2. q \in Seq(Devs) /\ DOMAIN q = 1..Len(q) /\ Len(q) \in Nat
  BY StateFields
<1>3. valid # {} => n \in valid /\ \A j \in valid : n <= j
  <2>1. valid \subseteq Nat
    BY <1>2
  <2> HIDE DEF valid, q
  <2>2. valid # {} => \E i \in valid : \A j \in valid : i <= j
    BY <2>1, LeastOfNat
  <2> QED  BY <2>2
<1>4. n \in 0..Len(q) /\ started \in SUBSET Devs
  <2>1. CASE valid = {}
    BY <1>2, <2>1
  <2>2. CASE valid # {}
    <3>1. n \in DOMAIN q
      BY <1>3, <2>2
    <3>2. n \in 1..Len(q) /\ q[n] \in Devs
      <4> HIDE DEF n, q
      <4> QED  BY <1>2, <3>1
    <3> HIDE DEF n, q
    <3> QED  BY <1>2, <2>2, <3>2
  <2> QED  BY <2>1, <2>2
<1>5. \A i \in 1..n : IsAmtDeviceValid(m, q[i]) => started = {q[i]}
  <2> SUFFICES ASSUME NEW i \in 1..n, IsAmtDeviceValid(m, q[i])  PROVE started = {q[i]}
    OBVIOUS
  <2>1. i \in DOMAIN q
    <3> HIDE DEF n, q
    <3> QED  BY <1>2, <1>4
  <2>2. i \in valid
    BY <2>1
  <2>3. n <= i /\ n \in Nat
    <3> HIDE DEF n, valid, q
    <3> QED  BY <1>2, <1>3, <1>4, <2>2
  <2>4. n = i
    <3> HIDE DEF n, valid, q
    <3> QED  BY <2>3
  <2>5. valid # {}
    BY <2>2
  <2>6. started = {q[n]}
    BY <2>5
  <2> HIDE DEF n, valid, q, started
  <2> QED  BY <2>4, <2>6
<1>6. \/ started = {} /\ n = Len(q)
      \/ n \in 1..Len(q) /\ started = {q[n]} /\ IsAmtDeviceValid(m, q[n])
  <2>1. CASE valid = {}
    BY <2>1
  <2>2. CASE valid # {}
    <3>1. n \in valid
      BY <1>3, <2>2
    <3>2. n \in DOMAIN q /\ IsAmtDeviceValid(m, q[n])
      BY <3>1
    <3>3. n \in 1..Len(q)
      <4> HIDE DEF n, valid
      <4> QED  BY <1>2, <3>2
    <3>4. started = {q[n]}
      BY <2>2
    <3> QED  BY <3>2, <3>3, <3>4
  <2> QED  BY <2>1, <2>2
<1>7. /\ r.dev = Objects(m.dev, q, n, started) /\ r.list = m.list /\ r.active = m.active
      /\ r.current = (m.current \ {d}) \cup started
      /\ r.pending = SubSeq(q, n + 1, Len(q))
  <2> HIDE DEF n, started, valid
  <2> QED  BY DEF ManagerState, Objects
<1>9. r \in ManagerState
  <2>1. [e \in Devs |->
                           IF e \in started THEN [m.dev[e] EXCEPT !.phase = "read"]
                           ELSE IF e \in {q[i] : i \in 1..n} THEN None ELSE m.dev[e]]
           \in [Devs -> Object \cup {None}]
    <3>1. \A e \in started : m.dev[e] \in Object
      <4>1. \A e \in started : e \in Devs /\ m.dev[e] # None
        <5> HIDE DEF n, valid
        <5>1. started \subseteq Devs
          BY <1>4
        <5>2. \A e \in started : IsAmtDeviceValid(m, e)
          BY <1>6
        <5> HIDE DEF started
        <5> QED  BY <5>1, <5>2 DEF IsAmtDeviceValid
      <4> HIDE DEF started
      <4> QED  BY <4>1, ObjectFields
    <3>2. \A o \in Object : [o EXCEPT !.phase = "read"] \in Object
      BY DEF Object, Phases
    <3>3. m.dev \in [Devs -> Object \cup {None}]
      BY StateFields
    <3> HIDE DEF n, started, valid
    <3> QED  BY <3>1, <3>2, <3>3
  <2>2. SubSeq(q, n + 1, Len(q)) \in Seq(Devs)
    <3> HIDE DEF n, started, valid
    <3>1. \A j \in (n + 1)..Len(q) : q[j] \in Devs
      BY <1>2, <1>4
    <3> QED  BY <1>2, <1>4, <3>1, Seqs!SubSeqProperties
  <2>3. (m.current \ {d}) \cup started \subseteq Devs
    BY <1>4, StateFields
  <2> HIDE DEF n, started, valid
  <2> QED  BY <2>1, <2>2, <2>3 DEF ManagerState
<1>8. Advances(m, Completed(m, d), d, n, started)
  <2> HIDE DEF n, started, valid, r
  <2> QED  BY <1>1, <1>5, <1>6, <1>7, <1>9 DEF Advances
<1> HIDE DEF n, started, valid, r
<1> QED  BY <1>4, <1>8

IsHeld(m, e) == m.dev[e] # None /\ m.dev[e].phase = "held"

\* What becomes of each object: one that is held and listed may start, one that is
\* held and not listed may be forgotten.
Becomes(m, r, e) ==
    \/ r.dev[e] = m.dev[e]
    \/ IsHeld(m, e) /\ ~IsAmtDeviceValid(m, e) /\ r.dev[e] = None
    \/ IsHeld(m, e) /\ IsAmtDeviceValid(m, e) /\ r.dev[e] = [m.dev[e] EXCEPT !.phase = "read"]

QueueAdvances(m, r, n) ==
    /\ Len(m.pending) - n \in Nat
    /\ DOMAIN m.pending = 1..Len(m.pending)
    /\ Len(r.pending) = Len(m.pending) - n
    /\ DOMAIN r.pending = 1..(Len(m.pending) - n)
    /\ \A p \in 1..(Len(m.pending) - n) :
          p + n \in 1..Len(m.pending) /\ r.pending[p] = m.pending[p + n]
ObjectsAdvance(m, r, n, started) ==
    /\ \A e \in Devs : Becomes(m, r, e)
    /\ \A e \in started : e \in Devs /\ IsHeld(m, e) /\ IsAmtDeviceValid(m, e)
                          /\ e \notin m.current
                          /\ r.dev[e] = [m.dev[e] EXCEPT !.phase = "read"]
    /\ \A e \in started : \E p \in 1..n : p = n /\ e = m.pending[p]
    /\ \A p \in (n + 1)..Len(m.pending) : r.dev[m.pending[p]] = m.dev[m.pending[p]]

LEMMA RestNumbers ==
    ASSUME NEW l \in Nat, NEW n \in Nat, n <= l
    PROVE  /\ l - n \in Nat
           /\ (IF n + 1 <= l THEN l - (n + 1) + 1 ELSE 0) = l - n
OBVIOUS

LEMMA AdvanceQueue ==
    ASSUME NEW m \in ManagerState, NEW d, NEW r, NEW n \in 0..Len(m.pending),
           NEW started, Advances(m, r, d, n, started)
    PROVE  QueueAdvances(m, r, n)
<1> DEFINE q == m.pending
<1>1. q \in Seq(Devs) /\ r.pending \in Seq(Devs) /\ r.pending = SubSeq(q, n + 1, Len(q))
  BY StateFields DEF Advances
<1>2. Len(q) \in Nat /\ n \in Nat /\ n <= Len(q) /\ DOMAIN q = 1..Len(q)
  BY <1>1
<1>3. \A j \in (n + 1)..Len(q) : q[j] \in Devs
  BY <1>1, <1>2
<1>4. /\ Len(r.pending) = IF n + 1 <= Len(q) THEN Len(q) - (n + 1) + 1 ELSE 0
      /\ \A p \in 1..(Len(q) - (n + 1) + 1) : r.pending[p] = q[n + 1 + p - 1]
  <2>1. n + 1 \in Int /\ Len(q) \in Int
    BY <1>2
  <2> HIDE DEF q
  <2> QED  BY <1>1, <1>3, <2>1, Seqs!SubSeqProperties
<1>5. DOMAIN r.pending = 1..Len(r.pending)
  BY <1>1
<1> HIDE DEF q
<1>6. Len(q) - n \in Nat /\ Len(r.pending) = Len(q) - n
  BY <1>2, <1>4, RestNumbers, Zenon
<1>7. ASSUME NEW p \in 1..(Len(q) - n)
      PROVE  p + n \in 1..Len(q) /\ r.pending[p] = q[p + n]
  <2>1. p + n \in 1..Len(q) /\ p \in 1..(Len(q) - (n + 1) + 1) /\ n + 1 + p - 1 = p + n
    BY <1>2
  <2> QED  BY <1>4, <2>1
<1> QED  BY <1>2, <1>5, <1>6, <1>7 DEF q, QueueAdvances

LEMMA AdvanceObjects ==
    ASSUME NEW m \in ManagerState, HeldRight(m), NEW d, NEW r,
           NEW n \in 0..Len(m.pending), NEW started, Advances(m, r, d, n, started)
    PROVE  ObjectsAdvance(m, r, n, started)
<1> DEFINE q == m.pending
<1>1. q \in Seq(Devs) /\ DOMAIN q = 1..Len(q) /\ Len(q) \in Nat
  BY StateFields
<1>2. \A i \in 1..Len(q) : q[i] \in Devs /\ IsHeld(m, q[i]) /\ q[i] \notin m.current
  BY <1>1 DEF HeldRight, IsHeld
<1>3. \A e \in Devs : r.dev[e] = IF e \in started THEN [m.dev[e] EXCEPT !.phase = "read"]
                                 ELSE IF e \in {q[i] : i \in 1..n} THEN None ELSE m.dev[e]
  BY DEF Advances, Objects
<1>4. \A e \in started : \E p \in 1..n : p = n /\ p \in 1..Len(q) /\ e = q[p] /\ IsAmtDeviceValid(m, q[p])
  <2>1. \/ started = {}
        \/ n \in 1..Len(q) /\ started = {q[n]} /\ IsAmtDeviceValid(m, q[n])
    BY DEF Advances
  <2>2. n \in 1..Len(q) => n \in 1..n
    BY <1>1
  <2> HIDE DEF q
  <2> QED  BY <2>1, <2>2
<1>5. \A i \in 1..n : IsAmtDeviceValid(m, q[i]) => started = {q[i]}
  BY DEF Advances
<1>6. 1..n \subseteq 1..Len(q)
  BY <1>1
<1>7. \A p, k \in 1..Len(q) : q[p] = q[k] => p = k
  BY <1>1 DEF HeldRight
<1> HIDE DEF q
<1>8. ASSUME NEW e \in started
      PROVE  /\ e \in Devs /\ IsHeld(m, e) /\ IsAmtDeviceValid(m, e) /\ e \notin m.current
             /\ r.dev[e] = [m.dev[e] EXCEPT !.phase = "read"]
  BY <1>2, <1>3, <1>4
<1>9. ASSUME NEW e \in Devs  PROVE Becomes(m, r, e)
  <2>1. CASE e \in started
    BY <1>8, <2>1 DEF Becomes
  <2>2. CASE e \notin started /\ e \in {q[i] : i \in 1..n}
    <3>1. PICK i \in 1..n : e = q[i]
      BY <2>2
    <3>2. IsHeld(m, e)
      BY <1>2, <1>6, <3>1
    <3>3. ~IsAmtDeviceValid(m, e)
      BY <1>5, <2>2, <3>1
    <3> QED  BY <1>3, <2>2, <3>2, <3>3 DEF Becomes
  <2>3. CASE e \notin started /\ e \notin {q[i] : i \in 1..n}
    BY <1>3, <2>3 DEF Becomes
  <2> QED  BY <2>1, <2>2, <2>3
<1>10. ASSUME NEW p \in (n + 1)..Len(q)  PROVE r.dev[q[p]] = m.dev[q[p]]
  <2>1. p \in 1..Len(q) /\ p \notin 1..n /\ p # n
    BY <1>1
  <2>2. \A i \in 1..n : q[i] # q[p]
    BY <1>6, <1>7, <2>1
  <2>3. q[p] \notin started /\ q[p] \notin {q[i] : i \in 1..n}
    BY <1>4, <2>2
  <2> QED  BY <1>2, <1>3, <2>1, <2>3
<1> QED  BY <1>4, <1>8, <1>9, <1>10, Zenon DEF q, ObjectsAdvance

\* What such a change leaves as it is.
LEMMA BecomesKeeps ==
    ASSUME NEW m \in ManagerState, ListsAreRight(m), NEW r, r.list = m.list,
           \A e \in Devs : Becomes(m, r, e), NEW e \in Devs
    PROVE  /\ IsAmtDeviceValid(r, e) <=> IsAmtDeviceValid(m, e)
           /\ r.dev[e] # None =>
                 /\ m.dev[e] # None /\ r.dev[e].node = m.dev[e].node
                 /\ r.dev[e].conn = m.dev[e].conn /\ r.dev[e].calls = m.dev[e].calls
                 /\ r.dev[e].phase \in {m.dev[e].phase, "read"}
           /\ m.dev[e] # None /\ m.dev[e].phase # "held" => r.dev[e] = m.dev[e]
<1>1. CASE r.dev[e] = m.dev[e]
  BY <1>1 DEF IsAmtDeviceValid
<1>2. CASE IsHeld(m, e) /\ ~IsAmtDeviceValid(m, e) /\ r.dev[e] = None
  BY <1>2 DEF IsAmtDeviceValid, IsHeld
<1>3. CASE IsHeld(m, e) /\ IsAmtDeviceValid(m, e)
           /\ r.dev[e] = [m.dev[e] EXCEPT !.phase = "read"]
  <2>1. m.dev[e] \in Object /\ None \notin Object
    BY <1>3, ObjectFields, ManagerAssumption DEF IsHeld
  <2>2. [m.dev[e] EXCEPT !.phase = "read"] \in Object
    BY <2>1 DEF Object, Phases
  <2>3. /\ r.dev[e] # None /\ r.dev[e].node = m.dev[e].node
        /\ r.dev[e].conn = m.dev[e].conn /\ r.dev[e].phase = "read"
        /\ r.dev[e].calls = m.dev[e].calls
    BY <1>3, <2>1, <2>2 DEF Object
  <2> QED  BY <1>3, <2>3 DEF IsAmtDeviceValid, IsHeld
<1> QED  BY <1>1, <1>2, <1>3 DEF Becomes

LEMMA AdvanceKeepsQueue ==
    ASSUME NEW m, NEW D, Sound(m, D), NEW d \in m.current, NEW r,
           NEW n \in 0..Len(m.pending), NEW started, Advances(m, r, d, n, started)
    PROVE  HeldRight(r) /\ HeldInOrder(r)
<1> DEFINE q == m.pending
           l == Len(m.pending) - n
<1>1. m \in ManagerState /\ HeldRight(m) /\ HeldInOrder(m) /\ ListsAreRight(m)
  BY DEF Sound
<1>2. /\ l \in Nat /\ Len(q) \in Nat /\ n \in Nat /\ DOMAIN q = 1..Len(q)
      /\ DOMAIN r.pending = 1..l
      /\ \A p \in 1..l : p + n \in 1..Len(q) /\ r.pending[p] = q[p + n]
  <2>1. n \in Nat /\ Len(q) \in Nat
    BY <1>1, StateFields
  <2>2. QueueAdvances(m, r, n)
    BY <1>1, AdvanceQueue
  <2> QED  BY <2>1, <2>2, Zenon DEF QueueAdvances
<1>3. /\ \A e \in started : e \in Devs /\ e \notin m.current
      /\ \A e \in started : \E p \in 1..n : p = n /\ e = q[p]
      /\ \A p \in (n + 1)..Len(q) : r.dev[q[p]] = m.dev[q[p]]
  <2>1. ObjectsAdvance(m, r, n, started)
    BY <1>1, AdvanceObjects
  <2> QED  BY <2>1, Zenon DEF ObjectsAdvance
<1>4. r.current = (m.current \ {d}) \cup started /\ r.list = m.list
  BY DEF Advances
<1>5. \A p, k \in DOMAIN q : q[p] = q[k] => p = k
  BY <1>1 DEF HeldRight
<1> HIDE DEF l, q
<1>6. \A p \in 1..l : p + n \in (n + 1)..Len(q) /\ p + n # n /\ p + n \in 1..Len(q)
  BY <1>2
<1>7. \A p, k \in DOMAIN r.pending : r.pending[p] = r.pending[k] => p = k
  <2> SUFFICES ASSUME NEW p \in 1..l, NEW k \in 1..l, r.pending[p] = r.pending[k]
               PROVE  p = k
    BY <1>2
  <2>1. p + n = k + n
    BY <1>2, <1>5
  <2> QED  BY <1>2, <2>1
<1>8. ASSUME NEW p \in DOMAIN r.pending
      PROVE  /\ r.dev[r.pending[p]] # None /\ r.dev[r.pending[p]].phase = "held"
             /\ r.pending[p] \notin r.current
  <2>1. p \in 1..l /\ r.pending[p] = q[p + n] /\ p + n \in DOMAIN q
    BY <1>2
  <2>2. m.dev[q[p + n]] # None /\ m.dev[q[p + n]].phase = "held" /\ q[p + n] \notin m.current
    BY <1>1, <2>1 DEF HeldRight, q
  <2>3. r.dev[q[p + n]] = m.dev[q[p + n]]
    BY <1>3, <1>6, <2>1
  <2>4. q[p + n] \notin started
    <3> SUFFICES ASSUME q[p + n] \in started  PROVE FALSE
      OBVIOUS
    <3>1. n \in 1..n /\ q[p + n] = q[n]
      BY <1>3
    <3>2. n \in DOMAIN q
      BY <1>2, <3>1
    <3>3. p + n = n
      BY <1>5, <2>1, <3>1, <3>2
    <3> QED  BY <1>6, <2>1, <3>3
  <2> QED  BY <1>4, <2>1, <2>2, <2>3, <2>4
<1>9. HeldRight(r)
  BY <1>7, <1>8 DEF HeldRight
<1>10. HeldInOrder(r)
  <2> SUFFICES ASSUME NEW k \in Nodes, NEW i \in DOMAIN m.list[k], NEW j \in DOMAIN m.list[k],
                      i < j, NEW p \in 1..l, r.pending[p] = m.list[k][i]
               PROVE  \E pp \in 1..l : p < pp /\ r.pending[pp] = m.list[k][j]
    <3>1. r.list = m.list /\ DOMAIN r.pending = 1..l
      BY <1>2, <1>4
    <3> HIDE DEF l
    <3> QED  BY <3>1 DEF HeldInOrder
  <2>1. p + n \in DOMAIN q /\ q[p + n] = m.list[k][i]
    BY <1>2
  <2>2. PICK x \in DOMAIN q : p + n < x /\ q[x] = m.list[k][j]
    BY <1>1, <2>1 DEF HeldInOrder, q
  <2>3. x - n \in 1..l /\ p < x - n /\ (x - n) + n = x
    BY <1>2, <2>2 DEF l, q
  <2>4. r.pending[x - n] = q[x]
    BY <1>2, <2>3
  <2> QED  BY <2>2, <2>3, <2>4
<1> QED  BY <1>9, <1>10

LEMMA AdvanceKeepsSlots ==
    ASSUME NEW m, NEW D, Sound(m, D), NEW d \in m.current, NEW r,
           NEW n \in 0..Len(m.pending), NEW started, Advances(m, r, d, n, started)
    PROVE  SlotsRight(r) /\ SlotsInUse(r)
<1> DEFINE q == m.pending
<1>1. /\ m \in ManagerState /\ ListsAreRight(m) /\ HeldRight(m)
      /\ SlotsRight(m) /\ SlotsInUse(m)
  BY DEF Sound
<1>2. r.current = (m.current \ {d}) \cup started /\ r.list = m.list
  BY DEF Advances
<1>3. /\ \A e \in Devs : Becomes(m, r, e)
      /\ \A e \in started : e \in Devs /\ IsHeld(m, e) /\ e \notin m.current
                            /\ r.dev[e] = [m.dev[e] EXCEPT !.phase = "read"]
  <2>1. ObjectsAdvance(m, r, n, started)
    BY <1>1, AdvanceObjects
  <2> QED  BY <2>1, Zenon DEF ObjectsAdvance
<1>4. SlotsRight(r)
  <2> SUFFICES ASSUME NEW e \in r.current, IsAmtDeviceValid(r, e)
               PROVE  r.dev[e].phase \notin {"held", "done"}
    BY DEF SlotsRight
  <2>1. CASE e \in started
    <3>1. m.dev[e] \in Object
      BY <1>1, <1>3, <2>1, ObjectFields DEF IsHeld
    <3>2. r.dev[e].phase = "read"
      BY <1>3, <2>1, <3>1 DEF Object
    <3> QED  BY <3>2
  <2>2. CASE e \in m.current
    <3>1. e \in Devs
      BY <1>1, <2>2, StateFields
    <3>2. IsAmtDeviceValid(m, e) /\ m.dev[e] # None
      BY <1>1, <1>2, <1>3, <3>1, BecomesKeeps DEF IsAmtDeviceValid
    <3>3. m.dev[e].phase \notin {"held", "done"}
      BY <1>1, <2>2, <3>2 DEF SlotsRight
    <3>4. r.dev[e] = m.dev[e]
      BY <1>1, <1>2, <1>3, <3>1, <3>2, <3>3, BecomesKeeps
    <3> QED  BY <3>3, <3>4
  <2> QED  BY <1>2, <2>1, <2>2
<1>5. SlotsInUse(r)
  <2>1. CASE started = {} /\ n = Len(q)
    <3>1. r.pending = <<>>
      <4>1. r.pending \in Seq(Devs) /\ Len(r.pending) = Len(q) - n /\ Len(q) \in Nat
        <5>1. QueueAdvances(m, r, n)
          BY <1>1, AdvanceQueue
        <5> QED  BY <1>1, <5>1, StateFields DEF Advances, QueueAdvances
      <4>2. Len(r.pending) = 0
        BY <2>1, <4>1
      <4> QED  BY <4>1, <4>2
    <3>2. IsFiniteSet(r.current)
      <4>1. r.current \subseteq m.current /\ IsFiniteSet(m.current)
        BY <1>1, <1>2, <2>1 DEF SlotsInUse
      <4> QED  BY <4>1, FS_Subset
    <3> QED  BY <3>1, <3>2 DEF SlotsInUse
  <2>2. CASE n \in 1..Len(q) /\ started = {q[n]}
    <3> DEFINE e == q[n]
               c == m.current
    <3>1. IsFiniteSet(c) /\ d \in c /\ e \notin c
      BY <1>1, <1>3, <2>2 DEF SlotsInUse
    <3>2. Cardinality(c) >= MaxTasks
      <4>1. q # <<>>
        BY <2>2
      <4> QED  BY <1>1, <4>1 DEF SlotsInUse
    <3> HIDE DEF e, c
    <3>3. IsFiniteSet(c \ {d}) /\ Cardinality(c \ {d}) = Cardinality(c) - 1 /\ Cardinality(c) \in Nat
      BY <3>1, FS_RemoveElement, FS_CardinalityType
    <3>4. /\ IsFiniteSet((c \ {d}) \cup {e})
          /\ Cardinality((c \ {d}) \cup {e}) = Cardinality(c \ {d}) + 1
      <4>1. e \notin c \ {d}
        BY <3>1
      <4> QED  BY <3>3, <4>1, FS_AddElement
    <3>5. r.current = (c \ {d}) \cup {e}
      BY <1>2, <2>2 DEF c, e
    <3>6. Cardinality((c \ {d}) \cup {e}) = Cardinality(c)
      BY <3>3, <3>4
    <3> QED  BY <3>2, <3>4, <3>5, <3>6 DEF SlotsInUse
  <2>3. \/ started = {} /\ n = Len(q)
        \/ n \in 1..Len(q) /\ started = {q[n]}
    BY DEF Advances
  <2> QED  BY <2>1, <2>2, <2>3
<1> QED  BY <1>4, <1>5

\* The same for what follows: two devices that are valid after were before.
LEMMA SameValid ==
    ASSUME NEW m \in ManagerState, ListsAreRight(m), NEW r, r.list = m.list,
           \A e \in Devs : Becomes(m, r, e)
    PROVE  ListsAreRight(r) /\ Remains(m, r)
<1>1. ASSUME NEW n \in Nodes
      PROVE  /\ \A i, j \in DOMAIN r.list[n] : r.list[n][i] = r.list[n][j] => i = j
             /\ \A i \in DOMAIN r.list[n] :
                   r.dev[r.list[n][i]] # None /\ r.dev[r.list[n][i]].node = n
  <2>1. \A i, j \in DOMAIN r.list[n] : r.list[n][i] = r.list[n][j] => i = j
    BY DEF ListsAreRight
  <2>2. ASSUME NEW i \in DOMAIN r.list[n]
        PROVE  r.dev[r.list[n][i]] # None /\ r.dev[r.list[n][i]].node = n
    <3> DEFINE e == m.list[n][i]
    <3>1. e \in ToSet(m.list[n])
      BY Listed, <2>2
    <3>2. e \in Devs /\ IsAmtDeviceValid(m, e) /\ m.dev[e].node = n
      BY <3>1, ListedIsValid
    <3>3. IsAmtDeviceValid(r, e)
      BY <3>2, BecomesKeeps
    <3>4. r.dev[e] # None
      BY <3>3 DEF IsAmtDeviceValid
    <3>5. r.dev[e].node = n
      BY <3>2, <3>4, BecomesKeeps
    <3> QED  BY <3>4, <3>5
  <2> QED  BY <2>1, <2>2
<1>2. ASSUME NEW e \in Devs, IsAmtDeviceValid(r, e)
      PROVE  /\ IsAmtDeviceValid(m, e) /\ r.dev[e].node = m.dev[e].node
             /\ r.dev[e].phase = "tls" => m.dev[e].phase = "tls"
  <2>1. IsAmtDeviceValid(m, e) /\ r.dev[e] # None
    BY <1>2, BecomesKeeps DEF IsAmtDeviceValid
  <2>2. r.dev[e].node = m.dev[e].node /\ r.dev[e].phase \in {m.dev[e].phase, "read"}
    BY <2>1, BecomesKeeps
  <2> QED  BY <2>1, <2>2
<1> QED  BY <1>1, <1>2 DEF ListsAreRight, Remains

\* Nobody comes into contact.
LEMMA SameAlone ==
    ASSUME NEW m, NEW D \in SUBSET Devs, Alone(m, D), NEW r, m.active \subseteq r.active,
           \A e \in D : InContact(r, e) => InContact(m, e) /\ r.dev[e].conn = m.dev[e].conn
    PROVE  Alone(r, D)
BY DEF Alone, Local

\* completed, of whatever device: the state is as right as it was, the device has
\* no slot, and who has one then had it before or is managed.
Completes(m, r, d) ==
    /\ r.list = m.list /\ r.active = m.active
    /\ \A e \in Devs : Becomes(m, r, e)
    /\ d \notin r.current
    /\ \A e \in r.current : e \in m.current \/ (IsHeld(m, e) /\ IsAmtDeviceValid(m, e))
    /\ \A e \in r.current \ m.current :
          d \in m.current /\ \E p \in DOMAIN m.pending : m.pending[p] = e
    /\ Follows(m, r)

LEMMA CompletedStep ==
    ASSUME NEW m, NEW D \in SUBSET Devs, Sound(m, D), NEW d \in Devs
    PROVE  Sound(Completed(m, d), D) /\ Completes(m, Completed(m, d), d)
<1> DEFINE r == Completed(m, d)
<1>1. m \in ManagerState /\ ListsAreRight(m) /\ HeldRight(m) /\ Alone(m, D)
  BY DEF Sound
<1>2. CASE d \notin m.current
  <2>1. r = m
    BY <1>2 DEF Completed
  <2>2. Remains(m, m) /\ SlotsFollow(m, m)
    BY DEF Remains, SlotsFollow
  <2>3. \A e \in Devs : Becomes(m, m, e)
    BY DEF Becomes
  <2>4. Completes(m, m, d)
    BY <1>2, <2>2, <2>3 DEF Completes, Follows
  <2> HIDE DEF r
  <2>5. Sound(r, D) /\ Completes(m, r, d)
    BY <2>1, <2>4, Zenon
  <2> QED  BY <2>5 DEF r
<1>3. CASE d \in m.current
  <2>1. PICK n \in 0..Len(m.pending), started \in SUBSET Devs : Advances(m, r, d, n, started)
    BY <1>1, <1>3, CompletedIs
  <2> HIDE DEF r
  <2>2. /\ r \in ManagerState /\ r.list = m.list /\ r.active = m.active
        /\ r.current = (m.current \ {d}) \cup started
    BY <2>1 DEF Advances
  <2>3. ObjectsAdvance(m, r, n, started)
    BY <1>1, <2>1, AdvanceObjects
  <2>4. /\ \A e \in Devs : Becomes(m, r, e)
        /\ \A e \in started : IsHeld(m, e) /\ IsAmtDeviceValid(m, e) /\ e \notin m.current
    BY <2>3 DEF ObjectsAdvance
  <2>5. HeldRight(r) /\ HeldInOrder(r)
    BY <1>3, <2>1, AdvanceKeepsQueue
  <2>6. SlotsRight(r) /\ SlotsInUse(r)
    BY <1>3, <2>1, AdvanceKeepsSlots
  <2>7. ListsAreRight(r) /\ Remains(m, r)
    BY <1>1, <2>2, <2>4, SameValid
  <2>8. ASSUME NEW e \in D, InContact(r, e)
        PROVE  InContact(m, e) /\ r.dev[e].conn = m.dev[e].conn
    BY <1>1, <2>2, <2>4, <2>8, BecomesKeeps DEF InContact
  <2>9. Alone(r, D)
    BY <1>1, <2>2, <2>8, SameAlone
  <2>10. d \notin r.current
    BY <1>3, <2>2, <2>4
  <2>11. ASSUME NEW e \in r.current
         PROVE  e \in m.current \/ (IsHeld(m, e) /\ IsAmtDeviceValid(m, e))
    <3>1. e \in m.current \/ e \in started
      BY <2>2
    <3> QED  BY <2>4, <3>1, Zenon
  <2>12. SlotsFollow(m, r)
    <3> SUFFICES ASSUME NEW e \in r.current
                 PROVE  IsAmtDeviceValid(r, e) \/ (~IsAmtDeviceValid(m, e) /\ e \in m.current)
      BY DEF SlotsFollow
    <3>1. e \in Devs
      BY <2>2, StateFields
    <3>2. IsAmtDeviceValid(r, e) <=> IsAmtDeviceValid(m, e)
      BY <1>1, <2>2, <2>4, <3>1, BecomesKeeps
    <3>3. e \in m.current \/ IsAmtDeviceValid(m, e)
      BY <2>11
    <3> QED  BY <3>2, <3>3, Zenon
  <2>15. TlsRight(r)
    <3> SUFFICES ASSUME NEW e \in Devs, r.dev[e] # None, r.dev[e].phase = "tls"
                 PROVE  r.dev[e].calls > 0
      BY DEF TlsRight
    <3>1. m.dev[e] # None /\ m.dev[e].phase = "tls" /\ r.dev[e].calls = m.dev[e].calls
      BY <1>1, <2>2, <2>4, BecomesKeeps
    <3> QED  BY <3>1 DEF Sound, TlsRight
  <2>13. Sound(r, D)
    BY <2>2, <2>5, <2>6, <2>7, <2>9, <2>15 DEF Sound
  <2>16. ASSUME NEW e \in r.current \ m.current
         PROVE  d \in m.current /\ \E p \in DOMAIN m.pending : m.pending[p] = e
    <3>1. e \in started
      BY <2>2
    <3>2. PICK p \in 1..n : e = m.pending[p]
      BY <2>3, <3>1 DEF ObjectsAdvance
    <3>3. DOMAIN m.pending = 1..Len(m.pending) /\ Len(m.pending) \in Nat
      BY <1>1, StateFields
    <3>4. p \in DOMAIN m.pending
      BY <3>3
    <3> QED  BY <1>3, <3>2, <3>4
  <2>14. Completes(m, r, d)
    BY <2>2, <2>4, <2>7, <2>10, <2>11, <2>12, <2>16, Zenon DEF Completes, Follows
  <2> QED  BY <2>13, <2>14 DEF r
<1> QED  BY <1>2, <1>3

-----------------------------------------------------------------------------
(***************************************************************************)
(* The change of one object.                                               *)
(***************************************************************************)

LEMMA SoundIs ==
    ASSUME NEW m, NEW D
    PROVE  Sound(m, D) <=> Sound(m, {}) /\ Alone(m, D)
BY DEF Sound, Alone

\* r is m with another object for d, and perhaps other hosts in contact.
Changes(m, r, d, o) ==
    /\ r \in ManagerState
    /\ r.dev = [m.dev EXCEPT ![d] = o]
    /\ r.list = m.list /\ r.current = m.current /\ r.pending = m.pending

\* May the phase of d change to this one, at any time?
MayBecome(m, d, phase) ==
    \/ phase = m.dev[d].phase
    \/ /\ phase # "held" /\ m.dev[d].phase # "held"
       /\ phase = "done" => d \notin m.current

LEMMA OneChanges ==
    ASSUME NEW m, Sound(m, {}), NEW d \in Devs, m.dev[d] # None,
           NEW o \in Object, o.node = m.dev[d].node, MayBecome(m, d, o.phase),
           o.phase = "tls" => o.calls > 0, NEW r, Changes(m, r, d, o)
    PROVE  /\ Sound(r, {})
           /\ \A e \in Devs : IsAmtDeviceValid(r, e) <=> IsAmtDeviceValid(m, e)
<1>1. /\ m \in ManagerState /\ ListsAreRight(m) /\ HeldRight(m) /\ HeldInOrder(m)
      /\ SlotsRight(m) /\ SlotsInUse(m) /\ TlsRight(m)
  BY DEF Sound
<1>2. /\ m.dev \in [Devs -> Object \cup {None}] /\ m.list \in [Nodes -> Seq(Devs)]
      /\ m.pending \in Seq(Devs) /\ m.current \subseteq Devs
  BY <1>1, StateFields
<1>3. /\ r.list = m.list /\ r.current = m.current /\ r.pending = m.pending
      /\ r \in ManagerState
      /\ r.dev[d] = o /\ \A e \in Devs \ {d} : r.dev[e] = m.dev[e]
  BY <1>2 DEF Changes
<1>4. o # None
  BY ManagerAssumption
<1>5. \A e \in Devs :
         /\ r.dev[e] # None <=> m.dev[e] # None
         /\ m.dev[e] # None =>
               r.dev[e].node = m.dev[e].node /\ MayBecome(m, e, r.dev[e].phase)
  BY <1>3, <1>4 DEF MayBecome
<1>6. \A e \in Devs : IsAmtDeviceValid(r, e) <=> IsAmtDeviceValid(m, e)
  BY <1>3, <1>5 DEF IsAmtDeviceValid
<1>7. ListsAreRight(r)
  <2>1. \A n \in Nodes : \A i \in DOMAIN m.list[n] : m.list[n][i] \in Devs
    <3> SUFFICES ASSUME NEW n \in Nodes, NEW i \in DOMAIN m.list[n]  PROVE m.list[n][i] \in Devs
      OBVIOUS
    <3>1. m.list[n] \in Seq(Devs)
      BY <1>2
    <3> QED  BY <3>1
  <2> QED  BY <1>1, <1>3, <1>5, <2>1 DEF ListsAreRight
<1>8. HeldRight(r)
  <2>1. \A p \in DOMAIN m.pending : m.pending[p] \in Devs
    BY <1>2
  <2>2. \A e \in Devs : m.dev[e] # None /\ m.dev[e].phase = "held" =>
            r.dev[e] # None /\ r.dev[e].phase = "held"
    BY <1>5 DEF MayBecome
  <2> QED  BY <1>1, <1>3, <2>1, <2>2 DEF HeldRight
<1>9. SlotsRight(r)
  <2> SUFFICES ASSUME NEW e \in m.current, IsAmtDeviceValid(r, e)
               PROVE  r.dev[e].phase \notin {"held", "done"}
    BY <1>3 DEF SlotsRight
  <2>1. e \in Devs /\ IsAmtDeviceValid(m, e) /\ m.dev[e] # None
    BY <1>2, <1>6 DEF IsAmtDeviceValid
  <2>2. m.dev[e].phase \notin {"held", "done"} /\ MayBecome(m, e, r.dev[e].phase)
    BY <1>1, <1>5, <2>1 DEF SlotsRight
  <2> QED  BY <2>2 DEF MayBecome
<1>10. SlotsInUse(r) /\ HeldInOrder(r)
  BY <1>1, <1>3 DEF SlotsInUse, HeldInOrder
<1>11. TlsRight(r)
  BY <1>1, <1>3 DEF TlsRight
<1> QED  BY <1>3, <1>6, <1>7, <1>8, <1>9, <1>10, <1>11 DEF Sound, Alone

\* An object that is neither listed nor in the queue is forgotten.
LEMMA OneGoes ==
    ASSUME NEW m, NEW D \in SUBSET Devs, Sound(m, D), NEW d \in Devs,
           ~IsAmtDeviceValid(m, d), ~IsHeld(m, d)
    PROVE  Sound(Gone(m, d), D \cup {d}) /\ Follows(m, Gone(m, d))
<1> DEFINE r == Gone(m, d)
<1>1. /\ m \in ManagerState /\ ListsAreRight(m) /\ HeldRight(m) /\ HeldInOrder(m)
      /\ SlotsRight(m) /\ SlotsInUse(m) /\ TlsRight(m) /\ Alone(m, D)
  BY DEF Sound
<1>2. /\ m.dev \in [Devs -> Object \cup {None}] /\ m.list \in [Nodes -> Seq(Devs)]
      /\ m.pending \in Seq(Devs) /\ m.current \subseteq Devs
  BY <1>1, StateFields
<1>3. /\ r.list = m.list /\ r.current = m.current /\ r.pending = m.pending
      /\ r.active = m.active
      /\ r.dev[d] = None /\ \A e \in Devs \ {d} : r.dev[e] = m.dev[e]
  BY <1>1, <1>2 DEF Gone, ManagerState
<1>4. r \in ManagerState
  BY <1>1 DEF Gone, ManagerState
<1> HIDE DEF r
<1>5. \A e \in Devs : IsAmtDeviceValid(r, e) <=> IsAmtDeviceValid(m, e)
  <2> SUFFICES ASSUME NEW e \in Devs
               PROVE  IsAmtDeviceValid(r, e) <=> IsAmtDeviceValid(m, e)
    OBVIOUS
  <2>1. CASE e = d
    BY <1>3, <2>1 DEF IsAmtDeviceValid
  <2>2. CASE e # d
    BY <1>3, <2>2 DEF IsAmtDeviceValid
  <2> QED  BY <2>1, <2>2
<1>6. ListsAreRight(r)
  <2>1. ASSUME NEW n \in Nodes, NEW i \in DOMAIN m.list[n]
        PROVE  m.list[n][i] \in Devs \ {d}
    <3>1. m.list[n][i] \in ToSet(m.list[n])
      BY Listed
    <3>2. m.list[n][i] \in Devs /\ IsAmtDeviceValid(m, m.list[n][i])
      BY <1>1, <3>1, ListedIsValid
    <3> QED  BY <3>2
  <2> QED  BY <1>1, <1>3, <2>1 DEF ListsAreRight
<1>7. HeldRight(r)
  <2>1. \A p \in DOMAIN m.pending : m.pending[p] \in Devs \ {d}
    BY <1>1, <1>2 DEF HeldRight, IsHeld
  <2> QED  BY <1>1, <1>3, <2>1 DEF HeldRight
<1>8. SlotsRight(r)
  <2> SUFFICES ASSUME NEW e \in m.current, IsAmtDeviceValid(r, e)
               PROVE  r.dev[e].phase \notin {"held", "done"}
    BY <1>3 DEF SlotsRight
  <2>1. e \in Devs /\ IsAmtDeviceValid(m, e) /\ e # d
    BY <1>2, <1>5
  <2> QED  BY <1>1, <1>3, <2>1 DEF SlotsRight
<1>9. SlotsInUse(r) /\ HeldInOrder(r)
  BY <1>1, <1>3 DEF SlotsInUse, HeldInOrder
<1>10. Alone(r, D \cup {d})
  <2>1. \A e \in D \cup {d} : InContact(r, e) => e \in D /\ e # d /\ r.dev[e] = m.dev[e]
    BY <1>3 DEF InContact
  <2>2. \A e \in D : InContact(r, e) => InContact(m, e)
    BY <2>1 DEF InContact
  <2> QED  BY <1>1, <1>3, <2>1, <2>2 DEF Alone, Local
<1>11. Follows(m, r)
  <2>1. Remains(m, r)
    <3> SUFFICES ASSUME NEW e \in Devs, IsAmtDeviceValid(r, e)
                 PROVE  IsAmtDeviceValid(m, e) /\ r.dev[e] = m.dev[e]
      BY DEF Remains
    <3> QED  BY <1>3, <1>5
  <2>2. SlotsFollow(m, r)
    BY <1>2, <1>3, <1>5 DEF SlotsFollow
  <2> QED  BY <2>1, <2>2 DEF Follows
<1>13. TlsRight(r)
  BY <1>1, <1>3 DEF TlsRight
<1>12. Sound(r, D \cup {d})
  BY <1>4, <1>6, <1>7, <1>8, <1>9, <1>10, <1>13 DEF Sound
<1> QED  BY <1>11, <1>12 DEF r

\* The slots are as they were.
LEMMA SlotsStay ==
    ASSUME NEW m \in ManagerState, NEW r, r.current = m.current,
           \A e \in Devs : IsAmtDeviceValid(r, e) <=> IsAmtDeviceValid(m, e)
    PROVE  SlotsFollow(m, r)
<1>1. m.current \subseteq Devs
  BY StateFields
<1> QED  BY <1>1 DEF SlotsFollow

LEMMA PhaseIs ==
    ASSUME NEW m \in ManagerState, NEW d \in Devs, m.dev[d] # None, NEW phase \in Phases
    PROVE  /\ [m.dev[d] EXCEPT !.phase = phase] \in Object
           /\ [m.dev[d] EXCEPT !.phase = phase].phase = phase
           /\ [m.dev[d] EXCEPT !.phase = phase].node = m.dev[d].node
           /\ [m.dev[d] EXCEPT !.phase = phase].conn = m.dev[d].conn
           /\ [m.dev[d] EXCEPT !.phase = phase].calls = m.dev[d].calls
           /\ Changes(m, Phase(m, d, phase), d, [m.dev[d] EXCEPT !.phase = phase])
           /\ Phase(m, d, phase).active = m.active
<1>1. m.dev[d] \in Object
  BY ObjectFields
<1>2. /\ [m.dev[d] EXCEPT !.phase = phase] \in Object
      /\ [m.dev[d] EXCEPT !.phase = phase].phase = phase
      /\ [m.dev[d] EXCEPT !.phase = phase].node = m.dev[d].node
      /\ [m.dev[d] EXCEPT !.phase = phase].conn = m.dev[d].conn
      /\ [m.dev[d] EXCEPT !.phase = phase].calls = m.dev[d].calls
  BY <1>1 DEF Object
<1> DEFINE o == [m.dev[d] EXCEPT !.phase = phase]
<1>3. o \in Object
  BY <1>2
<1>4. Phase(m, d, phase) = [m EXCEPT !.dev = [m.dev EXCEPT ![d] = o]]
  BY DEF Phase, ManagerState
<1> HIDE DEF o
<1>5. [m.dev EXCEPT ![d] = o] \in [Devs -> Object \cup {None}]
  BY <1>3, StateFields
<1>6. Changes(m, Phase(m, d, phase), d, o) /\ Phase(m, d, phase).active = m.active
  BY <1>4, <1>5 DEF Changes, ManagerState
<1> QED  BY <1>2, <1>6 DEF o

\* A change that makes no first contact.
LEMMA ChangeStep ==
    ASSUME NEW m, NEW D \in SUBSET Devs, Sound(m, D), NEW d \in Devs, m.dev[d] # None,
           NEW o \in Object, o.node = m.dev[d].node, o.phase # "contact",
           MayBecome(m, d, o.phase), o.phase = "tls" => o.calls > 0,
           NEW r, Changes(m, r, d, o), r.active = m.active
    PROVE  /\ Sound(r, D \cup {d}) /\ SlotsFollow(m, r)
           /\ (o.phase = "tls" => m.dev[d].phase = "tls") => Follows(m, r)
<1>1. m \in ManagerState /\ Sound(m, {}) /\ Alone(m, D)
  BY SoundIs DEF Sound
<1>3. Sound(r, {}) /\ \A e \in Devs : IsAmtDeviceValid(r, e) <=> IsAmtDeviceValid(m, e)
  BY <1>1, OneChanges
<1>4. r.dev[d] = o /\ \A e \in Devs \ {d} : r.dev[e] = m.dev[e]
  BY <1>1, StateFields DEF Changes
<1>5. Alone(r, D \cup {d})
  <2>1. \A e \in D \cup {d} : InContact(r, e) => e \in D /\ e # d /\ r.dev[e] = m.dev[e]
    BY <1>4 DEF InContact
  <2>2. \A e \in D : InContact(r, e) => InContact(m, e)
    BY <2>1 DEF InContact
  <2> QED  BY <1>1, <2>1, <2>2 DEF Alone, Local
<1>6. Sound(r, D \cup {d})
  BY <1>3, <1>5, SoundIs
<1>7. SlotsFollow(m, r)
  BY <1>1, <1>3, SlotsStay DEF Changes
<1>8. ASSUME o.phase = "tls" => m.dev[d].phase = "tls"  PROVE Remains(m, r)
  <2> SUFFICES ASSUME NEW e \in Devs, IsAmtDeviceValid(r, e)
               PROVE  /\ IsAmtDeviceValid(m, e) /\ r.dev[e].node = m.dev[e].node
                      /\ r.dev[e].phase = "tls" => m.dev[e].phase = "tls"
    BY DEF Remains
  <2> QED  BY <1>3, <1>4, <1>8
<1> QED  BY <1>6, <1>7, <1>8 DEF Follows

\* Setting a phase that is not a first contact.
LEMMA PhaseStep ==
    ASSUME NEW m, NEW D \in SUBSET Devs, Sound(m, D), NEW d \in Devs, m.dev[d] # None,
           NEW phase \in Phases, phase # "contact", MayBecome(m, d, phase),
           phase = "tls" => m.dev[d].calls > 0
    PROVE  LET r == Phase(m, d, phase)
           IN  /\ Sound(r, D \cup {d}) /\ SlotsFollow(m, r)
               /\ phase # "tls" => Follows(m, r)
<1> DEFINE r == Phase(m, d, phase)
           o == [m.dev[d] EXCEPT !.phase = phase]
<1>1. m \in ManagerState
  BY DEF Sound
<1>2. /\ o \in Object /\ o.phase = phase /\ o.node = m.dev[d].node
      /\ o.calls = m.dev[d].calls /\ Changes(m, r, d, o) /\ r.active = m.active
  BY <1>1, PhaseIs
<1> HIDE DEF r, o
<1>3. /\ Sound(r, D \cup {d}) /\ SlotsFollow(m, r)
      /\ (o.phase = "tls" => m.dev[d].phase = "tls") => Follows(m, r)
  BY <1>2, ChangeStep
<1> QED  BY <1>2, <1>3 DEF r

LEMMA ContactStep ==
    ASSUME NEW m, Right(m), NEW d \in Devs, m.dev[d] # None,
           m.dev[d].phase \notin {"held", "contact"}
    PROVE  Right(Contact(m, d)) /\ SlotsFollow(m, Contact(m, d))
<1> DEFINE o == [m.dev[d] EXCEPT !.phase = "contact"]
           p == Phase(m, d, "contact")
           h == m.dev[d].conn
<1>1. m \in ManagerState /\ Sound(m, Devs) /\ Sound(m, {}) /\ Alone(m, Devs)
  BY SoundIs DEF Right, Sound
<1>2. CASE Local(m, d) /\ h \in m.active
  <2>1. Contact(m, d) = Phase(m, d, "hold")
    BY <1>2 DEF Contact
  <2>2. Sound(Phase(m, d, "hold"), Devs \cup {d}) /\ SlotsFollow(m, Phase(m, d, "hold"))
    BY <1>1, PhaseStep DEF MayBecome, Phases
  <2>3. Devs \cup {d} = Devs
    OBVIOUS
  <2> QED  BY <2>1, <2>2, <2>3, Zenon DEF Right
<1>3. CASE ~(Local(m, d) /\ h \in m.active)
  <2> DEFINE r == Contact(m, d)
  <2>1. h \in Hosts \cup {Cira}
    BY <1>1, ObjectFields
  <2>2. /\ o \in Object /\ o.phase = "contact" /\ o.node = m.dev[d].node /\ o.conn = h
        /\ Changes(m, p, d, o) /\ p.active = m.active
    <3>1. "contact" \in Phases
      BY DEF Phases
    <3> QED  BY <1>1, <3>1, PhaseIs, Zenon
  <2>3. /\ Changes(m, r, d, o)
        /\ r.active = IF Local(m, d) THEN m.active \cup {h} ELSE m.active
    <3>1. CASE Local(m, d)
      <4>1. r = [p EXCEPT !.active = @ \cup {h}] /\ h \in Hosts
        BY <1>3, <2>1, <3>1 DEF Contact, Local
      <4> HIDE DEF r, p, h
      <4>2. p \in ManagerState
        BY <2>2 DEF Changes
      <4>3. /\ r \in ManagerState /\ r.active = p.active \cup {h}
            /\ r.dev = p.dev /\ r.list = p.list /\ r.current = p.current /\ r.pending = p.pending
        BY <4>1, <4>2 DEF ManagerState
      <4> QED  BY <2>2, <3>1, <4>3 DEF Changes
    <3>2. CASE ~Local(m, d)
      BY <2>2, <3>2 DEF Contact
    <3> QED  BY <3>1, <3>2
  <2> HIDE DEF r, o, p
  <2>4. Sound(r, {}) /\ \A e \in Devs : IsAmtDeviceValid(r, e) <=> IsAmtDeviceValid(m, e)
    BY <1>1, <2>2, <2>3, OneChanges DEF MayBecome
  <2>5. r.dev[d] = o /\ \A e \in Devs \ {d} : r.dev[e] = m.dev[e]
    BY <1>1, <2>3, StateFields DEF Changes
  <2>6. \A e \in Devs \ {d} :
           /\ InContact(r, e) <=> InContact(m, e)
           /\ Local(r, e) <=> Local(m, e)
           /\ r.dev[e].conn = m.dev[e].conn
    BY <2>5 DEF InContact, Local
  <2>7. r.dev[d].conn = h /\ (Local(r, d) <=> Local(m, d))
    BY <2>2, <2>5 DEF Local
  <2>8. ASSUME NEW e \in Devs \ {d}, InContact(r, e), Local(m, e)
        PROVE  m.dev[e].conn \in m.active /\ m.dev[e].conn # h
    <3>1. m.dev[e].conn \in m.active /\ m.dev[e].conn # Cira
      BY <1>1, <2>6, <2>8 DEF Alone, Local
    <3> QED  BY <1>3, <3>1 DEF Local
  <2>9. Alone(r, Devs)
    <3> SUFFICES ASSUME NEW e \in Devs, InContact(r, e), Local(r, e)
                 PROVE  /\ r.dev[e].conn \in r.active
                        /\ \A f \in Devs \ {e} : InContact(r, f) => r.dev[f].conn # r.dev[e].conn
      BY DEF Alone
    <3>1. CASE e = d
      <4>1. Local(m, d) /\ h \in r.active /\ h # Cira
        BY <2>3, <2>7, <3>1 DEF Local
      <4>2. ASSUME NEW f \in Devs \ {d}, InContact(r, f)  PROVE r.dev[f].conn # h
        <5>1. CASE Local(m, f)
          BY <2>6, <2>8, <4>2, <5>1
        <5>2. CASE ~Local(m, f)
          BY <2>6, <4>1, <5>2 DEF Local
        <5> QED  BY <5>1, <5>2
      <4> QED  BY <2>7, <3>1, <4>1, <4>2
    <3>2. CASE e # d
      <4>1. r.dev[e].conn = m.dev[e].conn /\ Local(m, e) /\ InContact(m, e)
        BY <2>6, <3>2
      <4>2. m.dev[e].conn \in m.active /\ m.dev[e].conn # h
        BY <2>8, <3>2, <4>1
      <4>3. ASSUME NEW f \in Devs \ {e}, InContact(r, f)  PROVE r.dev[f].conn # r.dev[e].conn
        <5>1. CASE f = d
          BY <2>7, <4>1, <4>2, <5>1
        <5>2. CASE f # d
          <6>1. InContact(m, f) /\ r.dev[f].conn = m.dev[f].conn
            BY <2>6, <4>3, <5>2
          <6> QED  BY <1>1, <4>1, <6>1 DEF Alone
        <5> QED  BY <5>1, <5>2
      <4> QED  BY <2>3, <4>1, <4>2, <4>3
    <3> QED  BY <3>1, <3>2
  <2>10. Right(r)
    BY <2>4, <2>9, SoundIs DEF Right
  <2>11. SlotsFollow(m, r)
    BY <1>1, <2>3, <2>4, SlotsStay DEF Changes
  <2> QED  BY <2>10, <2>11 DEF r
<1> QED  BY <1>2, <1>3

\* The answer releases the host; what is left of the contact is the phase.
LEMMA AnsweredStep ==
    ASSUME NEW m, Right(m), NEW d \in Devs, InContact(m, d)
    PROVE  LET r == Answered(m, d)
           IN  /\ Sound(r, Devs \ {d})
               /\ r.dev = m.dev /\ r.list = m.list /\ r.current = m.current
               /\ r.pending = m.pending
<1> DEFINE r == Answered(m, d)
           h == m.dev[d].conn
<1>1. m \in ManagerState /\ Sound(m, {}) /\ Alone(m, Devs)
  BY SoundIs DEF Right, Sound
<1>2. /\ r \in ManagerState /\ r.dev = m.dev /\ r.list = m.list
      /\ r.current = m.current /\ r.pending = m.pending
      /\ r.active = IF Local(m, d) THEN m.active \ {h} ELSE m.active
  <2>1. CASE Local(m, d)
    BY <1>1, <2>1 DEF Answered, ManagerState
  <2>2. CASE ~Local(m, d)
    BY <1>1, <2>2 DEF Answered
  <2> QED  BY <2>1, <2>2
<1> HIDE DEF r
<1>3. Sound(r, {})
  <2>1. \A e : IsAmtDeviceValid(r, e) <=> IsAmtDeviceValid(m, e)
    BY <1>2 DEF IsAmtDeviceValid
  <2>2. ListsAreRight(r) /\ HeldRight(r) /\ SlotsInUse(r)
    BY <1>1, <1>2 DEF Sound, ListsAreRight, HeldRight, SlotsInUse
  <2>3. HeldInOrder(r) /\ TlsRight(r)
    BY <1>1, <1>2 DEF Sound, HeldInOrder, TlsRight
  <2>4. SlotsRight(r)
    BY <1>1, <1>2, <2>1 DEF Sound, SlotsRight
  <2> QED  BY <1>2, <2>2, <2>3, <2>4 DEF Sound, Alone
<1>4. Alone(r, Devs \ {d})
  <2>1. \A e : InContact(r, e) <=> InContact(m, e)
    BY <1>2 DEF InContact
  <2>2. \A e : Local(r, e) <=> Local(m, e)
    BY <1>2 DEF Local
  <2>3. ASSUME NEW e \in Devs \ {d}, InContact(r, e), Local(r, e)
        PROVE  /\ r.dev[e].conn \in r.active
               /\ \A f \in (Devs \ {d}) \ {e} : InContact(r, f) => r.dev[f].conn # r.dev[e].conn
    <3>1. InContact(m, e) /\ Local(m, e)
      BY <2>1, <2>2, <2>3
    <3>2. /\ m.dev[e].conn \in m.active
          /\ \A f \in Devs \ {e} : InContact(m, f) => m.dev[f].conn # m.dev[e].conn
      BY <1>1, <3>1 DEF Alone
    <3>3. m.dev[e].conn # h
      BY <3>2
    <3> QED  BY <1>2, <2>1, <3>2, <3>3
  <2> QED  BY <2>3 DEF Alone
<1>5. Sound(r, Devs \ {d})
  BY <1>3, <1>4, SoundIs
<1> QED  BY <1>2, <1>5 DEF r

-----------------------------------------------------------------------------
(***************************************************************************)
(* Devices that leave the list.                                            *)
(***************************************************************************)

\* What is taken out of the list of node n, of the devices that are in it: `out',
\* all that is left of them.
Removes(m, r, n, w, out, D) ==
    /\ r \in ManagerState
    /\ r.list = [m.list EXCEPT ![n] = w]
    /\ r.active = m.active /\ r.current = m.current /\ r.pending = m.pending
    /\ \A e \in Devs \ out : r.dev[e] = m.dev[e]
    /\ \A e \in out : /\ e \in D \/ ~InContact(r, e)
                      /\ r.dev[e] \in {m.dev[e], None}
                      /\ IsHeld(m, e) => r.dev[e] = m.dev[e]

\* The new list has what is not taken out, in the same order.
Remainder(s, w, out) ==
    /\ w \in Seq(Devs)
    /\ \E h \in [DOMAIN w -> DOMAIN s] :
          /\ \A k \in DOMAIN w : w[k] = s[h[k]] /\ s[h[k]] \notin out
          /\ \A k, l \in DOMAIN w : k < l => h[k] < h[l]
          /\ \A j \in DOMAIN s : s[j] \notin out => \E k \in DOMAIN w : h[k] = j

LEMMA RemovesKeeps ==
    ASSUME NEW m, NEW D \in SUBSET Devs, Sound(m, D), NEW n \in Nodes,
           NEW out, out \subseteq ToSet(m.list[n]), NEW w, Remainder(m.list[n], w, out),
           NEW r, Removes(m, r, n, w, out, D)
    PROVE  /\ Sound(r, D \cup out)
           /\ Remains(m, r)
           /\ \A e \in Devs : IsAmtDeviceValid(r, e) <=> IsAmtDeviceValid(m, e) /\ e \notin out
<1> DEFINE s == m.list[n]
<1>1. /\ m \in ManagerState /\ ListsAreRight(m) /\ HeldRight(m) /\ HeldInOrder(m)
      /\ SlotsRight(m) /\ SlotsInUse(m) /\ TlsRight(m) /\ Alone(m, D)
  BY DEF Sound
<1>2. /\ m.list \in [Nodes -> Seq(Devs)] /\ m.pending \in Seq(Devs) /\ m.current \subseteq Devs
  BY <1>1, StateFields
<1>3. /\ r \in ManagerState /\ r.list[n] = w /\ \A k \in Nodes \ {n} : r.list[k] = m.list[k]
      /\ r.active = m.active /\ r.current = m.current /\ r.pending = m.pending
      /\ \A e \in Devs \ out : r.dev[e] = m.dev[e]
      /\ \A e \in out : /\ e \in D \/ ~InContact(r, e)
                        /\ r.dev[e] \in {m.dev[e], None}
                        /\ IsHeld(m, e) => r.dev[e] = m.dev[e]
  BY <1>2 DEF Removes
<1>4. PICK h \in [DOMAIN w -> DOMAIN s] :
         /\ \A k \in DOMAIN w : w[k] = s[h[k]] /\ s[h[k]] \notin out
         /\ \A k, l \in DOMAIN w : k < l => h[k] < h[l]
         /\ \A j \in DOMAIN s : s[j] \notin out => \E k \in DOMAIN w : h[k] = j
  BY DEF Remainder
<1>5. w \in Seq(Devs) /\ s \in Seq(Devs) /\ DOMAIN w \subseteq Nat /\ DOMAIN s \subseteq Nat
  BY <1>2 DEF Remainder
<1> HIDE DEF s
<1>6. \A e \in out : e \in Devs /\ IsAmtDeviceValid(m, e) /\ m.dev[e].node = n
  BY <1>1, ListedIsValid
<1>7. \A e : e \in ToSet(w) <=> e \in ToSet(s) /\ e \notin out
  <2>1. ASSUME NEW e \in ToSet(w)  PROVE e \in ToSet(s) /\ e \notin out
    <3>1. PICK k \in DOMAIN w : w[k] = e
      BY <2>1, Listed
    <3>2. h[k] \in DOMAIN s /\ s[h[k]] = e /\ e \notin out
      BY <1>4, <3>1
    <3> QED  BY <3>2, Listed
  <2>2. ASSUME NEW e \in ToSet(s), e \notin out  PROVE e \in ToSet(w)
    <3>1. PICK j \in DOMAIN s : s[j] = e
      BY <2>2, Listed
    <3>2. PICK k \in DOMAIN w : h[k] = j
      BY <1>4, <2>2, <3>1
    <3>3. w[k] = e
      BY <1>4, <3>1, <3>2
    <3> QED  BY <3>3, Listed
  <2> QED  BY <2>1, <2>2
<1>8. ASSUME NEW e \in Devs
      PROVE  IsAmtDeviceValid(r, e) <=> IsAmtDeviceValid(m, e) /\ e \notin out
  <2>1. CASE e \in out
    <3>1. r.dev[e] # None => r.dev[e].node = n
      BY <1>3, <1>6, <2>1
    <3>2. e \notin ToSet(r.list[n])
      BY <1>3, <1>7, <2>1
    <3> QED  BY <2>1, <3>1, <3>2 DEF IsAmtDeviceValid
  <2>2. CASE e \notin out
    <3>1. r.dev[e] = m.dev[e]
      BY <1>3, <2>2
    <3>2. CASE m.dev[e] = None
      BY <3>1, <3>2 DEF IsAmtDeviceValid
    <3>3. CASE m.dev[e] # None /\ m.dev[e].node = n
      BY <1>3, <1>7, <2>2, <3>1, <3>3 DEF IsAmtDeviceValid, s
    <3>4. CASE m.dev[e] # None /\ m.dev[e].node # n
      <4>1. m.dev[e].node \in Nodes \ {n}
        BY <1>1, <3>4, ObjectFields
      <4> QED  BY <1>3, <2>2, <3>1, <3>4, <4>1 DEF IsAmtDeviceValid
    <3> QED  BY <3>2, <3>3, <3>4
  <2> QED  BY <2>1, <2>2
<1>9. ListsAreRight(r)
  <2>1. ASSUME NEW i \in DOMAIN w, NEW j \in DOMAIN w, w[i] = w[j]  PROVE i = j
    <3>1. s[h[i]] = s[h[j]] /\ h[i] \in DOMAIN s /\ h[j] \in DOMAIN s
      BY <1>4, <2>1
    <3>2. h[i] = h[j]
      BY <1>1, <3>1 DEF ListsAreRight, s
    <3>3. ~(i < j) /\ ~(j < i)
      <4>1. h[i] \in Nat /\ h[j] \in Nat
        BY <1>5, <3>1
      <4>2. i < j => h[i] < h[j]
        BY <1>4
      <4>3. j < i => h[j] < h[i]
        BY <1>4
      <4> QED  BY <3>2, <4>1, <4>2, <4>3
    <3>4. i \in Nat /\ j \in Nat
      BY <1>5
    <3> QED  BY <3>3, <3>4
  <2>2. ASSUME NEW i \in DOMAIN w  PROVE r.dev[w[i]] # None /\ r.dev[w[i]].node = n
    <3>1. w[i] \in ToSet(s) /\ w[i] \notin out
      BY <1>7, Listed
    <3>2. w[i] \in Devs /\ IsAmtDeviceValid(m, w[i]) /\ m.dev[w[i]].node = n
      BY <1>1, <3>1, ListedIsValid DEF s
    <3> QED  BY <1>3, <3>1, <3>2 DEF IsAmtDeviceValid
  <2>3. ASSUME NEW k \in Nodes \ {n}, NEW i \in DOMAIN m.list[k]
        PROVE  r.dev[m.list[k][i]] # None /\ r.dev[m.list[k][i]].node = k
    <3> DEFINE e == m.list[k][i]
    <3>1. e \in Devs /\ IsAmtDeviceValid(m, e) /\ m.dev[e].node = k
      BY <1>1, Listed, ListedIsValid
    <3>2. e \notin out
      BY <1>6, <3>1
    <3> QED  BY <1>3, <3>1, <3>2 DEF IsAmtDeviceValid
  <2>4. ASSUME NEW k \in Nodes
        PROVE  /\ \A i, j \in DOMAIN r.list[k] : r.list[k][i] = r.list[k][j] => i = j
               /\ \A i \in DOMAIN r.list[k] :
                     r.dev[r.list[k][i]] # None /\ r.dev[r.list[k][i]].node = k
    <3>1. CASE k = n
      BY <1>3, <2>1, <2>2, <3>1
    <3>2. CASE k # n
      BY <1>1, <1>3, <2>3, <3>2 DEF ListsAreRight
    <3> QED  BY <3>1, <3>2
  <2> QED  BY <2>4 DEF ListsAreRight
<1>10. HeldRight(r)
  <2>1. \A p \in DOMAIN m.pending : m.pending[p] \in Devs /\ IsHeld(m, m.pending[p])
    BY <1>1, <1>2 DEF HeldRight, IsHeld
  <2>2. \A p \in DOMAIN m.pending : r.dev[m.pending[p]] = m.dev[m.pending[p]]
    BY <1>3, <2>1
  <2> QED  BY <1>1, <1>3, <2>2 DEF HeldRight
<1>11. SlotsRight(r)
  <2> SUFFICES ASSUME NEW e \in m.current, IsAmtDeviceValid(r, e)
               PROVE  r.dev[e].phase \notin {"held", "done"}
    BY <1>3 DEF SlotsRight
  <2>1. e \in Devs /\ IsAmtDeviceValid(m, e) /\ e \notin out
    BY <1>2, <1>8
  <2> QED  BY <1>1, <1>3, <2>1 DEF SlotsRight
<1>12. SlotsInUse(r)
  BY <1>1, <1>3 DEF SlotsInUse
<1>13. HeldInOrder(r)
  <2> SUFFICES ASSUME NEW k \in Nodes, NEW i \in DOMAIN r.list[k], NEW j \in DOMAIN r.list[k],
                      i < j, NEW p \in DOMAIN m.pending, m.pending[p] = r.list[k][i]
               PROVE  \E q \in DOMAIN m.pending : p < q /\ m.pending[q] = r.list[k][j]
    BY <1>3 DEF HeldInOrder
  <2>1. CASE k = n
    <3>1. /\ h[i] \in DOMAIN s /\ h[j] \in DOMAIN s /\ h[i] < h[j]
          /\ r.list[k][i] = s[h[i]] /\ r.list[k][j] = s[h[j]]
      BY <1>3, <1>4, <2>1
    <3> QED  BY <1>1, <3>1 DEF HeldInOrder, s
  <2>2. CASE k # n
    BY <1>1, <1>3, <2>2 DEF HeldInOrder
  <2> QED  BY <2>1, <2>2
<1>14. Alone(r, D \cup out)
  <2>1. \A e \in D \cup out : InContact(r, e) => e \in D /\ r.dev[e] = m.dev[e]
    BY <1>3, <1>6 DEF InContact
  <2>2. \A e \in D : InContact(r, e) => InContact(m, e)
    BY <2>1 DEF InContact
  <2> QED  BY <1>1, <1>3, <2>1, <2>2 DEF Alone, Local
<1>15. Remains(m, r)
  <2> SUFFICES ASSUME NEW e \in Devs, IsAmtDeviceValid(r, e)
               PROVE  IsAmtDeviceValid(m, e) /\ r.dev[e] = m.dev[e]
    BY DEF Remains
  <2> QED  BY <1>3, <1>8
<1>17. TlsRight(r)
  <2>1. \A e \in Devs : r.dev[e] \in {m.dev[e], None}
    BY <1>3
  <2> QED  BY <1>1, <2>1 DEF TlsRight
<1>16. Sound(r, D \cup out)
  BY <1>3, <1>9, <1>10, <1>11, <1>12, <1>13, <1>14, <1>17 DEF Sound
<1> QED  BY <1>8, <1>15, <1>16

\* The device d and those beside leave the list s, of which w is left.
LeaveTogether(s, w, d, beside, c) ==
    /\ {d} \cup beside \subseteq ToSet(s)
    /\ Remainder(s, w, {d} \cup beside)
    /\ d \notin beside /\ (beside # {} => c # 0)

LEMMA PlacesAfter ==
    ASSUME NEW len \in Nat, NEW i \in 1..len, NEW c \in Nat
    PROVE  /\ i \in Nat /\ i + c \in Nat /\ i <= i + c
           /\ \A j \in 1..len :
                 /\ j \in Nat
                 /\ i <= j <=> j = i \/ j > i
                 /\ (j < i \/ j > i + c) <=> ~(i <= j /\ j <= i + c)
                 /\ j > i /\ j <= i + c => c # 0 /\ j # i
OBVIOUS

\* The devices at the c places after that of d.
LEMMA CutRemainder ==
    ASSUME NEW s \in Seq(Devs), \A j, k \in DOMAIN s : s[j] = s[k] => j = k,
           NEW i \in DOMAIN s, NEW d, d = s[i], NEW c \in Nat, NEW u, u = i + c,
           NEW beside, beside = {s[j] : j \in {k \in DOMAIN s : k > i /\ k <= u}},
           NEW w, w = SubSeq(s, 1, i - 1) \o SubSeq(s, u + 1, Len(s))
    PROVE  LeaveTogether(s, w, d, beside, c)
<1> DEFINE out == {d} \cup beside
<1>1. DOMAIN s = 1..Len(s) /\ Len(s) \in Nat
  OBVIOUS
<1>2. /\ i \in 1..Len(s) /\ i \in Nat /\ u \in Nat /\ i <= u
      /\ \A j \in 1..Len(s) :
            /\ j \in Nat
            /\ i <= j <=> j = i \/ j > i
            /\ (j < i \/ j > u) <=> ~(i <= j /\ j <= u)
            /\ j > i /\ j <= u => c # 0 /\ j # i
  <2>1. i \in 1..Len(s)
    BY <1>1
  <2> QED  BY <1>1, <2>1, PlacesAfter, Zenon
<1>3. \A e : e \in beside <=> \E j \in DOMAIN s : e = s[j] /\ j > i /\ j <= u
  OBVIOUS
<1>4. \A e : e = d <=> \E j \in DOMAIN s : e = s[j] /\ j = i /\ j <= u
  BY <1>2, Zenon
<1>5. \A e : e \in out <=> \E j \in DOMAIN s : e = s[j] /\ i <= j /\ j <= u
  BY <1>1, <1>2, <1>3, <1>4, Zenon
<1> HIDE DEF out
<1>6. out \subseteq ToSet(s)
  BY <1>5, Listed, Zenon
<1>7. w \in Seq(Devs) /\ CutTo(s, i, u, w)
  BY <1>2, Cut
<1>8. PICK h \in [DOMAIN w -> DOMAIN s] :
           /\ \A k \in DOMAIN w : w[k] = s[h[k]] /\ (h[k] < i \/ h[k] > u)
           /\ \A k, x \in DOMAIN w : k < x => h[k] < h[x]
           /\ \A j \in DOMAIN s : j < i \/ j > u => \E k \in DOMAIN w : h[k] = j
  BY <1>7, Zenon DEF CutTo
<1>9. \A j \in DOMAIN s : s[j] \notin out <=> (j < i \/ j > u)
  <2> SUFFICES ASSUME NEW j \in DOMAIN s
               PROVE  s[j] \in out <=> i <= j /\ j <= u
    BY <1>1, <1>2, Zenon
  <2>1. ASSUME s[j] \in out  PROVE i <= j /\ j <= u
    <3>1. PICK k \in DOMAIN s : s[j] = s[k] /\ i <= k /\ k <= u
      BY <1>5, <2>1, Zenon
    <3>2. j = k
      BY <3>1, Zenon
    <3> QED  BY <3>1, <3>2, Zenon
  <2>2. ASSUME i <= j /\ j <= u  PROVE s[j] \in out
    BY <1>5, <2>2, Zenon
  <2> QED  BY <2>1, <2>2
<1>10. \A k \in DOMAIN w : w[k] = s[h[k]] /\ s[h[k]] \notin out
  BY <1>8, <1>9
<1>11. \A j \in DOMAIN s : s[j] \notin out => \E k \in DOMAIN w : h[k] = j
  BY <1>8, <1>9, Zenon
<1>12. Remainder(s, w, out)
  BY <1>7, <1>8, <1>10, <1>11, Zenon DEF Remainder
<1>13. d \notin beside
  <2> SUFFICES ASSUME d \in beside  PROVE FALSE
    OBVIOUS
  <2>1. PICK j \in DOMAIN s : d = s[j] /\ j > i /\ j <= u
    BY <1>3, Zenon
  <2>2. j = i
    BY <2>1, Zenon
  <2> QED  BY <1>1, <1>2, <2>1, <2>2, Zenon
<1>14. beside # {} => c # 0
  <2> SUFFICES ASSUME beside # {}  PROVE c # 0
    OBVIOUS
  <2>1. PICK e : e \in beside
    BY Zenon
  <2>2. PICK j \in DOMAIN s : j > i /\ j <= u
    BY <1>3, <2>1, Zenon
  <2> QED  BY <1>1, <1>2, <2>2, Zenon
<1> QED  BY <1>6, <1>12, <1>13, <1>14 DEF out, LeaveTogether

\* What is left of a device that leaves the list.
LEMMA UnlistedIs ==
    ASSUME NEW l, NEW e, l.dev[e] # None
    PROVE  /\ Unlisted(l, e) \in {l.dev[e], None}
           /\ IsHeld(l, e) => Unlisted(l, e) = l.dev[e]
           /\ l.dev[e].phase = "contact" => Unlisted(l, e) = None
BY DEF Unlisted, IsHeld

\* What Removed does once the task of the device is completed (l): the device leaves
\* the list, and those at the next places with it.
LEMMA RemovedIs ==
    ASSUME NEW l, NEW D \in SUBSET Devs, Sound(l, D), NEW d \in Devs \ D,
           NEW n \in Nodes, NEW beside, NEW w,
           {d} \cup beside \subseteq ToSet(l.list[n]), Remainder(l.list[n], w, {d} \cup beside),
           NEW r, r = [l EXCEPT
                         !.list[n] = w,
                         !.dev = [e \in Devs |->
                             IF e = d THEN Unlisted(l, d)
                             ELSE IF e \in beside /\ l.dev[e].phase # "contact"
                                  THEN Unlisted(l, e)
                             ELSE @[e]]]
    PROVE  Removes(l, r, n, w, {d} \cup beside, D \cup beside)
<1> DEFINE out == {d} \cup beside
<1>1. l \in ManagerState /\ ListsAreRight(l)
  BY DEF Sound
<1>2. l.dev \in [Devs -> Object \cup {None}] /\ l.list \in [Nodes -> Seq(Devs)]
  BY <1>1, StateFields
<1>3. \A e \in out : e \in Devs /\ l.dev[e] # None
  BY <1>1, ListedIsValid DEF IsAmtDeviceValid
<1>4. w \in Seq(Devs)
  BY DEF Remainder
<1> DEFINE v == [e \in Devs |->
                    IF e = d THEN Unlisted(l, d)
                    ELSE IF e \in beside /\ l.dev[e].phase # "contact" THEN Unlisted(l, e)
                    ELSE l.dev[e]]
<1>5. v \in [Devs -> Object \cup {None}]
  <2> SUFFICES ASSUME NEW e \in Devs  PROVE v[e] \in Object \cup {None}
    OBVIOUS
  <2>1. l.dev[e] \in Object \cup {None}
    BY <1>2
  <2>2. CASE e \in out
    <3>1. Unlisted(l, e) \in {l.dev[e], None}
      BY <1>3, <2>2, UnlistedIs
    <3> QED  BY <2>1, <3>1
  <2>3. CASE e \notin out
    BY <2>1, <2>3
  <2> QED  BY <2>2, <2>3
<1>6. \A e \in Devs : v[e] = IF e = d THEN Unlisted(l, d)
                    ELSE IF e \in beside /\ l.dev[e].phase # "contact" THEN Unlisted(l, e)
                    ELSE l.dev[e]
  OBVIOUS
<1>7. r = [l EXCEPT !.list[n] = w, !.dev = v]
  BY Zenon
<1> HIDE DEF v
<1>8. [l.list EXCEPT ![n] = w] \in [Nodes -> Seq(Devs)]
  BY <1>2, <1>4
<1>9. /\ r \in ManagerState /\ r.dev = v /\ r.list = [l.list EXCEPT ![n] = w]
      /\ r.active = l.active /\ r.current = l.current /\ r.pending = l.pending
  BY <1>1, <1>5, <1>7, <1>8 DEF ManagerState
<1>10. \A e \in Devs \ out : r.dev[e] = l.dev[e]
  BY <1>6, <1>9
<1>11. ASSUME NEW e \in out
       PROVE  /\ e \in D \cup beside \/ ~InContact(r, e)
              /\ r.dev[e] \in {l.dev[e], None}
              /\ IsHeld(l, e) => r.dev[e] = l.dev[e]
  <2>1. e \in Devs /\ l.dev[e] # None /\ r.dev[e] = v[e] /\ (e = d \/ e \in beside)
    BY <1>3, <1>9
  <2>2. CASE e = d
    <3>1. r.dev[e] = Unlisted(l, e)
      BY <1>6, <2>1, <2>2
    <3>2. ~InContact(r, e)
      BY <2>1, <3>1, UnlistedIs DEF InContact
    <3> QED  BY <2>1, <3>1, <3>2, UnlistedIs
  <2>3. CASE e # d
    BY <1>6, <2>1, <2>3, UnlistedIs
  <2> QED  BY <2>2, <2>3
<1> QED  BY <1>9, <1>10, <1>11 DEF Removes

\* What one step leads to the next leads on.
LEMMA FollowsOn ==
    ASSUME NEW m \in ManagerState, NEW k \in ManagerState, NEW r \in ManagerState,
           Follows(m, k), Follows(k, r)
    PROVE  Follows(m, r)
<1>1. k.current \subseteq Devs /\ r.current \subseteq Devs
  BY StateFields
<1>2. Remains(m, r)
  BY DEF Follows, Remains
<1>3. ASSUME NEW d \in r.current
      PROVE  \/ IsAmtDeviceValid(r, d)
             \/ ~IsAmtDeviceValid(m, d) /\ d \in m.current
             \/ IsAmtDeviceValid(m, d) /\ LeavesBeside(m, r, d)
  <2>1. CASE IsAmtDeviceValid(r, d)
    BY <2>1
  <2>2. CASE ~IsAmtDeviceValid(k, d) /\ d \in k.current
    <3>1. CASE ~IsAmtDeviceValid(m, d) /\ d \in m.current
      BY <3>1
    <3>2. CASE IsAmtDeviceValid(m, d) /\ LeavesBeside(m, k, d)
      <4>1. PICK e \in Devs \ {d} :
               /\ IsAmtDeviceValid(m, e) /\ ~IsAmtDeviceValid(k, e)
               /\ m.dev[e].phase = "tls" /\ m.dev[e].node = m.dev[d].node
        BY <3>2 DEF LeavesBeside
      <4>2. ~IsAmtDeviceValid(r, e)
        BY <4>1 DEF Follows, Remains
      <4> QED  BY <3>2, <4>1, <4>2 DEF LeavesBeside
    <3> QED  BY <2>2, <3>1, <3>2 DEF Follows, SlotsFollow
  <2>3. CASE IsAmtDeviceValid(k, d) /\ LeavesBeside(k, r, d)
    <3>1. PICK e \in Devs \ {d} :
             /\ IsAmtDeviceValid(k, e) /\ ~IsAmtDeviceValid(r, e)
             /\ k.dev[e].phase = "tls" /\ k.dev[e].node = k.dev[d].node
      BY <2>3 DEF LeavesBeside
    <3>2. /\ IsAmtDeviceValid(m, e) /\ m.dev[e].phase = "tls"
          /\ k.dev[e].node = m.dev[e].node
      BY <3>1 DEF Follows, Remains
    <3>3. IsAmtDeviceValid(m, d) /\ k.dev[d].node = m.dev[d].node
      BY <1>1, <2>3 DEF Follows, Remains
    <3> QED  BY <3>1, <3>2, <3>3 DEF LeavesBeside
  <2> QED  BY <2>1, <2>2, <2>3 DEF Follows, SlotsFollow
<1> QED  BY <1>2, <1>3 DEF Follows, SlotsFollow

\* removeAmtDevice of a listed device: it leaves the list and gives its slot back.
LEMMA RemovedStep ==
    ASSUME NEW m, NEW d \in Devs, Sound(m, Devs \ {d}), IsAmtDeviceValid(m, d)
    PROVE  LET r == Removed(m, d)
           IN  /\ Right(r) /\ Follows(m, r) /\ ~IsAmtDeviceValid(r, d)
               /\ ~IsHeld(m, d) => ~IsHeld(r, d)
<1> DEFINE l == Completed(m, d)
           n == m.dev[d].node
           s == m.list[n]
           i == CHOOSE j \in DOMAIN s : s[j] = d
           c == PendingCalls(m, d)
           beside == {s[j] : j \in {k \in DOMAIN s : k > i /\ k <= i + c}}
           w == SubSeq(s, 1, i - 1) \o SubSeq(s, i + c + 1, Len(s))
           r == Removed(m, d)
           out == {d} \cup beside
<1>1. /\ m \in ManagerState /\ ListsAreRight(m) /\ TlsRight(m)
      /\ m.dev[d] # None /\ n \in Nodes /\ d \in ToSet(s)
  <2>1. m \in ManagerState /\ ListsAreRight(m) /\ TlsRight(m)
    BY DEF Sound
  <2>2. m.dev[d] # None /\ d \in ToSet(s)
    BY DEF IsAmtDeviceValid
  <2> QED  BY <2>1, <2>2, ObjectFields
<1>2. Sound(l, Devs \ {d}) /\ Completes(m, l, d)
  BY CompletedStep
<1>3. /\ l.list = m.list /\ \A e \in Devs : Becomes(m, l, e)
      /\ d \notin l.current /\ Follows(m, l) /\ l \in ManagerState
  BY <1>2 DEF Completes, Sound
<1>4. i \in DOMAIN s /\ d = s[i]
  BY <1>1, Listed
<1>5. s \in Seq(Devs) /\ \A j, k \in DOMAIN s : s[j] = s[k] => j = k
  BY <1>1, StateFields DEF ListsAreRight
<1>6. c \in Nat /\ (c # 0 => m.dev[d].phase = "tls")
  <2>1. m.dev[d].calls \in 0..3
    BY <1>1, ObjectFields
  <2> QED  BY <1>1, <2>1 DEF PendingCalls, TlsRight
<1>7. r = [l EXCEPT
                !.list[n] = w,
                !.dev = [e \in Devs |->
                    IF e = d THEN Unlisted(l, d)
                    ELSE IF e \in beside /\ l.dev[e].phase # "contact"
                         THEN Unlisted(l, e)
                    ELSE @[e]]]
  BY Zenon DEF Removed
<1> HIDE DEF l, n, s, i, c, r
<1>8. /\ out \subseteq ToSet(s) /\ Remainder(s, w, out)
      /\ d \notin beside /\ (beside # {} => c # 0)
  <2> DEFINE u == i + c
  <2>1. beside = {s[j] : j \in {k \in DOMAIN s : k > i /\ k <= u}}
    OBVIOUS
  <2>2. w = SubSeq(s, 1, i - 1) \o SubSeq(s, u + 1, Len(s))
    OBVIOUS
  <2> HIDE DEF u, beside, w
  <2>3. u = i + c
    BY DEF u
  <2>4. LeaveTogether(s, w, d, beside, c)
    BY <1>4, <1>5, <1>6, <2>1, <2>2, <2>3, CutRemainder
  <2> QED  BY <2>4, Zenon DEF LeaveTogether
<1> HIDE DEF beside, w
<1>9. s = l.list[n]
  BY <1>3 DEF s
<1>10. Removes(l, r, n, w, out, (Devs \ {d}) \cup beside)
  <2>1. Devs \ {d} \in SUBSET Devs /\ d \in Devs \ (Devs \ {d})
    OBVIOUS
  <2> QED  BY <1>1, <1>2, <1>7, <1>8, <1>9, <2>1, RemovedIs
<1>11. beside \subseteq Devs /\ out \subseteq Devs /\ \A e \in out : m.dev[e].node = n
  BY <1>1, <1>8, ListedIsValid DEF s
<1>12. (Devs \ {d}) \cup beside = Devs \ {d} /\ (Devs \ {d}) \cup out = Devs
  BY <1>8, <1>11
<1> HIDE DEF out
<1>13. /\ Sound(r, Devs) /\ Remains(l, r)
       /\ \A e \in Devs : IsAmtDeviceValid(r, e) <=> IsAmtDeviceValid(l, e) /\ e \notin out
  <2>1. Removes(l, r, n, w, out, Devs \ {d})
    BY <1>10, <1>12
  <2>2. Remainder(l.list[n], w, out) /\ out \subseteq ToSet(l.list[n])
    BY <1>8, <1>9
  <2>3. /\ Sound(r, (Devs \ {d}) \cup out) /\ Remains(l, r)
        /\ \A e \in Devs : IsAmtDeviceValid(r, e) <=> IsAmtDeviceValid(l, e) /\ e \notin out
    BY <1>1, <1>2, <2>1, <2>2, RemovesKeeps
  <2> QED  BY <1>12, <2>3
<1>14. \A e \in Devs : IsAmtDeviceValid(l, e) <=> IsAmtDeviceValid(m, e)
  BY <1>1, <1>3, BecomesKeeps
<1>15. ~IsAmtDeviceValid(r, d)
  BY <1>13 DEF out
<1>16. r.current = l.current /\ l.current \subseteq Devs
  BY <1>3, <1>10, StateFields DEF Removes
<1>17. Remains(m, r)
  BY <1>3, <1>13 DEF Follows, Remains
<1>18. SlotsFollow(m, r)
  <2> SUFFICES ASSUME NEW e \in r.current, ~IsAmtDeviceValid(r, e)
               PROVE  \/ ~IsAmtDeviceValid(m, e) /\ e \in m.current
                      \/ IsAmtDeviceValid(m, e) /\ LeavesBeside(m, r, e)
    BY DEF SlotsFollow
  <2>1. e \in Devs /\ e \in l.current /\ e # d
    BY <1>3, <1>16
  <2>2. CASE ~IsAmtDeviceValid(m, e)
    BY <1>2, <2>1, <2>2 DEF Completes
  <2>3. CASE IsAmtDeviceValid(m, e)
    <3>1. e \in beside
      BY <1>13, <1>14, <2>1, <2>3 DEF out
    <3>2. m.dev[d].phase = "tls" /\ m.dev[e].node = m.dev[d].node
      BY <1>6, <1>8, <1>11, <3>1 DEF out, n
    <3> QED  BY <1>15, <2>1, <2>3, <3>2 DEF LeavesBeside
  <2> QED  BY <2>2, <2>3
<1>19. ~IsHeld(m, d) => ~IsHeld(r, d)
  <2>1. r.dev[d] \in {l.dev[d], None}
    BY <1>10 DEF Removes, out
  <2>2. l.dev[d] # None => m.dev[d] # None /\ l.dev[d].phase \in {m.dev[d].phase, "read"}
    BY <1>1, <1>3, BecomesKeeps
  <2> QED  BY <2>1, <2>2 DEF IsHeld
<1> QED  BY <1>13, <1>15, <1>17, <1>18, <1>19 DEF r, Follows, Right

\* stopAmtManagement.
LEMMA StopStep ==
    ASSUME NEW m, Right(m), NEW n \in Nodes, NEW conn
    PROVE  Right(Stop(m, n, conn)) /\ Follows(m, Stop(m, n, conn))
<1> DEFINE which == Managing(m, n, conn)
           d == CHOOSE e \in which : TRUE
<1>1. m \in ManagerState /\ ListsAreRight(m) /\ Sound(m, Devs)
  BY DEF Right, Sound
<1>2. CASE which = {}
  <2>1. Stop(m, n, conn) = m
    BY <1>2 DEF Stop
  <2>2. Follows(m, m)
    BY DEF Follows, Remains, SlotsFollow
  <2> QED  BY <2>1, <2>2
<1>3. CASE which # {}
  <2>1. d \in ToSet(m.list[n])
    BY <1>3 DEF Managing
  <2>2. d \in Devs /\ IsAmtDeviceValid(m, d)
    BY <1>1, <2>1, ListedIsValid
  <2>3. Stop(m, n, conn) = Removed(m, d)
    BY <1>3 DEF Stop
  <2> HIDE DEF d
  <2>4. Sound(m, Devs \ {d})
    BY <1>1, Weaker
  <2> QED  BY <2>2, <2>3, <2>4, RemovedStep
<1> QED  BY <1>2, <1>3

\* The tasks of a list are completed one after the other.
CompletesAll(m, s, h) ==
    h[0] = m /\ \A i \in 1..Len(s) : h[i] = Completed(h[i - 1], s[i])

LEMMA CompletedOf ==
    ASSUME NEW m, NEW D \in SUBSET Devs, Sound(m, D), NEW s \in Seq(Devs)
    PROVE  LET completed[i \in 0..Len(s)] ==
                   IF i = 0 THEN m ELSE Completed(completed[i - 1], s[i])
           IN  CompletesAll(m, s, completed)
<1> DEFINE Is(g) == g = [i \in 0..Len(s) |->
                            IF i = 0 THEN m ELSE Completed(g[i - 1], s[i])]
           h == CHOOSE g : Is(g)
           X == {k \in ManagerState : Sound(k, D)}
           step == [i \in 1..Len(s) |-> [k \in X |-> Completed(k, s[i])]]
<1>1. Len(s) \in Nat /\ \A i \in 1..Len(s) : s[i] \in Devs
  OBVIOUS
<1>2. m \in X
  BY DEF Sound
<1>3. ASSUME NEW k \in X, NEW i \in 1..Len(s)  PROVE Completed(k, s[i]) \in X
  <2>1. Sound(Completed(k, s[i]), D)
    BY <1>1, CompletedStep
  <2> QED  BY <2>1 DEF Sound
<1> HIDE DEF X
<1>4. \A i \in 1..Len(s) : /\ step[i] \in [X -> X]
                           /\ \A k \in X : step[i][k] = Completed(k, s[i])
  BY <1>3
<1> HIDE DEF step
<1>5. PICK f : Iterates(f, Len(s), X, m, step)
  BY <1>1, <1>2, <1>4, IterationExists
<1> DEFINE r == [i \in 0..Len(s) |-> f[i]]
<1>6. Is(r)
  <2>1. ASSUME NEW i \in 0..Len(s)
        PROVE  r[i] = IF i = 0 THEN m ELSE Completed(r[i - 1], s[i])
    <3>1. CASE i = 0
      BY <1>5, <3>1 DEF Iterates
    <3>2. CASE i # 0
      <4>1. i \in 1..Len(s) /\ i - 1 \in 0..Len(s)
        BY <3>2
      <4>2. r[i] = f[i] /\ r[i - 1] = f[i - 1]
        BY <4>1
      <4>3. f[i] = step[i][f[i - 1]] /\ f[i - 1] \in X
        BY <1>5, <4>1 DEF Iterates
      <4>4. f[i] = Completed(f[i - 1], s[i])
        BY <1>4, <4>1, <4>3
      <4> QED  BY <3>2, <4>2, <4>4
    <3> QED  BY <3>1, <3>2
  <2> HIDE DEF r
  <2>2. r = [i \in 0..Len(s) |-> r[i]]
    BY DEF r
  <2> QED  BY <2>1, <2>2
<1>7. Is(h)
  <2> HIDE DEF Is, r
  <2> QED  BY <1>6, Zenon
<1> HIDE DEF h
<1>8. \A i \in 0..Len(s) : h[i] = IF i = 0 THEN m ELSE Completed(h[i - 1], s[i])
  BY <1>7
<1>9. 0 \in 0..Len(s) /\ \A i \in 1..Len(s) : i \in 0..Len(s) /\ i # 0
  BY <1>1
<1>10. CompletesAll(m, s, h)
  BY <1>8, <1>9 DEF CompletesAll
<1> QED  BY <1>10 DEF h


\* The tasks of all the devices of a node are completed: none of them has a slot.
LEMMA CompletesAllStep ==
    ASSUME NEW m, Right(m), NEW n \in Nodes, NEW h, CompletesAll(m, m.list[n], h)
    PROVE  LET l == h[Len(m.list[n])]
           IN  /\ Right(l) /\ l.list = m.list /\ Follows(m, l)
               /\ \A e \in Devs : IsAmtDeviceValid(l, e) <=> IsAmtDeviceValid(m, e)
               /\ \A k \in DOMAIN m.list[n] : m.list[n][k] \notin l.current
<1> DEFINE s == m.list[n]
           Good(i) == /\ Right(h[i]) /\ h[i].list = m.list /\ Follows(m, h[i])
                      /\ \A e \in Devs : IsAmtDeviceValid(h[i], e) <=> IsAmtDeviceValid(m, e)
                      /\ \A k \in 1..i : s[k] \notin h[i].current
           S == {i \in Nat : i <= Len(s) => Good(i)}
<1>1. m \in ManagerState /\ s \in Seq(Devs)
  <2>1. m \in ManagerState
    BY DEF Right, Sound
  <2> QED  BY <2>1, StateFields
<1>2. /\ Len(s) \in Nat /\ DOMAIN s = 1..Len(s) /\ \A k \in 1..Len(s) : s[k] \in Devs
  BY <1>1
<1>3. h[0] = m /\ \A i \in 1..Len(s) : h[i] = Completed(h[i - 1], s[i])
  BY DEF CompletesAll
<1>4. 0 \in S
  <2>1. Follows(m, m)
    BY DEF Follows, Remains, SlotsFollow
  <2>2. Good(0)
    BY <1>3, <2>1
  <2> HIDE DEF Good
  <2> QED  BY <2>2
<1>5. ASSUME NEW i \in Nat, i \in S  PROVE i + 1 \in S
  <2> SUFFICES ASSUME i + 1 <= Len(s)  PROVE Good(i + 1)
    <3> HIDE DEF Good
    <3> QED  OBVIOUS
  <2> DEFINE k == h[i]
             d == s[i + 1]
             r == h[i + 1]
  <2>1. i <= Len(s) /\ i + 1 \in 1..Len(s) /\ (i + 1) - 1 = i
    BY <1>2
  <2>2. Good(i)
    <3> HIDE DEF Good
    <3> QED  BY <1>5, <2>1
  <2>3. d \in Devs /\ r = Completed(k, d)
    BY <1>2, <1>3, <2>1
  <2>4. /\ Right(k) /\ k.list = m.list /\ Follows(m, k)
        /\ \A e \in Devs : IsAmtDeviceValid(k, e) <=> IsAmtDeviceValid(m, e)
        /\ \A j \in 1..i : s[j] \notin k.current
    BY <2>2
  <2> HIDE DEF k, d, r, s
  <2>5. Sound(r, Devs) /\ Completes(k, r, d)
    BY <2>3, <2>4, CompletedStep DEF Right
  <2>6. k \in ManagerState /\ ListsAreRight(k) /\ HeldRight(k) /\ HeldInOrder(k)
    BY <2>4 DEF Right, Sound
  <2>7. r.list = m.list /\ r \in ManagerState /\ Follows(k, r) /\ d \notin r.current
    BY <2>4, <2>5 DEF Completes, Sound
  <2>8. \A e \in Devs : IsAmtDeviceValid(r, e) <=> IsAmtDeviceValid(m, e)
    BY <2>4, <2>5, <2>6, BecomesKeeps DEF Completes
  <2>9. Follows(m, r)
    BY <1>1, <2>4, <2>6, <2>7, FollowsOn
  <2>10. ASSUME NEW j \in 1..(i + 1)  PROVE s[j] \notin r.current
    <3>1. CASE j = i + 1
      BY <2>7, <3>1 DEF d
    <3>2. CASE j # i + 1
      <4>1. j \in 1..i /\ j < i + 1 /\ j \in DOMAIN s /\ i + 1 \in DOMAIN s
        BY <1>2, <2>1, <3>2
      <4>2. SUFFICES ASSUME s[j] \in r.current  PROVE FALSE
        OBVIOUS
      <4>3. s[j] \in r.current \ k.current
        BY <2>4, <4>1, <4>2
      <4>4. d \in k.current /\ \E p \in DOMAIN k.pending : k.pending[p] = s[j]
        BY <2>5, <4>3 DEF Completes
      <4>5. \E q \in DOMAIN k.pending : k.pending[q] = d
        <5>1. s = k.list[n]
          BY <2>4 DEF s
        <5> QED  BY <2>6, <4>1, <4>4, <5>1 DEF HeldInOrder, d
      <4> QED  BY <2>6, <4>4, <4>5 DEF HeldRight
    <3> QED  BY <3>1, <3>2
  <2> QED  BY <2>5, <2>7, <2>8, <2>9, <2>10 DEF Right, r
<1> HIDE DEF S, Good
<1>6. Good(Len(s))
  <2>1. Nat \subseteq S
    BY <1>4, <1>5, SetInduction
  <2> QED  BY <1>2, <2>1 DEF S
<1> QED  BY <1>2, <1>6 DEF Good, s

\* removeDevice.
LEMMA RemoveAllStep ==
    ASSUME NEW m, Right(m), NEW n \in Nodes
    PROVE  Right(RemoveAll(m, n)) /\ SlotsFollow(m, RemoveAll(m, n))
<1> DEFINE s == m.list[n]
           completed[i \in 0..Len(s)] ==
               IF i = 0 THEN m ELSE Completed(completed[i - 1], s[i])
           l == completed[Len(s)]
           r == RemoveAll(m, n)
           out == ToSet(s)
           v == [d \in Devs |-> IF d \in out THEN Unlisted(l, d) ELSE l.dev[d]]
<1>1. m \in ManagerState /\ ListsAreRight(m) /\ s \in Seq(Devs)
  <2>1. m \in ManagerState /\ ListsAreRight(m)
    BY DEF Right, Sound
  <2> QED  BY <2>1, StateFields
<1>2. /\ Right(l) /\ l.list = m.list /\ Follows(m, l)
      /\ \A e \in Devs : IsAmtDeviceValid(l, e) <=> IsAmtDeviceValid(m, e)
      /\ \A k \in DOMAIN s : s[k] \notin l.current
  <2>1. CompletesAll(m, s, completed)
    <3> HIDE DEF s
    <3>1. Devs \in SUBSET Devs /\ Sound(m, Devs) /\ s \in Seq(Devs)
      BY <1>1 DEF Right
    <3> QED  BY <3>1, CompletedOf
  <2> HIDE DEF completed
  <2> QED  BY <2>1, CompletesAllStep
<1>3. r = [l EXCEPT !.list[n] = <<>>,
                    !.dev = [d \in Devs |-> IF d \in out THEN Unlisted(l, d) ELSE @[d]]]
  BY DEF RemoveAll
<1> HIDE DEF l, r, completed
<1>4. /\ l \in ManagerState /\ ListsAreRight(l) /\ l.list = m.list
      /\ l.dev \in [Devs -> Object \cup {None}] /\ l.list \in [Nodes -> Seq(Devs)]
      /\ l.current \subseteq Devs
  <2>1. l \in ManagerState /\ ListsAreRight(l)
    BY <1>2 DEF Right, Sound
  <2> QED  BY <1>2, <2>1, StateFields
<1>5. \A e \in out : e \in Devs /\ l.dev[e] # None
  BY <1>4, ListedIsValid DEF IsAmtDeviceValid
<1>6. r = [l EXCEPT !.list[n] = <<>>, !.dev = v]
  BY <1>3, Zenon
<1>7. \A d \in Devs : v[d] = IF d \in out THEN Unlisted(l, d) ELSE l.dev[d]
  OBVIOUS
<1>8. v \in [Devs -> Object \cup {None}]
  <2>1. \A d \in Devs : (IF d \in out THEN Unlisted(l, d) ELSE l.dev[d]) \in Object \cup {None}
    BY <1>4, <1>5, UnlistedIs
  <2> QED  BY <2>1
<1> HIDE DEF v, out
<1>9. [l.list EXCEPT ![n] = <<>>] \in [Nodes -> Seq(Devs)]
  BY <1>4
<1>10. /\ r \in ManagerState /\ r.dev = v /\ r.list = [l.list EXCEPT ![n] = <<>>]
       /\ r.active = l.active /\ r.current = l.current /\ r.pending = l.pending
  BY <1>4, <1>6, <1>8, <1>9 DEF ManagerState
<1>11. Removes(l, r, n, <<>>, out, Devs)
  <2>1. ASSUME NEW e \in out
        PROVE  e \in Devs /\ r.dev[e] \in {l.dev[e], None}
               /\ (IsHeld(l, e) => r.dev[e] = l.dev[e])
    BY <1>5, <1>7, <1>10, UnlistedIs
  <2>2. \A e \in Devs \ out : r.dev[e] = l.dev[e]
    BY <1>7, <1>10
  <2> QED  BY <1>10, <2>1, <2>2 DEF Removes
<1>12. Remainder(l.list[n], <<>>, out)
  <2>1. \A j \in DOMAIN s : s[j] \in out
    BY Listed DEF out
  <2>2. l.list[n] = s /\ DOMAIN <<>> = {} /\ <<>> \in Seq(Devs)
    BY <1>4
  <2>3. <<>> \in [DOMAIN <<>> -> DOMAIN s]
    OBVIOUS
  <2> HIDE DEF s
  <2> QED  BY <2>1, <2>2, <2>3 DEF Remainder
<1>13. /\ Sound(r, Devs \cup out)
       /\ \A e \in Devs : IsAmtDeviceValid(r, e) <=> IsAmtDeviceValid(l, e) /\ e \notin out
  <2>1. out \subseteq ToSet(l.list[n])
    BY <1>4 DEF out
  <2> QED  BY <1>2, <1>11, <1>12, <2>1, RemovesKeeps DEF Right
<1>14. Devs \cup out = Devs
  BY <1>5
<1>15. SlotsFollow(m, r)
  <2> SUFFICES ASSUME NEW e \in r.current, ~IsAmtDeviceValid(r, e)
               PROVE  \/ ~IsAmtDeviceValid(m, e) /\ e \in m.current
                      \/ IsAmtDeviceValid(m, e) /\ LeavesBeside(m, r, e)
    BY DEF SlotsFollow
  <2>1. e \in Devs /\ e \in l.current
    BY <1>4, <1>10
  <2>2. e \notin out
    BY <1>2, <2>1, Listed DEF out
  <2>3. ~IsAmtDeviceValid(l, e)
    BY <1>13, <2>1, <2>2
  <2>4. CASE ~IsAmtDeviceValid(m, e) /\ e \in m.current
    BY <2>4
  <2>5. CASE IsAmtDeviceValid(m, e)
    BY <1>2, <2>1, <2>3, <2>5
  <2> QED  BY <1>2, <2>1, <2>3, <2>4, <2>5 DEF Follows, SlotsFollow
<1> QED  BY <1>13, <1>14, <1>15 DEF r, Right

-----------------------------------------------------------------------------
(***************************************************************************)
(* A device that is listed.                                                *)
(***************************************************************************)

\* A longer list.
LEMMA Longer ==
    ASSUME NEW s \in Seq(Devs), NEW d \in Devs
    PROVE  /\ Append(s, d) \in Seq(Devs)
           /\ Len(s) \in Nat /\ DOMAIN s = 1..Len(s) /\ DOMAIN Append(s, d) = 1..(Len(s) + 1)
           /\ \A i \in 1..Len(s) : i \in 1..(Len(s) + 1) /\ i < Len(s) + 1
           /\ \A i \in 1..(Len(s) + 1) : i # Len(s) + 1 => i \in 1..Len(s)
           /\ Len(s) + 1 \in 1..(Len(s) + 1)
           /\ \A i \in 1..Len(s) : Append(s, d)[i] = s[i]
           /\ Append(s, d)[Len(s) + 1] = d
OBVIOUS

\* d is a new object of node n: it has a slot if there is one, or is held.
Starts(m, r, n, d, new, runs) ==
    /\ r \in ManagerState
    /\ r.dev = [m.dev EXCEPT ![d] = new]
    /\ r.list = [m.list EXCEPT ![n] = Append(m.list[n], d)]
    /\ r.active = m.active
    /\ r.current = IF runs THEN m.current \cup {d} ELSE m.current
    /\ r.pending = IF runs THEN m.pending ELSE Append(m.pending, d)

LEMMA StartIs ==
    ASSUME NEW m \in ManagerState, NEW n \in Nodes, NEW conn \in Hosts \cup {Cira},
           Managing(m, n, conn) = {}, Free(m) # {}
    PROVE  \E d \in Free(m), new \in Object, runs \in BOOLEAN :
              /\ Starts(m, Start(m, n, conn), n, d, new, runs)
              /\ runs <=> Cardinality(m.current) < MaxTasks
              /\ new.node = n /\ new.phase = IF runs THEN "read" ELSE "held"
<1> DEFINE d == CHOOSE e \in Free(m) : \A f \in Free(m) : e <= f
           runs == Cardinality(m.current) < MaxTasks
           new == [node |-> n, conn |-> conn, phase |-> IF runs THEN "read" ELSE "held",
                   acctry |-> Accounts[n], calls |-> IF n \in TlsNodes THEN 3 ELSE 0]
           r == Start(m, n, conn)
<1>1. d \in Free(m)
  <2>1. Free(m) \in SUBSET Nat
    BY ManagerAssumption DEF Free
  <2>2. \E e \in Free(m) : \A f \in Free(m) : e <= f
    <3> HIDE DEF d
    <3> QED  BY <2>1, LeastOfNat
  <2> QED  BY <2>2
<1>2. new \in Object /\ new.node = n /\ new.phase = IF runs THEN "read" ELSE "held"
  BY ManagerAssumption DEF Object, Phases
<1>3. r = [m EXCEPT !.dev[d] = new,
                    !.list[n] = Append(@, d),
                    !.current = IF runs THEN @ \cup {d} ELSE @,
                    !.pending = IF runs THEN @ ELSE Append(@, d)]
  BY DEF Start
<1>4. d \in Devs
  BY <1>1 DEF Free
<1>5. runs \in BOOLEAN
  OBVIOUS
<1> HIDE DEF r, d, new
<1>6. /\ m.dev \in [Devs -> Object \cup {None}] /\ m.list \in [Nodes -> Seq(Devs)]
      /\ m.pending \in Seq(Devs) /\ m.current \subseteq Devs
  BY StateFields
<1>7. /\ [m.dev EXCEPT ![d] = new] \in [Devs -> Object \cup {None}]
      /\ [m.list EXCEPT ![n] = Append(m.list[n], d)] \in [Nodes -> Seq(Devs)]
      /\ (IF runs THEN m.current \cup {d} ELSE m.current) \in SUBSET Devs
      /\ (IF runs THEN m.pending ELSE Append(m.pending, d)) \in Seq(Devs)
  BY <1>2, <1>4, <1>6
<1> HIDE DEF runs
<1>8. r = [m EXCEPT !.dev = [m.dev EXCEPT ![d] = new],
                    !.list = [m.list EXCEPT ![n] = Append(m.list[n], d)],
                    !.current = IF runs THEN m.current \cup {d} ELSE m.current,
                    !.pending = IF runs THEN m.pending ELSE Append(m.pending, d)]
  BY <1>3, Zenon
<1>9. Starts(m, r, n, d, new, runs)
  BY <1>7, <1>8 DEF Starts, ManagerState
<1>10. runs <=> Cardinality(m.current) < MaxTasks
  BY DEF runs
<1> QED  BY <1>1, <1>2, <1>5, <1>9, <1>10 DEF r

\* The queue and the slots of the limiter.
LEMMA StartsQueue ==
    ASSUME NEW m, Right(m), NEW n \in Nodes, NEW d \in Free(m), NEW new \in Object,
           NEW runs \in BOOLEAN, runs <=> Cardinality(m.current) < MaxTasks,
           new.phase = IF runs THEN "read" ELSE "held",
           NEW r, Starts(m, r, n, d, new, runs)
    PROVE  HeldRight(r) /\ SlotsInUse(r) /\ HeldInOrder(r)
<1>1. /\ m \in ManagerState /\ ListsAreRight(m) /\ HeldRight(m) /\ HeldInOrder(m)
      /\ SlotsInUse(m)
  BY DEF Right, Sound
<1>2. /\ m.dev \in [Devs -> Object \cup {None}] /\ m.list \in [Nodes -> Seq(Devs)]
      /\ m.pending \in Seq(Devs) /\ m.current \subseteq Devs
  BY <1>1, StateFields
<1>3. d \in Devs /\ m.dev[d] = None /\ d \notin m.current
  BY DEF Free
<1> DEFINE q == m.pending
           s == m.list[n]
<1>4. new # None /\ r.dev[d] = new /\ \A e \in Devs \ {d} : r.dev[e] = m.dev[e]
  BY <1>2, <1>3, ManagerAssumption DEF Starts
<1>5. r.list[n] = Append(s, d) /\ \A k \in Nodes \ {n} : r.list[k] = m.list[k]
  BY <1>2 DEF Starts
<1>6. /\ \A p \in DOMAIN q : q[p] \in Devs \ {d}
      /\ \A k \in Nodes : \A i \in DOMAIN m.list[k] : m.list[k][i] \in Devs \ {d}
  <2>1. \A p \in DOMAIN q : q[p] \in Devs /\ m.dev[q[p]] # None
    BY <1>1, <1>2 DEF HeldRight
  <2>2. \A k \in Nodes : \A i \in DOMAIN m.list[k] :
            m.list[k][i] \in Devs /\ m.dev[m.list[k][i]] # None
    BY <1>1, <1>2 DEF ListsAreRight
  <2> QED  BY <1>3, <2>1, <2>2
<1>7. Cardinality(m.current) \in Nat
  BY <1>1, FS_CardinalityType DEF SlotsInUse
<1>8. CASE runs
  <2>1. q = <<>>
    BY <1>1, <1>7, <1>8, ManagerAssumption DEF SlotsInUse
  <2>2. r.pending = <<>> /\ r.current = m.current \cup {d}
    BY <1>8, <2>1 DEF Starts
  <2>3. IsFiniteSet(r.current)
    BY <1>1, <2>2, FS_AddElement DEF SlotsInUse
  <2> QED  BY <2>2, <2>3 DEF HeldRight, SlotsInUse, HeldInOrder
<1>9. CASE ~runs
  <2>1. r.pending = Append(q, d) /\ r.current = m.current
    BY <1>9 DEF Starts
  <2> DEFINE x == Len(q) + 1
  <2>2. /\ DOMAIN q = 1..Len(q) /\ DOMAIN r.pending = 1..x /\ x \in 1..x
        /\ \A p \in 1..Len(q) : p \in 1..x /\ p < x
        /\ \A p \in 1..x : p # x => p \in 1..Len(q)
        /\ \A p \in 1..Len(q) : r.pending[p] = q[p]
        /\ r.pending[x] = d
    BY <1>2, <1>3, <2>1, Longer
  <2> HIDE DEF q, s, x
  <2>3. HeldRight(r)
    <3>1. \A p, k \in 1..x : r.pending[p] = r.pending[k] => p = k
      <4>1. \A p, k \in 1..Len(q) : q[p] = q[k] => p = k
        BY <1>1, <2>2 DEF HeldRight, q
      <4> QED  BY <1>6, <2>2, <4>1
    <3>2. ASSUME NEW p \in 1..x
          PROVE  /\ r.dev[r.pending[p]] # None /\ r.dev[r.pending[p]].phase = "held"
                 /\ r.pending[p] \notin r.current
      <4>1. CASE p = x
        BY <1>3, <1>4, <1>9, <2>1, <2>2, <4>1
      <4>2. CASE p # x
        <5>1. p \in DOMAIN q /\ r.pending[p] = q[p] /\ q[p] \in Devs \ {d}
          BY <1>6, <2>2, <4>2
        <5>2. m.dev[q[p]] # None /\ m.dev[q[p]].phase = "held" /\ q[p] \notin m.current
          BY <1>1, <5>1 DEF HeldRight, q
        <5> QED  BY <1>4, <2>1, <5>1, <5>2
      <4> QED  BY <4>1, <4>2
    <3> QED  BY <2>2, <3>1, <3>2 DEF HeldRight
  <2>4. SlotsInUse(r)
    BY <1>1, <1>7, <1>9, <2>1, ManagerAssumption DEF SlotsInUse
  <2>5. HeldInOrder(r)
    <3> SUFFICES ASSUME NEW k \in Nodes, NEW i \in DOMAIN r.list[k], NEW j \in DOMAIN r.list[k],
                        i < j, NEW p \in 1..x, r.pending[p] = r.list[k][i]
                 PROVE  \E y \in 1..x : p < y /\ r.pending[y] = r.list[k][j]
      BY <2>2 DEF HeldInOrder
    <3>1. CASE /\ i \in DOMAIN m.list[k] /\ j \in DOMAIN m.list[k]
               /\ r.list[k][i] = m.list[k][i] /\ r.list[k][j] = m.list[k][j]
      <4>1. p # x
        BY <1>6, <2>2, <3>1
      <4>2. p \in DOMAIN q /\ q[p] = m.list[k][i]
        BY <2>2, <3>1, <4>1
      <4>3. PICK y \in DOMAIN q : p < y /\ q[y] = m.list[k][j]
        BY <1>1, <3>1, <4>2 DEF HeldInOrder, q
      <4> QED  BY <2>2, <3>1, <4>3
    <3>2. CASE k # n
      BY <1>5, <3>1, <3>2
    <3>3. CASE k = n
      <4>1. /\ DOMAIN s = 1..Len(s) /\ DOMAIN r.list[n] = 1..(Len(s) + 1) /\ Len(s) \in Nat
            /\ \A y \in 1..(Len(s) + 1) : y # Len(s) + 1 => y \in 1..Len(s)
            /\ \A y \in 1..Len(s) : r.list[n][y] = s[y]
            /\ r.list[n][Len(s) + 1] = d
        <5>1. s \in Seq(Devs)
          BY <1>2 DEF s
        <5> QED  BY <1>3, <1>5, <5>1, Longer
      <4>2. i \in DOMAIN s /\ r.list[n][i] = s[i]
        <5>1. i # Len(s) + 1
          BY <3>3, <4>1
        <5> QED  BY <3>3, <4>1, <5>1
      <4>3. CASE j = Len(s) + 1
        <5>1. p # x
          BY <1>6, <2>2, <3>3, <4>2 DEF s
        <5>2. p < x /\ r.pending[x] = r.list[k][j]
          BY <2>2, <3>3, <4>1, <4>3, <5>1
        <5> QED  BY <2>2, <5>2
      <4>4. CASE j # Len(s) + 1
        BY <3>1, <3>3, <4>1, <4>2, <4>4 DEF s
      <4> QED  BY <4>3, <4>4
    <3> QED  BY <3>2, <3>3
  <2> QED  BY <2>3, <2>4, <2>5
<1> QED  BY <1>8, <1>9

\* startAmtManagement.
LEMMA StartStep ==
    ASSUME NEW m, Right(m), NEW n \in Nodes, NEW conn \in Hosts \cup {Cira},
           Managing(m, n, conn) # {} \/ Free(m) # {}
    PROVE  Right(Start(m, n, conn)) /\ SlotsFollow(m, Start(m, n, conn))
<1>1. CASE Managing(m, n, conn) # {}
  <2>1. Start(m, n, conn) = m
    BY <1>1 DEF Start
  <2> QED  BY <2>1 DEF SlotsFollow
<1>2. CASE Managing(m, n, conn) = {}
  <2> DEFINE r == Start(m, n, conn)
             s == m.list[n]
  <2>1. /\ m \in ManagerState /\ ListsAreRight(m) /\ SlotsRight(m) /\ TlsRight(m)
        /\ Alone(m, Devs)
    BY DEF Right, Sound
  <2>2. /\ m.dev \in [Devs -> Object \cup {None}] /\ m.list \in [Nodes -> Seq(Devs)]
        /\ m.current \subseteq Devs
    BY <2>1, StateFields
  <2>3. PICK d \in Free(m), new \in Object, runs \in BOOLEAN :
           /\ Starts(m, r, n, d, new, runs)
           /\ runs <=> Cardinality(m.current) < MaxTasks
           /\ new.node = n /\ new.phase = IF runs THEN "read" ELSE "held"
    BY <1>2, <2>1, StartIs
  <2> HIDE DEF r
  <2>4. d \in Devs /\ m.dev[d] = None /\ d \notin m.current
    BY DEF Free
  <2>5. /\ r \in ManagerState /\ r.active = m.active
        /\ new # None /\ r.dev[d] = new /\ \A e \in Devs \ {d} : r.dev[e] = m.dev[e]
        /\ r.list[n] = Append(s, d) /\ \A k \in Nodes \ {n} : r.list[k] = m.list[k]
        /\ r.current = IF runs THEN m.current \cup {d} ELSE m.current
    BY <2>2, <2>3, <2>4, ManagerAssumption DEF Starts
  <2>6. \A k \in Nodes : \A i \in DOMAIN m.list[k] : m.list[k][i] \in Devs \ {d}
    <3>1. \A k \in Nodes : \A i \in DOMAIN m.list[k] :
              m.list[k][i] \in Devs /\ m.dev[m.list[k][i]] # None
      BY <2>1, <2>2 DEF ListsAreRight
    <3> QED  BY <2>4, <3>1
  <2>7. /\ DOMAIN s = 1..Len(s) /\ DOMAIN r.list[n] = 1..(Len(s) + 1)
        /\ \A y \in 1..Len(s) : y \in 1..(Len(s) + 1)
        /\ \A y \in 1..(Len(s) + 1) : y # Len(s) + 1 => y \in 1..Len(s)
        /\ \A y \in 1..Len(s) : r.list[n][y] = s[y]
        /\ Len(s) + 1 \in 1..(Len(s) + 1) /\ r.list[n][Len(s) + 1] = d
    BY <2>2, <2>4, <2>5, Longer
  <2>8. \A e : e \in ToSet(r.list[n]) <=> e \in ToSet(s) \/ e = d
    <3> HIDE DEF s
    <3>1. \A e : e \in ToSet(r.list[n]) <=> \E y \in 1..(Len(s) + 1) : r.list[n][y] = e
      BY <2>7, Listed
    <3>2. \A e : e \in ToSet(s) <=> \E y \in 1..Len(s) : s[y] = e
      BY <2>7, Listed
    <3> QED  BY <2>7, <3>1, <3>2
  <2>9. IsAmtDeviceValid(r, d)
        /\ \A e \in Devs \ {d} : IsAmtDeviceValid(r, e) <=> IsAmtDeviceValid(m, e)
    <3>1. IsAmtDeviceValid(r, d)
      BY <2>3, <2>5, <2>8 DEF IsAmtDeviceValid
    <3>2. ASSUME NEW e \in Devs \ {d}
          PROVE  IsAmtDeviceValid(r, e) <=> IsAmtDeviceValid(m, e)
      <4>1. CASE m.dev[e] = None
        BY <2>5, <4>1 DEF IsAmtDeviceValid
      <4>2. CASE m.dev[e] # None
        <5>1. m.dev[e].node \in Nodes /\ r.dev[e] = m.dev[e]
          BY <2>1, <2>5, <4>2, ObjectFields
        <5>2. CASE m.dev[e].node = n
          BY <2>8, <5>1, <5>2 DEF IsAmtDeviceValid
        <5>3. CASE m.dev[e].node # n
          BY <2>5, <5>1, <5>3 DEF IsAmtDeviceValid
        <5> QED  BY <5>2, <5>3
      <4> QED  BY <4>1, <4>2
    <3> QED  BY <3>1, <3>2
  <2>10. ListsAreRight(r)
    <3>1. ASSUME NEW i \in DOMAIN r.list[n], NEW j \in DOMAIN r.list[n],
                 r.list[n][i] = r.list[n][j]
          PROVE  i = j
      <4>1. \A x, y \in 1..Len(s) : s[x] = s[y] => x = y
        BY <2>1, <2>7 DEF ListsAreRight
      <4>2. \A x \in 1..Len(s) : s[x] # d
        BY <2>6, <2>7
      <4> HIDE DEF s
      <4> QED  BY <2>7, <3>1, <4>1, <4>2
    <3>2. ASSUME NEW i \in DOMAIN r.list[n]
          PROVE  r.dev[r.list[n][i]] # None /\ r.dev[r.list[n][i]].node = n
      <4>1. CASE i = Len(s) + 1
        BY <2>3, <2>5, <2>7, <4>1
      <4>2. CASE i # Len(s) + 1
        <5>1. i \in DOMAIN s /\ r.list[n][i] = s[i]
          BY <2>7, <4>2
        <5>2. m.dev[s[i]] # None /\ m.dev[s[i]].node = n /\ s[i] \in Devs \ {d}
          BY <2>1, <2>6, <5>1 DEF ListsAreRight
        <5> QED  BY <2>5, <5>1, <5>2
      <4> QED  BY <4>1, <4>2
    <3>3. ASSUME NEW k \in Nodes \ {n}, NEW i \in DOMAIN m.list[k]
          PROVE  r.dev[m.list[k][i]] # None /\ r.dev[m.list[k][i]].node = k
      <4>1. m.dev[m.list[k][i]] # None /\ m.dev[m.list[k][i]].node = k
        BY <2>1 DEF ListsAreRight
      <4> QED  BY <2>5, <2>6, <4>1
    <3>4. ASSUME NEW k \in Nodes
          PROVE  /\ \A i, j \in DOMAIN r.list[k] : r.list[k][i] = r.list[k][j] => i = j
                 /\ \A i \in DOMAIN r.list[k] :
                       r.dev[r.list[k][i]] # None /\ r.dev[r.list[k][i]].node = k
      <4>1. CASE k = n
        BY <3>1, <3>2, <4>1
      <4>2. CASE k # n
        BY <2>1, <2>5, <3>3, <4>2 DEF ListsAreRight
      <4> QED  BY <4>1, <4>2
    <3> QED  BY <3>4 DEF ListsAreRight
  <2>11. HeldRight(r) /\ SlotsInUse(r) /\ HeldInOrder(r)
    BY <2>3, StartsQueue
  <2>12. SlotsRight(r)
    <3> SUFFICES ASSUME NEW e \in r.current, IsAmtDeviceValid(r, e)
                 PROVE  r.dev[e].phase \notin {"held", "done"}
      BY DEF SlotsRight
    <3>1. CASE e = d
      <4>1. runs
        BY <2>4, <2>5, <3>1
      <4> QED  BY <2>3, <2>5, <3>1, <4>1
    <3>2. CASE e # d
      <4>1. e \in m.current /\ e \in Devs \ {d}
        BY <2>2, <2>5, <3>2
      <4> QED  BY <2>1, <2>5, <2>9, <4>1 DEF SlotsRight
    <3> QED  BY <3>1, <3>2
  <2>13. TlsRight(r)
    <3>1. new.phase # "tls"
      BY <2>3
    <3> QED  BY <2>1, <2>5, <3>1 DEF TlsRight
  <2>14. Alone(r, Devs)
    <3>1. new.phase # "contact"
      BY <2>3
    <3>2. \A e \in Devs : InContact(r, e) => InContact(m, e) /\ r.dev[e].conn = m.dev[e].conn
      BY <2>5, <3>1 DEF InContact
    <3> QED  BY <2>1, <2>5, <3>2, SameAlone
  <2>15. SlotsFollow(m, r)
    BY <2>2, <2>5, <2>9 DEF SlotsFollow
  <2>16. Right(r)
    BY <2>5, <2>10, <2>11, <2>12, <2>13, <2>14 DEF Right, Sound
  <2> QED  BY <2>15, <2>16 DEF r
<1> QED  BY <1>1, <1>2

-----------------------------------------------------------------------------
(***************************************************************************)
(* Loops over devices.                                                     *)
(***************************************************************************)

LEMMA SetToSeqIs ==
    ASSUME NEW S, IsFiniteSet(S)
    PROVE  SetToSeq(S) \in Seq(S)
<1>1. Cardinality(S) \in Nat /\ ExistsBijection(1..Cardinality(S), S)
  BY FS_CardinalityType
<1>2. \E f \in [1..Cardinality(S) -> S] : IsInjective(f)
  BY <1>1 DEF ExistsBijection, Bijection, Injection
<1>3. SetToSeq(S) \in [1..Cardinality(S) -> S]
  BY <1>2, Zenon DEF SetToSeq
<1> QED  BY <1>1, <1>3

\* What a loop may make of the state that it begins with.
After(m) == {k \in ManagerState : Right(k) /\ Follows(m, k)}

LEMMA AfterNothing ==
    ASSUME NEW m, Right(m)
    PROVE  m \in After(m)
BY DEF After, Right, Sound, Follows, Remains, SlotsFollow

LEMMA AfterMore ==
    ASSUME NEW m, Right(m), NEW k \in After(m), NEW r, Right(r), Follows(k, r)
    PROVE  r \in After(m)
<1>1. m \in ManagerState /\ k \in ManagerState /\ r \in ManagerState /\ Follows(m, k)
  BY DEF After, Right, Sound
<1> QED  BY <1>1, FollowsOn DEF After

\* performScan: management of each device that is given up stops.
LEMMA StoppedStep ==
    ASSUME NEW m, Right(m), NEW s \in Seq(Nodes)
    PROVE  LET stopped[i \in 0..Len(s)] ==
                   IF i = 0 THEN m
                   ELSE Stop(stopped[i - 1], s[i], scanTable[s[i]].host)
           IN  stopped[Len(s)] \in After(m)
<1> DEFINE Is(g) == g = [i \in 0..Len(s) |->
                            IF i = 0 THEN m
                            ELSE Stop(g[i - 1], s[i], scanTable[s[i]].host)]
           h == CHOOSE g : Is(g)
           X == After(m)
           step == [i \in 1..Len(s) |-> [k \in X |-> Stop(k, s[i], scanTable[s[i]].host)]]
<1>1. Len(s) \in Nat /\ \A i \in 1..Len(s) : s[i] \in Nodes
  OBVIOUS
<1>2. m \in X
  BY AfterNothing
<1>3. ASSUME NEW k \in X, NEW i \in 1..Len(s)
      PROVE  Stop(k, s[i], scanTable[s[i]].host) \in X
  <2>1. Right(k)
    BY DEF After
  <2>2. /\ Right(Stop(k, s[i], scanTable[s[i]].host))
        /\ Follows(k, Stop(k, s[i], scanTable[s[i]].host))
    BY <1>1, <2>1, StopStep
  <2> QED  BY <2>2, AfterMore
<1> HIDE DEF X
<1>4. \A i \in 1..Len(s) :
         /\ step[i] \in [X -> X]
         /\ \A k \in X : step[i][k] = Stop(k, s[i], scanTable[s[i]].host)
  BY <1>3
<1> HIDE DEF step
<1>5. PICK f : Iterates(f, Len(s), X, m, step)
  BY <1>1, <1>2, <1>4, IterationExists
<1> DEFINE r == [i \in 0..Len(s) |-> f[i]]
<1>6. ASSUME NEW i \in 1..Len(s)
      PROVE  /\ i \in 0..Len(s) /\ i # 0 /\ i - 1 \in 0..Len(s)
             /\ f[i] = Stop(f[i - 1], s[i], scanTable[s[i]].host)
  <2>1. i \in 0..Len(s) /\ i # 0 /\ i - 1 \in 0..Len(s)
    BY <1>1
  <2>2. f[i] = step[i][f[i - 1]] /\ f[i - 1] \in X
    BY <1>5, <2>1 DEF Iterates
  <2> QED  BY <1>4, <2>1, <2>2
<1>7. Is(r)
  <2>1. ASSUME NEW i \in 0..Len(s)
        PROVE  r[i] = IF i = 0 THEN m ELSE Stop(r[i - 1], s[i], scanTable[s[i]].host)
    <3>1. CASE i = 0
      BY <1>5, <3>1 DEF Iterates
    <3>2. CASE i # 0
      <4>1. i \in 1..Len(s)
        BY <3>2
      <4>2. r[i] = f[i] /\ r[i - 1] = f[i - 1]
        BY <1>6, <4>1
      <4> QED  BY <1>6, <3>2, <4>1, <4>2
    <3> QED  BY <3>1, <3>2
  <2> HIDE DEF r
  <2>2. r = [i \in 0..Len(s) |-> r[i]]
    BY DEF r
  <2> QED  BY <2>1, <2>2
<1>8. Is(h)
  <2> HIDE DEF Is, r
  <2> QED  BY <1>7, Zenon
<1> HIDE DEF h
<1>9. h[0] = f[0] /\ \A i \in 1..Len(s) : h[i - 1] = f[i - 1] => h[i] = f[i]
  <2>1. \A i \in 0..Len(s) :
            h[i] = IF i = 0 THEN m ELSE Stop(h[i - 1], s[i], scanTable[s[i]].host)
    BY <1>8
  <2>2. 0 \in 0..Len(s) /\ f[0] = m
    BY <1>1, <1>5 DEF Iterates
  <2> QED  BY <1>6, <2>1, <2>2
<1>10. h[Len(s)] = f[Len(s)] /\ f[Len(s)] \in X
  <2>1. Len(s) \in 0..Len(s)
    BY <1>1
  <2>2. \A i \in 0..Len(s) : h[i] = f[i]
    BY <1>1, <1>9, Agreeing
  <2> QED  BY <1>5, <2>1, <2>2 DEF Iterates
<1> QED  BY <1>10 DEF h, X

\* The device at a place of a list is moved, if there is one there that is to move.
MovedAt(k, n, h, i) ==
    IF i <= Len(k.list[n]) /\ k.dev[k.list[n][i]].conn \notin {h, Cira}
    THEN Removed([k EXCEPT !.dev[k.list[n][i]].conn = h], k.list[n][i])
    ELSE k

LEMMA MovedAtStep ==
    ASSUME NEW k, Right(k), NEW n \in Nodes, NEW h \in Hosts, NEW i \in Nat \ {0}
    PROVE  Right(MovedAt(k, n, h, i)) /\ Follows(k, MovedAt(k, n, h, i))
<1> DEFINE d == k.list[n][i]
<1>1. /\ k \in ManagerState /\ ListsAreRight(k) /\ TlsRight(k) /\ Alone(k, Devs)
      /\ Sound(k, {})
  BY SoundIs DEF Right, Sound
<1>2. CASE i <= Len(k.list[n]) /\ k.dev[d].conn \notin {h, Cira}
  <2> DEFINE c == [k EXCEPT !.dev[d].conn = h]
             o == [k.dev[d] EXCEPT !.conn = h]
  <2>1. i \in DOMAIN k.list[n]
    <3>1. k.list[n] \in Seq(Devs)
      BY <1>1, StateFields
    <3> QED  BY <1>2, <3>1
  <2>2. d \in Devs /\ IsAmtDeviceValid(k, d) /\ k.dev[d] # None
    <3>1. d \in ToSet(k.list[n])
      BY <2>1, Listed
    <3> HIDE DEF d
    <3> QED  BY <1>1, <3>1, ListedIsValid DEF IsAmtDeviceValid
  <2>3. MovedAt(k, n, h, i) = Removed(c, d)
    BY <1>2 DEF MovedAt
  <2> HIDE DEF d
  <2>4. /\ o \in Object /\ o.node = k.dev[d].node /\ o.phase = k.dev[d].phase
        /\ o.calls = k.dev[d].calls
    <3>1. k.dev[d] \in Object
      BY <1>1, <2>2, ObjectFields
    <3> QED  BY <3>1 DEF Object
  <2>5. Changes(k, c, d, o) /\ c.active = k.active
    <3>1. k.dev \in [Devs -> Object \cup {None}]
      BY <1>1, StateFields
    <3>2. [k.dev EXCEPT ![d] = o] \in [Devs -> Object \cup {None}]
      <4> HIDE DEF o
      <4> QED  BY <2>4, <3>1
    <3>3. c = [k EXCEPT !.dev = [k.dev EXCEPT ![d] = o]]
      BY <1>1 DEF ManagerState
    <3> HIDE DEF c, o
    <3> QED  BY <1>1, <3>2, <3>3 DEF Changes, ManagerState
  <2> HIDE DEF c, o
  <2>6. Sound(c, {}) /\ \A e \in Devs : IsAmtDeviceValid(c, e) <=> IsAmtDeviceValid(k, e)
    <3>1. o.phase = "tls" => o.calls > 0
      BY <1>1, <2>2, <2>4 DEF TlsRight
    <3> QED  BY <1>1, <2>2, <2>4, <2>5, <3>1, OneChanges DEF MayBecome
  <2>7. c.dev[d] = o /\ \A e \in Devs \ {d} : c.dev[e] = k.dev[e]
    BY <1>1, <2>2, <2>5, StateFields DEF Changes
  <2>8. Alone(c, Devs \ {d})
    <3>1. Alone(k, Devs \ {d})
      BY <1>1 DEF Alone
    <3>2. \A e \in Devs \ {d} : InContact(c, e) => InContact(k, e) /\ c.dev[e].conn = k.dev[e].conn
      BY <2>7 DEF InContact
    <3> QED  BY <2>5, <3>1, <3>2, SameAlone
  <2>9. Sound(c, Devs \ {d}) /\ IsAmtDeviceValid(c, d) /\ c \in ManagerState
    BY <2>2, <2>5, <2>6, <2>8, SoundIs DEF Changes
  <2>10. Right(Removed(c, d)) /\ Follows(c, Removed(c, d))
    BY <2>2, <2>9, RemovedStep
  <2>11. Follows(k, c)
    <3>1. Remains(k, c)
      <4> SUFFICES ASSUME NEW e \in Devs, IsAmtDeviceValid(c, e)
                   PROVE  /\ IsAmtDeviceValid(k, e) /\ c.dev[e].node = k.dev[e].node
                          /\ c.dev[e].phase = "tls" => k.dev[e].phase = "tls"
        BY DEF Remains
      <4> QED  BY <2>4, <2>6, <2>7
    <3>2. SlotsFollow(k, c)
      BY <1>1, <2>5, <2>6, SlotsStay DEF Changes
    <3> QED  BY <3>1, <3>2 DEF Follows
  <2>12. Removed(c, d) \in ManagerState
    BY <2>10 DEF Right, Sound
  <2>13. Follows(k, Removed(c, d))
    BY <1>1, <2>9, <2>10, <2>11, <2>12, FollowsOn
  <2> QED  BY <2>3, <2>10, <2>13
<1>3. CASE ~(i <= Len(k.list[n]) /\ k.dev[d].conn \notin {h, Cira})
  <2>1. MovedAt(k, n, h, i) = k
    BY <1>3 DEF MovedAt
  <2>2. Follows(k, k)
    BY DEF Follows, Remains, SlotsFollow
  <2> QED  BY <2>1, <2>2
<1> QED  BY <1>2, <1>3

\* The event of a change: local devices at another address are removed.
LEMMA MovedStep ==
    ASSUME NEW m, Right(m), NEW n \in Nodes, NEW a \in Hosts
    PROVE  Moved(m, n, a) \in After(m)
<1> DEFINE l == Len(m.list[n])
           Is(g) == g = [i \in 0..l |->
                            IF i = 0 THEN m
                            ELSE LET k == g[i - 1]
                                     d == k.list[n][i]
                                 IN  IF i <= Len(k.list[n]) /\ k.dev[d].conn \notin {a, Cira}
                                     THEN Removed([k EXCEPT !.dev[d].conn = a], d)
                                     ELSE k]
           h == CHOOSE g : Is(g)
           X == After(m)
           step == [i \in 1..l |-> [k \in X |-> MovedAt(k, n, a, i)]]
<1>1. l \in Nat
  <2>1. m.list[n] \in Seq(Devs)
    BY StateFields DEF Right, Sound
  <2> QED  BY <2>1
<1>2. m \in X
  BY AfterNothing
<1>3. ASSUME NEW k \in X, NEW i \in 1..l  PROVE MovedAt(k, n, a, i) \in X
  <2>1. Right(k) /\ i \in Nat \ {0}
    BY <1>1 DEF After
  <2>2. Right(MovedAt(k, n, a, i)) /\ Follows(k, MovedAt(k, n, a, i))
    BY <2>1, MovedAtStep
  <2> QED  BY <2>2, AfterMore
<1>a. Moved(m, n, a) = h[l]
  BY DEF Moved
<1> HIDE DEF X, l
<1>4. \A i \in 1..l : /\ step[i] \in [X -> X]
                      /\ \A k \in X : step[i][k] = MovedAt(k, n, a, i)
  BY <1>3
<1> HIDE DEF step
<1>5. PICK f : Iterates(f, l, X, m, step)
  BY <1>1, <1>2, <1>4, IterationExists
<1> DEFINE r == [i \in 0..l |-> f[i]]
<1>6. ASSUME NEW i \in 1..l
      PROVE  /\ i \in 0..l /\ i # 0 /\ i - 1 \in 0..l
             /\ f[i] = MovedAt(f[i - 1], n, a, i)
  <2>1. i \in 0..l /\ i # 0 /\ i - 1 \in 0..l
    BY <1>1
  <2>2. f[i] = step[i][f[i - 1]] /\ f[i - 1] \in X
    BY <1>5, <2>1 DEF Iterates
  <2> QED  BY <1>4, <2>1, <2>2
<1>0. \A g : Is(g) <=> g = [i \in 0..l |-> IF i = 0 THEN m ELSE MovedAt(g[i - 1], n, a, i)]
  BY Zenon DEF MovedAt
<1> HIDE DEF Is
<1>7. Is(r)
  <2>1. ASSUME NEW i \in 0..l
        PROVE  r[i] = IF i = 0 THEN m ELSE MovedAt(r[i - 1], n, a, i)
    <3>1. CASE i = 0
      BY <1>5, <3>1 DEF Iterates
    <3>2. CASE i # 0
      <4>1. i \in 1..l
        BY <1>1, <3>2
      <4>2. r[i] = f[i] /\ r[i - 1] = f[i - 1]
        BY <1>6, <4>1
      <4> QED  BY <1>6, <3>2, <4>1, <4>2
    <3> QED  BY <3>1, <3>2
  <2> HIDE DEF r
  <2>2. r = [i \in 0..l |-> r[i]]
    BY DEF r
  <2> QED  BY <1>0, <2>1, <2>2
<1>8. Is(h)
  <2> HIDE DEF r
  <2> QED  BY <1>7, Zenon
<1> HIDE DEF h
<1>9. h[0] = f[0] /\ \A i \in 1..l : h[i - 1] = f[i - 1] => h[i] = f[i]
  <2>1. \A i \in 0..l : h[i] = IF i = 0 THEN m ELSE MovedAt(h[i - 1], n, a, i)
    BY <1>0, <1>8
  <2>2. 0 \in 0..l /\ f[0] = m
    BY <1>1, <1>5 DEF Iterates
  <2> QED  BY <1>6, <2>1, <2>2
<1>10. h[l] = f[l] /\ f[l] \in X
  <2>1. l \in 0..l
    BY <1>1
  <2>2. \A i \in 0..l : h[i] = f[i]
    BY <1>1, <1>9, Agreeing
  <2> QED  BY <1>5, <2>1, <2>2 DEF Iterates
<1> QED  BY <1>a, <1>10 DEF X

-----------------------------------------------------------------------------
(***************************************************************************)
(* The callbacks of a device, as steps from a state to the next one.       *)
(***************************************************************************)

\* The state that is right and in which the slots are where they may be.
Steps(m, r) == Right(r) /\ SlotsFollow(m, r)

\* A removal whether the device is listed or not.
LEMMA AnyRemoved ==
    ASSUME NEW m, Right(m), NEW d \in Devs
    PROVE  LET r == Removed(m, d)
           IN  /\ Right(r) /\ Follows(m, r) /\ ~IsAmtDeviceValid(r, d)
               /\ ~IsHeld(m, d) => ~IsHeld(r, d)
<1>1. CASE IsAmtDeviceValid(m, d)
  <2>1. Sound(m, Devs \ {d})
    BY Weaker DEF Right
  <2> QED  BY <1>1, <2>1, RemovedStep
<1>2. CASE ~IsAmtDeviceValid(m, d)
  <2>1. Removed(m, d) = m
    BY <1>2 DEF Removed
  <2>2. Follows(m, m)
    BY DEF Follows, Remains, SlotsFollow
  <2> QED  BY <1>2, <2>1, <2>2
<1> QED  BY <1>1, <1>2

LEMMA ReadStep ==
    ASSUME NEW m, Right(m), NEW d \in Devs, m.dev[d] # None, m.dev[d].phase = "read"
    PROVE  Steps(m, Contact(m, d)) /\ Steps(m, Gone(Removed(m, d), d))
<1>1. Steps(m, Contact(m, d))
  BY ContactStep DEF Steps
<1> DEFINE k == Removed(m, d)
           r == Gone(k, d)
<1>2. Right(k) /\ Follows(m, k) /\ ~IsAmtDeviceValid(k, d) /\ ~IsHeld(k, d)
  BY AnyRemoved DEF IsHeld
<1> HIDE DEF k
<1>3. Sound(r, Devs \cup {d}) /\ Follows(k, r)
  BY <1>2, OneGoes DEF Right
<1> HIDE DEF r
<1>4. Right(r)
  <2>1. Devs \cup {d} = Devs
    OBVIOUS
  <2> QED  BY <1>3, <2>1 DEF Right
<1>5. Follows(m, r)
  BY <1>2, <1>3, <1>4, FollowsOn DEF Right, Sound
<1> QED  BY <1>1, <1>4, <1>5 DEF Steps, Follows, k, r

LEMMA TryAgainStep ==
    ASSUME NEW m, Right(m), NEW d \in Devs, m.dev[d] # None, m.dev[d].phase = "hold"
    PROVE  Steps(m, IF m.list[m.dev[d].node] # <<>> THEN Contact(m, d) ELSE Gone(m, d))
<1>1. CASE m.list[m.dev[d].node] # <<>>
  BY <1>1, ContactStep DEF Steps
<1>2. CASE m.list[m.dev[d].node] = <<>>
  <2>1. ~IsAmtDeviceValid(m, d) /\ ~IsHeld(m, d)
    BY <1>2 DEF IsAmtDeviceValid, IsHeld, ToSet
  <2>2. Sound(Gone(m, d), Devs \cup {d}) /\ Follows(m, Gone(m, d))
    BY <2>1, OneGoes DEF Right
  <2>3. Devs \cup {d} = Devs
    OBVIOUS
  <2> QED  BY <1>2, <2>2, <2>3 DEF Steps, Right, Follows
<1> QED  BY <1>1, <1>2

\* The slots may be where they may be before an answer.
LEMMA AnsweredSlots ==
    ASSUME NEW m, NEW k, k.dev = m.dev, k.list = m.list, k.current = m.current,
           NEW r, SlotsFollow(k, r)
    PROVE  SlotsFollow(m, r)
BY DEF SlotsFollow, LeavesBeside, IsAmtDeviceValid

LEMMA IgnoredStep ==
    ASSUME NEW m, Right(m), NEW d \in Devs, InContact(m, d), ~IsAmtDeviceValid(m, d)
    PROVE  Steps(m, Gone(Answered(m, d), d))
<1> DEFINE k == Answered(m, d)
<1>1. /\ Sound(k, Devs \ {d})
      /\ k.dev = m.dev /\ k.list = m.list /\ k.current = m.current /\ k.pending = m.pending
  BY AnsweredStep
<1> HIDE DEF k
<1>2. ~IsAmtDeviceValid(k, d) /\ ~IsHeld(k, d)
  BY <1>1 DEF IsAmtDeviceValid, IsHeld, InContact
<1>3. Sound(Gone(k, d), (Devs \ {d}) \cup {d}) /\ Follows(k, Gone(k, d))
  BY <1>1, <1>2, OneGoes
<1>4. (Devs \ {d}) \cup {d} = Devs
  OBVIOUS
<1> QED  BY <1>1, <1>3, <1>4, AnsweredSlots DEF Steps, Right, Follows, k

LEMMA ContactedStep ==
    ASSUME NEW m, Right(m), NEW d \in Devs, InContact(m, d)
    PROVE  Steps(m, Phase(Answered(m, d), d, IF m.dev[d].calls > 0 THEN "tls" ELSE "sync"))
<1> DEFINE k == Answered(m, d)
           phase == IF m.dev[d].calls > 0 THEN "tls" ELSE "sync"
           r == Phase(k, d, phase)
<1>1. /\ Sound(k, Devs \ {d})
      /\ k.dev = m.dev /\ k.list = m.list /\ k.current = m.current /\ k.pending = m.pending
  BY AnsweredStep
<1> HIDE DEF k
<1>2. /\ phase \in Phases /\ phase # "contact" /\ MayBecome(k, d, phase)
      /\ phase = "tls" => k.dev[d].calls > 0
  BY <1>1 DEF Phases, MayBecome, InContact
<1> HIDE DEF phase
<1>3. Sound(r, (Devs \ {d}) \cup {d}) /\ SlotsFollow(k, r)
  BY <1>1, <1>2, PhaseStep DEF InContact
<1>4. (Devs \ {d}) \cup {d} = Devs
  OBVIOUS
<1> HIDE DEF r
<1> QED  BY <1>1, <1>3, <1>4, AnsweredSlots DEF Steps, Right, r, k, phase

LEMMA WaitStep ==
    ASSUME NEW m, Right(m), NEW d \in Devs, InContact(m, d), m.dev[d].acctry > 1
    PROVE  Steps(m, [Phase(Answered(m, d), d, "wait") EXCEPT !.dev[d].acctry = @ - 1])
<1> DEFINE k == Answered(m, d)
           p == Phase(k, d, "wait")
           r == [p EXCEPT !.dev[d].acctry = @ - 1]
           q == [k.dev[d] EXCEPT !.phase = "wait"]
           o == [q EXCEPT !.acctry = @ - 1]
<1>1. /\ Sound(k, Devs \ {d})
      /\ k.dev = m.dev /\ k.list = m.list /\ k.current = m.current /\ k.pending = m.pending
  BY AnsweredStep
<1> HIDE DEF k
<1>2. k \in ManagerState /\ k.dev[d] # None /\ k.dev[d].phase = "contact"
  BY <1>1 DEF Sound, InContact
<1>3. /\ q \in Object /\ q.phase = "wait" /\ q.node = k.dev[d].node
      /\ Changes(k, p, d, q) /\ p.active = k.active
  <2>1. "wait" \in Phases
    BY DEF Phases
  <2> QED  BY <1>2, <2>1, PhaseIs
<1>4. q.acctry = m.dev[d].acctry
  BY <1>1, <1>2, ObjectFields DEF Object
<1> HIDE DEF p, q
<1>5. /\ o \in Object /\ o.phase = "wait" /\ o.node = k.dev[d].node
  <2>1. q.acctry - 1 \in Nat \ {0}
    BY <1>3, <1>4 DEF Object
  <2> QED  BY <1>3, <2>1 DEF Object
<1>6. Changes(k, r, d, o) /\ r.active = k.active
  <2>1. /\ p \in ManagerState /\ p.dev = [k.dev EXCEPT ![d] = q] /\ p.list = k.list
        /\ p.current = k.current /\ p.pending = k.pending
    BY <1>3 DEF Changes
  <2>2. k.dev \in [Devs -> Object \cup {None}]
    BY <1>2, StateFields
  <2>3. r = [p EXCEPT !.dev = [k.dev EXCEPT ![d] = o]]
    <3>1. [p.dev EXCEPT ![d] = o] = [k.dev EXCEPT ![d] = o] /\ p.dev[d] = q
      BY <2>1, <2>2
    <3>2. r = [p EXCEPT !.dev = [p.dev EXCEPT ![d] = [p.dev[d] EXCEPT !.acctry = @ - 1]]]
      BY <2>1 DEF ManagerState
    <3> QED  BY <3>1, <3>2
  <2>4. [k.dev EXCEPT ![d] = o] \in [Devs -> Object \cup {None}]
    <3> HIDE DEF o
    <3> QED  BY <1>5, <2>2
  <2> HIDE DEF o, r
  <2> QED  BY <1>3, <2>1, <2>3, <2>4 DEF Changes, ManagerState
<1> HIDE DEF r, o
<1>7. Sound(r, (Devs \ {d}) \cup {d}) /\ SlotsFollow(k, r)
  BY <1>1, <1>2, <1>5, <1>6, ChangeStep DEF MayBecome
<1>8. (Devs \ {d}) \cup {d} = Devs
  OBVIOUS
<1> QED  BY <1>1, <1>7, <1>8, AnsweredSlots DEF Steps, Right, r, p, k

LEMMA FailedStep ==
    ASSUME NEW m, Right(m), NEW d \in Devs, InContact(m, d), IsAmtDeviceValid(m, d)
    PROVE  Steps(m, Removed(Answered(m, d), d))
<1> DEFINE k == Answered(m, d)
<1>1. /\ Sound(k, Devs \ {d})
      /\ k.dev = m.dev /\ k.list = m.list /\ k.current = m.current /\ k.pending = m.pending
  BY AnsweredStep
<1> HIDE DEF k
<1>2. IsAmtDeviceValid(k, d)
  BY <1>1 DEF IsAmtDeviceValid
<1>3. Right(Removed(k, d)) /\ Follows(k, Removed(k, d))
  BY <1>1, <1>2, RemovedStep
<1> QED  BY <1>1, <1>3, AnsweredSlots DEF Steps, Follows, k

LEMMA TlsStep ==
    ASSUME NEW m, Right(m), NEW d \in Devs, m.dev[d] # None, m.dev[d].phase = "tls"
    PROVE  LET k == [m EXCEPT !.dev[d].calls = @ - 1]
           IN  Steps(m, IF m.dev[d].calls = 1 THEN Phase(k, d, "commit") ELSE k)
<1> DEFINE k == [m EXCEPT !.dev[d].calls = @ - 1]
           o == [m.dev[d] EXCEPT !.calls = @ - 1]
           p == Phase(k, d, "commit")
           q == [m.dev[d] EXCEPT !.calls = @ - 1, !.phase = "commit"]
           r == IF m.dev[d].calls = 1 THEN p ELSE k
           x == IF m.dev[d].calls = 1 THEN q ELSE o
<1>1. m \in ManagerState /\ TlsRight(m) /\ Sound(m, Devs)
  BY DEF Right, Sound
<1>2. m.dev[d] \in Object /\ m.dev[d].calls \in 1..3
  <2>1. m.dev[d] \in Object /\ m.dev[d].calls \in 0..3
    BY <1>1, ObjectFields
  <2>2. m.dev[d].calls > 0
    BY <1>1 DEF TlsRight
  <2> QED  BY <2>1, <2>2
<1>3. /\ o \in Object /\ o.phase = "tls" /\ o.node = m.dev[d].node /\ o.calls = m.dev[d].calls - 1
      /\ q \in Object /\ q.phase = "commit" /\ q.node = m.dev[d].node
  <2>1. m.dev[d].calls - 1 \in 0..3
    BY <1>2
  <2> QED  BY <1>2, <2>1 DEF Object, Phases
<1>4. m.dev \in [Devs -> Object \cup {None}]
  BY <1>1, StateFields
<1>5. k = [m EXCEPT !.dev = [m.dev EXCEPT ![d] = o]]
  BY <1>1 DEF ManagerState
<1>6. p = [m EXCEPT !.dev = [m.dev EXCEPT ![d] = q]]
  <2>1. p = [k EXCEPT !.dev = [k.dev EXCEPT ![d] = [k.dev[d] EXCEPT !.phase = "commit"]]]
    BY <1>1, <1>5 DEF Phase, ManagerState
  <2>2. k.dev = [m.dev EXCEPT ![d] = o] /\ k.dev[d] = o
    BY <1>1, <1>4, <1>5 DEF ManagerState
  <2>3. [o EXCEPT !.phase = "commit"] = q
    BY <1>2 DEF Object
  <2>4. [k.dev EXCEPT ![d] = q] = [m.dev EXCEPT ![d] = q]
    <3> HIDE DEF o, q, k
    <3> QED  BY <1>4, <2>2
  <2>5. p = [k EXCEPT !.dev = [m.dev EXCEPT ![d] = q]]
    BY <2>1, <2>2, <2>3, <2>4
  <2> HIDE DEF o, q, p, k
  <2> QED  BY <1>1, <1>5, <2>5 DEF ManagerState
<1> HIDE DEF o, q, p, k
<1>7. /\ x \in Object /\ x.node = m.dev[d].node /\ x.phase # "contact"
      /\ MayBecome(m, d, x.phase) /\ (x.phase = "tls" => x.calls > 0)
  BY <1>2, <1>3 DEF MayBecome
<1>8. r = [m EXCEPT !.dev = [m.dev EXCEPT ![d] = x]]
  BY <1>5, <1>6
<1> HIDE DEF x, r
<1>9. Changes(m, r, d, x) /\ r.active = m.active
  <2>1. [m.dev EXCEPT ![d] = x] \in [Devs -> Object \cup {None}]
    BY <1>4, <1>7
  <2> QED  BY <1>1, <1>8, <2>1 DEF Changes, ManagerState
<1>10. Sound(r, Devs \cup {d}) /\ SlotsFollow(m, r)
  BY <1>1, <1>7, <1>9, ChangeStep
<1>11. Devs \cup {d} = Devs
  OBVIOUS
<1> QED  BY <1>10, <1>11 DEF Steps, Right, r, p, k

LEMMA DoneStep ==
    ASSUME NEW m, Right(m), NEW d \in Devs, m.dev[d] # None, m.dev[d].phase = "sync"
    PROVE  Steps(m, Phase(Completed(m, d), d, "done"))
<1> DEFINE k == Completed(m, d)
           r == Phase(k, d, "done")
<1>1. m \in ManagerState /\ ListsAreRight(m) /\ Sound(m, Devs)
  BY DEF Right, Sound
<1>2. Sound(k, Devs) /\ Completes(m, k, d)
  BY <1>1, CompletedStep
<1> HIDE DEF k
<1>3. k.dev[d] = m.dev[d] /\ d \notin k.current /\ Follows(m, k) /\ k \in ManagerState
  BY <1>1, <1>2, BecomesKeeps DEF Completes, Sound
<1>4. Sound(r, Devs \cup {d}) /\ Follows(k, r)
  <2>1. "done" \in Phases /\ MayBecome(k, d, "done")
    BY <1>3 DEF Phases, MayBecome
  <2> QED  BY <1>2, <1>3, <2>1, PhaseStep
<1> HIDE DEF r
<1>5. Right(r)
  <2>1. Devs \cup {d} = Devs
    OBVIOUS
  <2> QED  BY <1>4, <2>1 DEF Right
<1>6. Follows(m, r)
  BY <1>1, <1>3, <1>4, <1>5, FollowsOn DEF Right, Sound
<1> QED  BY <1>5, <1>6 DEF Steps, Follows, r, k

-----------------------------------------------------------------------------
(***************************************************************************)
(* The invariant.                                                          *)
(***************************************************************************)

Entry == [state : {0, 1}, age : 0..3, host : Hosts, ping : Hosts \cup {None},
          tcp : Hosts \cup {None}]
Probe == [node : Nodes, to : Hosts, host : Hosts, shows : BOOLEAN]

\* The types of what is not the manager's.
OthersTyped ==
    /\ host \in [Nodes -> Hosts \cup {None}]
    /\ answering \subseteq Hosts
    /\ cira \in [Nodes -> {"off", "hold", "up"}]
    /\ shown \subseteq Nodes
    /\ scanTable \in [Nodes -> {None} \cup Entry]
    /\ events \in Nat
    /\ probes \subseteq Probe

LEMMA InvariantIs ==
    ASSUME Right(Manager), OthersTyped
    PROVE  IInv
<1>1. Manager \in ManagerState
  BY DEF Right, Sound
<1>2. /\ dev \in [Devs -> Object \cup {None}] /\ amtDevices \in [Nodes -> Seq(Devs)]
      /\ activeLocalConnections \subseteq Hosts /\ current \subseteq Devs
      /\ pending \in Seq(Devs)
  BY <1>1, StateFields DEF Manager
<1>3. ManagerTypeOK
  BY <1>2 DEF ManagerTypeOK, ToSet
<1> QED  BY <1>3 DEF IInv, TypeOK, OthersTyped, Entry, Probe

LEMMA InvariantGives ==
    ASSUME IInv
    PROVE  Right(Manager) /\ OthersTyped
BY DEF IInv, TypeOK, OthersTyped, Entry, Probe

LEMMA InitRight == Init => IInv
<1> SUFFICES ASSUME Init  PROVE IInv
  OBVIOUS
<1> DEFINE m == Manager
<1>1. /\ m.dev = [d \in Devs |-> None] /\ m.list = [n \in Nodes |-> <<>>]
      /\ m.active = {} /\ m.current = {} /\ m.pending = <<>> /\ m \in ManagerState
  BY DEF Init, ManagerInit, Manager, ManagerState
<1> HIDE DEF m
<1>2. \A d \in Devs : m.dev[d] = None
  BY <1>1
<1>3. ListsAreRight(m) /\ HeldInOrder(m)
  <2>1. \A n \in Nodes : m.list[n] = <<>>
    BY <1>1
  <2> QED  BY <2>1 DEF ListsAreRight, HeldInOrder
<1>4. HeldRight(m) /\ SlotsRight(m)
  BY <1>1 DEF HeldRight, SlotsRight
<1>5. SlotsInUse(m)
  BY <1>1, FS_EmptySet DEF SlotsInUse
<1>6. TlsRight(m) /\ Alone(m, Devs)
  BY <1>2 DEF TlsRight, Alone, InContact
<1>7. Right(m)
  BY <1>1, <1>3, <1>4, <1>5, <1>6 DEF Right, Sound
<1>8. OthersTyped
  <2>1. PICK p \in Populations : host = p.host /\ answering = p.answering /\ events = p.events
    BY DEF Init
  <2>2. p \in [host : [Nodes -> Hosts \cup {None}], answering : SUBSET Hosts, events : Nat]
    BY ScannerAssumption
  <2> QED  BY <2>1, <2>2 DEF Init, OthersTyped
<1> QED  BY <1>7, <1>8, InvariantIs DEF m

-----------------------------------------------------------------------------
(***************************************************************************)
(* The steps.                                                              *)
(***************************************************************************)

\* What a handler makes of the manager is its next state.
LEMMA ManagerBecomes ==
    ASSUME NEW r, Steps(Manager, r), ManagerIs(r)
    PROVE  Steps(Manager, Manager')
<1>1. r \in ManagerState
  BY DEF Steps, Right, Sound
<1>2. Manager' = r
  BY <1>1 DEF ManagerIs, Manager, ManagerState
<1> QED  BY <1>2

LEMMA ManagerStays ==
    ASSUME Right(Manager), UNCHANGED manager
    PROVE  Steps(Manager, Manager')
<1>1. Manager' = Manager
  BY DEF manager, Manager
<1>2. Steps(Manager, Manager)
  BY DEF Steps, SlotsFollow
<1> QED  BY <1>1, <1>2

LEMMA StartLeads ==
    ASSUME Right(Manager), NEW n \in Nodes, NEW conn \in Hosts \cup {Cira}, Room(n, conn),
           ManagerIs(Start(Manager, n, conn))
    PROVE  Steps(Manager, Manager')
<1>1. Steps(Manager, Start(Manager, n, conn))
  BY StartStep DEF Room, Steps
<1> QED  BY <1>1, ManagerBecomes

LEMMA PerformScanLeads ==
    ASSUME IInv, PerformScan
    PROVE  Steps(Manager, Manager') /\ OthersTyped'
<1>1. Right(Manager) /\ OthersTyped
  BY InvariantGives
<1>2. PICK early \in SUBSET Nearly :
         LET given == Overdue \cup early
             dropped == Entries \ Docs
             nodes == SetToSeq(given)
             stopped[i \in 0..Len(nodes)] ==
                 IF i = 0 THEN Manager
                 ELSE Stop(stopped[i - 1], nodes[i], scanTable[nodes[i]].host)
         IN  /\ scanTable' = [n \in Nodes |->
                   IF n \notin Docs THEN None
                   ELSE IF scanTable[n] = None THEN NewEntry(host[n])
                   ELSE Scanned(n, n \in given)]
             /\ shown' = shown \ given
             /\ probes' = probes \cup Orphans(dropped)
             /\ ManagerIs(stopped[Len(nodes)])
             /\ UNCHANGED world
  BY DEF PerformScan
<1> DEFINE given == Overdue \cup early
           dropped == Entries \ Docs
           nodes == SetToSeq(given)
           stopped[i \in 0..Len(nodes)] ==
               IF i = 0 THEN Manager
               ELSE Stop(stopped[i - 1], nodes[i], scanTable[nodes[i]].host)
           l == stopped[Len(nodes)]
<1>3. /\ scanTable' = [n \in Nodes |->
               IF n \notin Docs THEN None
               ELSE IF scanTable[n] = None THEN NewEntry(host[n])
               ELSE Scanned(n, n \in given)]
      /\ shown' = shown \ given
      /\ probes' = probes \cup Orphans(dropped)
      /\ ManagerIs(l)
      /\ UNCHANGED world
  BY <1>2
<1>4. given \subseteq Nodes /\ dropped \subseteq Nodes
  BY DEF Overdue, Nearly, Timed, Entries
<1>5. nodes \in Seq(Nodes)
  <2>1. IsFiniteSet(given)
    BY <1>4, ManagerAssumption, FS_Subset
  <2> HIDE DEF given
  <2>2. SetToSeq(given) \in Seq(given)
    BY <2>1, SetToSeqIs
  <2> QED  BY <1>4, <2>2
<1>6. l \in After(Manager)
  <2> HIDE DEF nodes
  <2> QED  BY <1>1, <1>5, StoppedStep
<1> HIDE DEF l
<1>7. Steps(Manager, Manager')
  <2>1. Steps(Manager, l)
    BY <1>6 DEF After, Steps, Follows
  <2> QED  BY <1>3, <2>1, ManagerBecomes
<1>8. events' \in Nat
  BY <1>1 DEF PerformScan, Usual, Happens, OthersTyped
<1>9. probes' \subseteq Probe
  <2>1. ASSUME NEW n \in dropped, scanTable[n].tcp # None, scanTable[n] # None
        PROVE  [node |-> n, to |-> scanTable[n].tcp, host |-> scanTable[n].host, shows |-> TRUE]
                   \in Probe
    <3>1. n \in Nodes /\ scanTable[n] \in Entry
      BY <1>1, <1>4, <2>1 DEF OthersTyped
    <3> QED  BY <2>1, <3>1 DEF Entry, Probe
  <2>2. \A n \in dropped : scanTable[n] # None
    BY DEF Entries
  <2>3. Orphans(dropped) \subseteq Probe
    BY <2>1, <2>2 DEF Orphans
  <2> QED  BY <1>1, <1>3, <2>3 DEF OthersTyped
<1>10. scanTable' \in [Nodes -> {None} \cup Entry]
  <2>1. ASSUME NEW n \in Nodes
        PROVE  (IF n \notin Docs THEN None
                ELSE IF scanTable[n] = None THEN NewEntry(host[n])
                ELSE Scanned(n, n \in given)) \in {None} \cup Entry
    <3>1. CASE n \notin Docs
      BY <3>1
    <3>2. CASE n \in Docs /\ scanTable[n] = None
      <4>1. host[n] \in Hosts
        BY <1>1, <3>2 DEF Docs, OthersTyped
      <4> QED  BY <3>2, <4>1 DEF NewEntry, Entry
    <3>3. CASE n \in Docs /\ scanTable[n] # None
      <4> DEFINE e == scanTable[n]
                 gives == n \in given
                 age == IF gives \/ e.state = 0 THEN 0 ELSE Age(n)
      <4>1. host[n] \in Hosts /\ e \in Entry
        BY <1>1, <3>3 DEF Docs, OthersTyped
      <4>2. age \in 0..3
        <5>1. CASE gives \/ e.state = 0
          BY <5>1
        <5>2. CASE ~gives /\ e.state # 0
          <6>1. e.state = 1 /\ e.age \in 0..3
            BY <4>1, <5>2 DEF Entry
          <6>2. ~(Age(n) >= 4)
            BY <3>3, <5>2, <6>1 DEF Overdue, Timed, Entries
          <6>3. Age(n) \in 0..3
            BY <6>1, <6>2 DEF Age
          <6> QED  BY <5>2, <6>3
        <5> QED  BY <5>1, <5>2
      <4>3. Scanned(n, gives) = [e EXCEPT !.state = IF gives THEN 0 ELSE @,
                                          !.age = age,
                                          !.ping = host[n],
                                          !.tcp = IF ~gives /\ Tried(n) THEN host[n] ELSE @]
        BY DEF Scanned
      <4> HIDE DEF age, gives
      <4>4. Scanned(n, gives) \in Entry
        BY <4>1, <4>2, <4>3 DEF Entry
      <4> QED  BY <3>3, <4>4 DEF gives
    <3> QED  BY <3>1, <3>2, <3>3
  <2> HIDE DEF given
  <2> QED  BY <1>3, <2>1
<1>11. OthersTyped'
  BY <1>1, <1>3, <1>8, <1>9, <1>10 DEF OthersTyped, world
<1> QED  BY <1>7, <1>11

LEMMA FoundLeads ==
    ASSUME IInv, NEW n \in Nodes, NEW entry \in Entry, Found(n, entry)
    PROVE  Steps(Manager, Manager') /\ OthersTyped'
<1>1. Right(Manager) /\ OthersTyped
  BY InvariantGives
<1>2. Steps(Manager, Manager')
  <2>1. CASE entry.state = 0
    <3>1. entry.host \in Hosts \cup {Cira}
      BY DEF Entry
    <3>2. Room(n, entry.host) /\ ManagerIs(Start(Manager, n, entry.host))
      BY <2>1 DEF Found
    <3> QED  BY <1>1, <3>1, <3>2, StartLeads
  <2>2. CASE entry.state # 0
    BY <1>1, <2>2, ManagerStays DEF Found
  <2> QED  BY <2>1, <2>2
<1>3. [entry EXCEPT !.state = 1, !.age = 0] \in Entry
  <2>1. 1 \in {0, 1} /\ 0 \in 0..3
    OBVIOUS
  <2>2. [entry EXCEPT !.state = 1] \in Entry
    BY <2>1, Zenon DEF Entry
  <2> QED  BY <2>1, <2>2 DEF Entry
<1>4. /\ scanTable' = [scanTable EXCEPT ![n] = [entry EXCEPT !.state = 1, !.age = 0]]
      /\ shown' \subseteq shown \cup {n}
      /\ UNCHANGED <<probes, world, events>>
  BY DEF Found
<1>5. OthersTyped'
  BY <1>1, <1>3, <1>4 DEF OthersTyped, world
<1> QED  BY <1>2, <1>5

LEMMA ScanLeads ==
    ASSUME IInv, NEW n \in Nodes, Pong(n) \/ ProbeAnswered(n) \/ ProbeEnds(n)
    PROVE  Steps(Manager, Manager') /\ OthersTyped'
<1>1. Right(Manager) /\ OthersTyped
  BY InvariantGives
<1>2. scanTable[n] # None => scanTable[n] \in Entry
  BY <1>1 DEF OthersTyped
<1>3. scanTable[n] # None => [scanTable[n] EXCEPT !.tcp = None] \in Entry
  BY <1>2 DEF Entry
<1>4. CASE Pong(n)
  BY <1>2, <1>4, FoundLeads DEF Pong
<1>5. CASE ProbeAnswered(n)
  BY <1>3, <1>5, FoundLeads DEF ProbeAnswered
<1>6. CASE ProbeEnds(n)
  <2>1. Steps(Manager, Manager')
    BY <1>1, <1>6, ManagerStays DEF ProbeEnds
  <2>2. scanTable' \in [Nodes -> {None} \cup Entry]
    <3>1. scanTable' = [scanTable EXCEPT ![n] = [scanTable[n] EXCEPT !.tcp = None]]
      BY <1>6 DEF ProbeEnds
    <3> QED  BY <1>1, <1>3, <1>6, <3>1 DEF ProbeEnds, OthersTyped
  <2>3. events' \in Nat
    BY <1>1, <1>6 DEF ProbeEnds, Happens, Usual, OthersTyped
  <2> QED  BY <1>1, <1>6, <2>1, <2>2, <2>3 DEF ProbeEnds, OthersTyped, world
<1> QED  BY <1>4, <1>5, <1>6

LEMMA LateLeads ==
    ASSUME IInv, LateAnswer \/ LateEnd
    PROVE  Steps(Manager, Manager') /\ OthersTyped'
<1>1. Right(Manager) /\ OthersTyped
  BY InvariantGives
<1>2. CASE LateAnswer
  <2>1. PICK p \in probes :
           /\ Room(p.node, p.host)
           /\ probes' = probes \ {p}
           /\ shown' = IF p.shows THEN shown \cup {p.node} ELSE shown
           /\ ManagerIs(Start(Manager, p.node, p.host))
           /\ UNCHANGED <<scanTable, world, events>>
    BY <1>2 DEF LateAnswer
  <2>2. p.node \in Nodes /\ p.host \in Hosts \cup {Cira}
    BY <1>1 DEF OthersTyped, Probe
  <2>3. Steps(Manager, Manager')
    BY <1>1, <2>1, <2>2, StartLeads
  <2> QED  BY <1>1, <2>1, <2>2, <2>3 DEF OthersTyped, world
<1>3. CASE LateEnd
  <2>1. Steps(Manager, Manager')
    BY <1>1, <1>3, ManagerStays DEF LateEnd
  <2>2. events' \in Nat
    BY <1>1, <1>3 DEF LateEnd, Happens, Usual, OthersTyped
  <2> QED  BY <1>1, <1>3, <2>1, <2>2 DEF LateEnd, OthersTyped, world
<1> QED  BY <1>2, <1>3

LEMMA CiraLeads ==
    ASSUME IInv, NEW n \in Nodes, CiraComes(n) \/ CiraIsUp(n) \/ CiraGoes(n)
    PROVE  Steps(Manager, Manager') /\ OthersTyped'
<1>1. Right(Manager) /\ OthersTyped
  BY InvariantGives
<1>2. Happens => events' \in Nat
  BY <1>1 DEF Happens, OthersTyped
<1>3. CASE CiraComes(n)
  <2>1. Steps(Manager, Manager')
    BY <1>1, <1>3, ManagerStays DEF CiraComes
  <2> QED  BY <1>1, <1>2, <1>3, <2>1 DEF CiraComes, OthersTyped, scanner
<1>4. CASE CiraIsUp(n)
  <2>1. Steps(Manager, Manager')
    BY <1>1, <1>4, StartLeads DEF CiraIsUp
  <2> QED  BY <1>1, <1>4, <2>1 DEF CiraIsUp, OthersTyped, scanner
<1>5. CASE CiraGoes(n)
  <2>1. Steps(Manager, Stop(Manager, n, Cira))
    BY <1>1, StopStep DEF Steps, Follows
  <2>2. Steps(Manager, Manager')
    BY <1>5, <2>1, ManagerBecomes DEF CiraGoes
  <2> QED  BY <1>1, <1>5, <2>2 DEF CiraGoes, OthersTyped, scanner
<1> QED  BY <1>3, <1>4, <1>5

LEMMA RemoveLeads ==
    ASSUME IInv, NEW n \in Nodes, RemoveNode(n)
    PROVE  Steps(Manager, Manager') /\ OthersTyped'
<1>1. Right(Manager) /\ OthersTyped
  BY InvariantGives
<1>2. Steps(Manager, Manager')
  <2>1. Steps(Manager, RemoveAll(Manager, n))
    BY <1>1, RemoveAllStep DEF Steps
  <2> QED  BY <2>1, ManagerBecomes DEF RemoveNode
<1>3. events' \in Nat
  BY <1>1 DEF RemoveNode, Happens, OthersTyped
<1> QED  BY <1>1, <1>2, <1>3 DEF RemoveNode, OthersTyped, scanner

LEMMA ChangeLeads ==
    ASSUME IInv, NEW n \in Nodes, NEW h \in Hosts, NEW amtchange \in BOOLEAN,
           ChangeNode(n, h, amtchange)
    PROVE  Steps(Manager, Manager') /\ OthersTyped'
<1>1. Right(Manager) /\ OthersTyped
  BY InvariantGives
<1>2. Steps(Manager, Manager')
  <2>1. Steps(Manager, Moved(Manager, n, h))
    BY <1>1, MovedStep DEF Steps, After, Follows
  <2> QED  BY <2>1, ManagerBecomes DEF ChangeNode
<1>3. probes' \subseteq Probe
  <2>1. [node |-> n, to |-> h, host |-> h, shows |-> FALSE] \in Probe
    BY DEF Probe
  <2>2. Specific(n, h) \subseteq Probe
    BY <2>1 DEF Specific
  <2>3. probes' \in {probes, probes \cup Specific(n, h)}
    BY DEF ChangeNode
  <2> QED  BY <1>1, <2>2, <2>3 DEF OthersTyped
<1>4. events' \in Nat
  BY <1>1 DEF ChangeNode, Happens, OthersTyped
<1> QED  BY <1>1, <1>2, <1>3, <1>4 DEF ChangeNode, OthersTyped

LEMMA FlipLeads ==
    ASSUME IInv, NEW h \in Hosts, HostFlips(h)
    PROVE  Steps(Manager, Manager') /\ OthersTyped'
<1>1. Right(Manager) /\ OthersTyped
  BY InvariantGives
<1>2. Steps(Manager, Manager')
  BY <1>1, ManagerStays DEF HostFlips
<1>3. answering' \subseteq Hosts /\ events' \in Nat
  BY <1>1 DEF HostFlips, Happens, OthersTyped
<1> QED  BY <1>1, <1>2, <1>3 DEF HostFlips, OthersTyped, scanner

\* The fields of the manager's state.
LEMMA ManagerFields ==
    /\ Manager.dev = dev /\ Manager.list = amtDevices /\ Manager.current = current
    /\ Manager.pending = pending /\ Manager.active = activeLocalConnections
BY DEF Manager

LEMMA ManagesLeads ==
    ASSUME IInv, NEW d \in Devs, Reads(d) \/ Manages(d) \/ Poll(d)
    PROVE  Steps(Manager, Manager') /\ OthersTyped'
<1>1. Right(Manager) /\ OthersTyped
  BY InvariantGives
<1>2. ASSUME UNCHANGED <<scanner, world, shown, events>>  PROVE OthersTyped'
  BY <1>1, <1>2 DEF OthersTyped, scanner, world
<1>3. CASE Reads(d)
  <2>1. PICK found \in BOOLEAN : Read(d, found)
    BY <1>3 DEF Reads
  <2>2. Steps(Manager, Contact(Manager, d)) /\ Steps(Manager, Gone(Removed(Manager, d), d))
    BY <1>1, <2>1, ReadStep, ManagerFields DEF Read
  <2>3. Steps(Manager, IF found THEN Contact(Manager, d) ELSE Gone(Removed(Manager, d), d))
    BY <2>2
  <2>4. Steps(Manager, Manager')
    BY <2>1, <2>3, ManagerBecomes DEF Read
  <2> QED  BY <1>2, <1>3, <2>4 DEF Reads
<1>4. CASE Manages(d)
  <2> SUFFICES Steps(Manager, Manager')
    BY <1>2, <1>4 DEF Manages
  <2>1. CASE TryAgain(d)
    <3>1. Steps(Manager, IF amtDevices[dev[d].node] # <<>> THEN Contact(Manager, d)
                         ELSE Gone(Manager, d))
      BY <1>1, <2>1, TryAgainStep, ManagerFields DEF TryAgain
    <3> QED  BY <2>1, <3>1, ManagerBecomes DEF TryAgain
  <2>2. CASE ResponseIgnored(d)
    <3>1. Steps(Manager, Gone(Answered(Manager, d), d))
      BY <1>1, <2>2, IgnoredStep, ManagerFields DEF ResponseIgnored, InContact
    <3> QED  BY <2>2, <3>1, ManagerBecomes DEF ResponseIgnored
  <2>3. CASE Contacted(d)
    <3>1. Steps(Manager, Phase(Answered(Manager, d), d,
                               IF dev[d].calls > 0 THEN "tls" ELSE "sync"))
      BY <1>1, <2>3, ContactedStep, ManagerFields DEF Contacted, InContact
    <3> QED  BY <2>3, <3>1, ManagerBecomes DEF Contacted
  <2>4. CASE BadCredentials(d)
    <3>1. InContact(Manager, d) /\ IsAmtDeviceValid(Manager, d)
      BY <2>4, ManagerFields DEF BadCredentials, InContact
    <3>2. CASE dev[d].acctry > 1
      <4>1. Steps(Manager, [Phase(Answered(Manager, d), d, "wait") EXCEPT !.dev[d].acctry = @ - 1])
        BY <1>1, <3>1, <3>2, WaitStep, ManagerFields
      <4> QED  BY <2>4, <3>2, <4>1, ManagerBecomes DEF BadCredentials
    <3>3. CASE ~(dev[d].acctry > 1)
      <4>1. Steps(Manager, Removed(Answered(Manager, d), d))
        BY <1>1, <3>1, FailedStep
      <4> QED  BY <2>4, <3>3, <4>1, ManagerBecomes DEF BadCredentials
    <3> QED  BY <3>2, <3>3
  <2>5. CASE TlsAnswered(d)
    <3> DEFINE k == [Manager EXCEPT !.dev[d].calls = @ - 1]
    <3>1. Steps(Manager, IF dev[d].calls = 1 THEN Phase(k, d, "commit") ELSE k)
      BY <1>1, <2>5, TlsStep, ManagerFields DEF TlsAnswered
    <3> QED  BY <2>5, <3>1, ManagerBecomes DEF TlsAnswered
  <2>6. CASE Committed(d) \/ NextCredentials(d)
    <3>1. Steps(Manager, Contact(Manager, d))
      BY <1>1, <2>6, ContactStep, ManagerFields DEF Committed, NextCredentials, Steps
    <3> QED  BY <2>6, <3>1, ManagerBecomes DEF Committed, NextCredentials
  <2>7. CASE Done(d)
    <3>1. Steps(Manager, Phase(Completed(Manager, d), d, "done"))
      BY <1>1, <2>7, DoneStep, ManagerFields DEF Done
    <3> QED  BY <2>7, <3>1, ManagerBecomes DEF Done
  <2>8. CASE ContactFails(d)
    <3>1. Steps(Manager, Removed(Answered(Manager, d), d))
      BY <1>1, <2>8, FailedStep, ManagerFields DEF ContactFails, InContact
    <3> QED  BY <2>8, <3>1, ManagerBecomes DEF ContactFails
  <2>9. CASE SetupFails(d)
    <3>1. Steps(Manager, Removed(Manager, d))
      BY <1>1, AnyRemoved DEF Steps, Follows
    <3> QED  BY <2>9, <3>1, ManagerBecomes DEF SetupFails
  <2> QED  BY <1>4, <2>1, <2>2, <2>3, <2>4, <2>5, <2>6, <2>7, <2>8, <2>9 DEF Manages
<1>5. CASE Poll(d)
  <2>1. Steps(Manager, Manager')
    BY <1>1, <1>5, ManagerStays DEF Poll
  <2>2. dev[d].node \in Nodes
    BY <1>1, <1>5, ObjectFields, ManagerFields DEF Poll, Right, Sound
  <2> QED  BY <1>1, <1>5, <2>1, <2>2 DEF Poll, OthersTyped, scanner, world
<1> QED  BY <1>3, <1>4, <1>5

LEMMA NextLeads ==
    ASSUME IInv, [Next]_vars
    PROVE  Steps(Manager, Manager') /\ OthersTyped'
<1>1. CASE PerformScan
  BY <1>1, PerformScanLeads
<1>2. ASSUME NEW n \in Nodes, Pong(n) \/ ProbeAnswered(n) \/ ProbeEnds(n)
      PROVE  Steps(Manager, Manager') /\ OthersTyped'
  BY <1>2, ScanLeads
<1>3. CASE LateAnswer \/ LateEnd
  BY <1>3, LateLeads
<1>4. ASSUME NEW d \in Devs, Reads(d) \/ Manages(d) \/ Poll(d)
      PROVE  Steps(Manager, Manager') /\ OthersTyped'
  BY <1>4, ManagesLeads
<1>6. CASE UNCHANGED vars
  <2>1. Right(Manager) /\ OthersTyped
    BY InvariantGives
  <2>2. Steps(Manager, Manager')
    BY <1>6, <2>1, ManagerStays DEF vars
  <2> QED  BY <1>6, <2>1, <2>2 DEF OthersTyped, vars, scanner, world
<1>7. ASSUME NEW n \in Nodes, CiraComes(n) \/ CiraIsUp(n) \/ CiraGoes(n)
      PROVE  Steps(Manager, Manager') /\ OthersTyped'
  BY <1>7, CiraLeads
<1>8. ASSUME NEW n \in Nodes, RemoveNode(n)
      PROVE  Steps(Manager, Manager') /\ OthersTyped'
  BY <1>8, RemoveLeads
<1>9. ASSUME NEW n \in Nodes, NEW h \in Hosts, NEW amtchange \in BOOLEAN,
             ChangeNode(n, h, amtchange)
      PROVE  Steps(Manager, Manager') /\ OthersTyped'
  BY <1>9, ChangeLeads
<1>10. ASSUME NEW h \in Hosts, HostFlips(h)
       PROVE  Steps(Manager, Manager') /\ OthersTyped'
  BY <1>10, FlipLeads
<1> QED  BY <1>1, <1>2, <1>3, <1>4, <1>6, <1>7, <1>8, <1>9, <1>10, Zenon DEF Next

-----------------------------------------------------------------------------
(***************************************************************************)
(* The theorems.                                                           *)
(***************************************************************************)

\* What an inductive invariant has to be.
LEMMA InvariantSteps == IInv /\ [Next]_vars => IInv'
<1>1. Right(Manager) /\ OthersTyped => IInv
  BY InvariantIs
<1>2. IInv /\ [Next]_vars => Right(Manager)' /\ OthersTyped'
  <2> SUFFICES ASSUME IInv, [Next]_vars  PROVE Right(Manager)' /\ OthersTyped'
    OBVIOUS
  <2>1. Steps(Manager, Manager') /\ OthersTyped'
    BY NextLeads
  <2> QED  BY <2>1 DEF Steps
<1> QED  BY <1>1, <1>2, PTL

THEOREM Invariance == Spec => []IInv
BY InitRight, InvariantSteps, PTL DEF Spec

\* Whatever happens to devices, hosts and connections, the objects of the managed
\* devices, the lists, the queue of the limiter and the scan table of amtmanager.js
\* and amtscanner.js have their types.
THEOREM TypeCorrect == Spec => []TypeOK
<1>1. IInv => TypeOK
  BY DEF IInv
<1> QED  BY <1>1, Invariance, PTL

\* activeLocalConnections (amtmanager.js): with any number of devices that share
\* addresses, a host is in one first contact at a time and marked as in one.
THEOREM FirstContactsAreAlone == Spec => []ContactsAlone
<1>1. IInv => ContactsAlone
  BY ManagerFields DEF IInv, Right, Sound, Alone, InContact, ContactsAlone
<1> QED  BY <1>1, Invariance, PTL

\* removeAmtDevice, removeDevice and the limiter's completed: no step leaves or puts
\* into a slot a device that is not managed or done, other than one that left
\* beside a device whose TLS was being set up.
THEOREM SlotsComeFree == Spec => SlotsAreFreed
<1>1. ASSUME IInv, [Next]_vars
      PROVE  [\A d \in current' :
                 \/ IsAmtDeviceValid(Manager, d)' /\ dev'[d].phase # "done"
                 \/ ~IsAmtDeviceValid(Manager, d) /\ d \in current
                 \/ IsAmtDeviceValid(Manager, d) /\ Beside(d)]_manager
  <2> DEFINE r == Manager'
  <2>1. Right(r) /\ SlotsFollow(Manager, r)
    BY <1>1, NextLeads DEF Steps
  <2>2. r.current = current' /\ r.dev = dev'
    BY DEF Manager
  <2>3. \A d : IsAmtDeviceValid(r, d) <=> IsAmtDeviceValid(Manager, d)'
    OBVIOUS
  <2>4. SlotsRight(r)
    BY <2>1 DEF Right, Sound
  <2> HIDE DEF r
  <2>5. ASSUME NEW d \in current'
        PROVE  \/ IsAmtDeviceValid(Manager, d)' /\ dev'[d].phase # "done"
               \/ ~IsAmtDeviceValid(Manager, d) /\ d \in current
               \/ IsAmtDeviceValid(Manager, d) /\ Beside(d)
    <3>1. CASE IsAmtDeviceValid(r, d)
      BY <2>2, <2>3, <2>4, <3>1 DEF SlotsRight
    <3>2. CASE ~IsAmtDeviceValid(Manager, d) /\ d \in Manager.current
      BY <3>2, ManagerFields
    <3>3. CASE IsAmtDeviceValid(Manager, d) /\ LeavesBeside(Manager, r, d)
      BY <2>3, <3>3, ManagerFields DEF LeavesBeside, Beside
    <3> QED  BY <2>1, <2>2, <3>1, <3>2, <3>3 DEF SlotsFollow
  <2> QED  BY <2>5
<1> QED  BY <1>1, Invariance, PTL DEF Spec, SlotsAreFreed
=============================================================================
