----------------------- MODULE DesktopMultiplexProofs -----------------------
(***************************************************************************)
(* Proofs about DesktopMultiplex for any viewers, screens, images and      *)
(* traffic: the list of images and the count of slow viewers are right,    *)
(* and every viewer can catch up with the screen.  The list is walked, and *)
(* painted, by recursion, and the images that a tile hides are taken out   *)
(* in an order the code does not fix; what these compute is proved by      *)
(* induction over numbers, and over the subsets of a finite set, in the    *)
(* form of a set that is shown to hold all of them.                        *)
(***************************************************************************)
EXTENDS DesktopMultiplex, FiniteSetTheorems, WellFoundedInduction, TLAPS

Seqs == INSTANCE SequenceTheorems

\* Images fill the tiles they touch, or have no whole number of tiles.  An image
\* that covers parts of its tiles only, but of a whole number of tiles by area, has
\* a count that is not that of the tiles that show it, and the list goes wrong.
WholeTiles == \A r \in Rects : r.area \in {0, Cardinality(r.tiles)}

\* k comes after i in the order of D; 0 comes after the last.
Follows(D, i, k) ==
    \/ k \in D /\ i < k /\ \A j \in D : i < j => k <= j
    \/ k = 0 /\ \A j \in D : j <= i

\* k comes before i in the order of D; 0 comes before the first.
Precedes(D, i, k) ==
    \/ k \in D /\ k < i /\ \A j \in D : j < i => j <= k
    \/ k = 0 /\ \A j \in D : i <= j

\* The list im of the images D is the one in the order in which they came.
Linked(D, im, first, last) ==
    /\ \A i \in D : Follows(D, i, im[i].next) /\ Precedes(D, i, im[i].prev)
    /\ Follows(D, 0, first)
    /\ \/ last \in D /\ \A j \in D : j <= last
       \/ last = 0 /\ D = {}

\* The images but the first one have counts, of the tiles that show them.
Counting ==
    /\ DOMAIN imagesCounters = DOMAIN images \ {firstData}
    /\ \A i \in DOMAIN imagesCounters :
          imagesCounters[i] > 0 =>
          imagesCounters[i] = Cardinality({c \in Tiles : screen[c] = i})

\* The screen shows the last image of every tile, and images that are in the list.
Shown ==
    \A c \in Tiles :
        /\ screen[c] # 0 =>
              /\ screen[c] \in DOMAIN images \ {firstData}
              /\ c \in images[screen[c]].tiles
        /\ \A i \in DOMAIN images : c \in images[i].tiles => i <= screen[c]

\* Viewers are at images of the list; those that left are forgotten.
Placed ==
    \A v \in Viewers :
        /\ dataPtr[v] \in DOMAIN images \cup {0}
        /\ v \notin Present => dataPtr[v] = 0 /\ canvas[v] = Blank

\* A viewer with canvas cv at image p comes to see the screen: it begins anew, or
\* every tile that differs is painted again.
Catches(cv, p) ==
    \/ p # 0 /\ p = firstData
    \/ \A c \in Tiles :
          \/ cv[c] = screen[c]
          \/ p # 0 /\ \E i \in DOMAIN images : p <= i /\ c \in images[i].tiles

\* All viewers come to see the screen.
CatchingUp == \A v \in Present : Catches(canvas[v], dataPtr[v])

\* There are as many images as commands of the agent, at most.
Bounded == counter + Len(writes) <= sent + 1 /\ DOMAIN images \subseteq 1..counter

\* The inductive invariant.  What the recursion over the list says is said here of
\* each image and its neighbours, so that a step that changes a few images changes
\* a few facts.
IInv ==
    /\ TypeOK /\ Bounded
    /\ Linked(DOMAIN images, images, firstData, lastData)
    /\ Counting /\ Shown /\ Placed /\ CatchingUp /\ SlowAreCounted

-----------------------------------------------------------------------------
(***************************************************************************)
(* Induction.                                                              *)
(***************************************************************************)

\* A set of numbers has a least one.
LEMMA LeastOfNat ==
    ASSUME NEW T \in SUBSET Nat, T # {}
    PROVE  \E x \in T : \A y \in T : x <= y
<1> DEFINE TT == {0..n : n \in T}
<1>1. IsWellFoundedOn(StrictSubsetOrdering(Nat), FiniteSubsetsOf(Nat))
  BY FS_StrictSubsetOrderingWellFounded
<1>2. TT \subseteq FiniteSubsetsOf(Nat)
  <2>1. \A n \in T : IsFiniteSet(0..n) /\ 0..n \subseteq Nat
    BY FS_Interval
  <2> QED  BY <2>1 DEF FiniteSubsetsOf
<1>3. TT # {}
  OBVIOUS
<1>4. PICK X \in TT : \A Y \in TT : ~(<<Y, X>> \in StrictSubsetOrdering(Nat))
  <2> HIDE DEF TT
  <2> QED  BY <1>1, <1>2, <1>3, WFMin
<1>5. PICK x \in T : X = 0..x
  OBVIOUS
<1>6. ASSUME NEW y \in T, y < x  PROVE FALSE
  <2>1. 0..y \in TT /\ 0..y \subseteq 0..x /\ 0..y # 0..x
    BY <1>6
  <2>2. <<0..y, X>> \in StrictSubsetOrdering(Nat)
    BY <2>1, <1>5 DEF StrictSubsetOrdering
  <2> QED  BY <1>4, <2>1, <2>2
<1> QED  BY <1>6

\* A set that has 0, and with a number the next one, has every number.
LEMMA SetInduction ==
    ASSUME NEW S, 0 \in S, \A n \in Nat : n \in S => n + 1 \in S
    PROVE  Nat \subseteq S
<1> DEFINE T == Nat \ S
<1>1. CASE T = {}
  BY <1>1
<1>2. CASE T # {}
  <2>1. PICK x \in T : \A y \in T : x <= y
    BY <1>2, LeastOfNat
  <2>2. x # 0
    BY <2>1
  <2>3. x - 1 \in Nat /\ x - 1 \notin T
    BY <2>1, <2>2
  <2> QED  BY <2>1, <2>3
<1> QED  BY <1>1, <1>2

\* Iteration: from x, by one function after the other.
Iterates(f, n, X, x, step) ==
    /\ f[0] = x /\ \A i \in 0..n : f[i] \in X
    /\ \A i \in 1..n : f[i] = step[i][f[i - 1]]

\* There is such a function.
LEMMA IterationExists ==
    ASSUME NEW n \in Nat, NEW X, NEW x \in X, NEW step, \A i \in 1..n : step[i] \in [X -> X]
    PROVE  \E f : Iterates(f, n, X, x, step)
<1> DEFINE Runs(f, k) == Iterates(f, k, X, x, step)
           S == {k \in Nat : k <= n => \E f : Runs(f, k)}
<1>1. 0 \in S
  <2>1. Runs([i \in {0} |-> x], 0)
    BY DEF Iterates
  <2> HIDE DEF Runs
  <2> QED  BY <2>1
<1>2. ASSUME NEW k \in Nat, k \in S  PROVE k + 1 \in S
  <2> SUFFICES ASSUME k + 1 <= n  PROVE \E f : Runs(f, k + 1)
    OBVIOUS
  <2>1. PICK f : Runs(f, k)
    <3> HIDE DEF Runs
    <3> QED  BY <1>2
  <2> DEFINE g == [i \in 0..(k + 1) |-> IF i <= k THEN f[i] ELSE step[k + 1][f[k]]]
  <2>2. step[k + 1] \in [X -> X] /\ f[k] \in X
    BY <2>1 DEF Iterates
  <2>3. g[k + 1] = step[k + 1][f[k]] /\ \A i \in 0..k : g[i] = f[i]
    OBVIOUS
  <2> HIDE DEF g
  <2>4. \A i \in 0..(k + 1) : g[i] \in X
    <3>1. \A i \in 0..(k + 1) : i = k + 1 \/ i \in 0..k
      OBVIOUS
    <3>2. g[k + 1] \in X
      BY <2>2, <2>3
    <3> QED  BY <2>1, <2>3, <3>1, <3>2 DEF Iterates
  <2>5. ASSUME NEW i \in 1..(k + 1)  PROVE g[i] = step[i][g[i - 1]]
    <3>1. CASE i \in 1..k
      <4>1. g[i] = f[i] /\ g[i - 1] = f[i - 1]
        BY <2>3, <3>1
      <4> QED  BY <2>1, <3>1, <4>1 DEF Iterates
    <3>2. CASE i = k + 1
      <4>1. i - 1 = k /\ g[k] = f[k]
        BY <2>3, <3>2
      <4> QED  BY <2>3, <3>2, <4>1
    <3> QED  BY <3>1, <3>2
  <2>6. g[0] = x
    BY <2>1, <2>3 DEF Iterates
  <2>7. Runs(g, k + 1)
    BY <2>4, <2>5, <2>6 DEF Iterates
  <2> HIDE DEF Runs
  <2> QED  BY <2>7
<1> HIDE DEF S
<1>3. n \in S
  BY <1>1, <1>2, SetInduction
<1> QED  BY <1>3 DEF S

\* Two functions that agree at 0, and at a number when they agree before it.
LEMMA Agreeing ==
    ASSUME NEW n \in Nat, NEW f, NEW g, f[0] = g[0],
           \A i \in 1..n : f[i - 1] = g[i - 1] => f[i] = g[i]
    PROVE  \A i \in 0..n : f[i] = g[i]
<1> DEFINE S == {k \in Nat : k <= n => f[k] = g[k]}
<1>1. 0 \in S
  OBVIOUS
<1>2. ASSUME NEW k \in Nat, k \in S  PROVE k + 1 \in S
  <2> SUFFICES ASSUME k + 1 <= n  PROVE f[k + 1] = g[k + 1]
    OBVIOUS
  <2>1. f[k] = g[k] /\ (k + 1) - 1 = k /\ k + 1 \in 1..n
    BY <1>2
  <2> QED  BY <2>1
<1> HIDE DEF S
<1>3. Nat \subseteq S
  BY <1>1, <1>2, SetInduction
<1> QED  BY <1>3 DEF S


\* A finite set of numbers has a greatest one.
LEMMA GreatestOfNat ==
    ASSUME NEW T, T \subseteq Nat, T # {}, NEW n \in Nat, \A x \in T : x <= n
    PROVE  \E x \in T : \A y \in T : y <= x
<1> DEFINE U == {n - x : x \in T}
<1>1. U \subseteq Nat /\ U # {}
  <2>1. \A x \in T : x \in Nat /\ n - x \in Nat
    OBVIOUS
  <2> QED  BY <2>1
<1>2. PICK u \in U : \A w \in U : u <= w
  BY <1>1, LeastOfNat
<1>3. PICK x \in T : u = n - x
  OBVIOUS
<1>4. ASSUME NEW y \in T  PROVE y <= x
  <2>1. n - y \in U
    OBVIOUS
  <2>2. n - x <= n - y
    BY <1>2, <1>3, <2>1
  <2> QED  BY <2>2
<1> QED  BY <1>4

\* Two functions of the subsets of a finite set agree on it if they agree on the empty
\* set, and on a set when they do without some element of it.
LEMMA SubsetsAgree ==
    ASSUME NEW H, IsFiniteSet(H), NEW f, NEW g, f[{}] = g[{}],
           \A s \in SUBSET H : s # {} =>
              \E x \in s : f[s \ {x}] = g[s \ {x}] => f[s] = g[s]
    PROVE  f[H] = g[H]
<1> DEFINE S == {k \in Nat : \A s \in SUBSET H : Cardinality(s) = k => f[s] = g[s]}
<1>1. \A s \in SUBSET H : IsFiniteSet(s) /\ Cardinality(s) \in Nat
  BY FS_Subset, FS_CardinalityType
<1>2. 0 \in S
  <2>1. \A s \in SUBSET H : Cardinality(s) = 0 => s = {}
    BY <1>1, FS_EmptySet
  <2> QED  BY <2>1
<1>3. ASSUME NEW k \in Nat, k \in S  PROVE k + 1 \in S
  <2> SUFFICES ASSUME NEW s \in SUBSET H, Cardinality(s) = k + 1
               PROVE  f[s] = g[s]
    OBVIOUS
  <2>1. s # {}
    BY FS_EmptySet
  <2>2. PICK x \in s : f[s \ {x}] = g[s \ {x}] => f[s] = g[s]
    BY <2>1
  <2>3. Cardinality(s \ {x}) = k
    BY <1>1, FS_RemoveElement
  <2>4. s \ {x} \in SUBSET H
    OBVIOUS
  <2>5. f[s \ {x}] = g[s \ {x}]
    BY <1>3, <2>3, <2>4
  <2> QED  BY <2>2, <2>5
<1> HIDE DEF S
<1>4. Cardinality(H) \in S
  BY <1>1, <1>2, <1>3, SetInduction
<1> QED  BY <1>4 DEF S

-----------------------------------------------------------------------------
(***************************************************************************)
(* What follows and what precedes a number in a set of numbers.            *)
(***************************************************************************)

\* The neighbours of i in D.
After(D, i) == CHOOSE k : Follows(D, i, k)
Before(D, i) == CHOOSE k : Precedes(D, i, k)

\* The next number exists.
LEMMA AfterFollows ==
    ASSUME NEW D, \A d \in D : d \in Nat, NEW i \in Nat
    PROVE  Follows(D, i, After(D, i)) /\ After(D, i) \in Nat
<1> DEFINE T == {j \in D : i < j}
<1>1. \E k : Follows(D, i, k)
  <2>1. CASE T = {}
    <3>1. Follows(D, i, 0)
      BY <2>1 DEF Follows
    <3> QED  BY <3>1
  <2>2. CASE T # {}
    <3>1. T \subseteq Nat
      OBVIOUS
    <3>2. PICK k \in T : \A j \in T : k <= j
      BY <2>2, <3>1, LeastOfNat
    <3>3. Follows(D, i, k)
      BY <3>2 DEF Follows
    <3> QED  BY <3>3
  <2> QED  BY <2>1, <2>2
<1>2. Follows(D, i, After(D, i))
  BY <1>1 DEF After
<1>3. After(D, i) \in D \/ After(D, i) = 0
  BY <1>2, Zenon DEF Follows
<1> QED  BY <1>2, <1>3

\* The number before exists.
LEMMA BeforePrecedes ==
    ASSUME NEW D, \A d \in D : d \in Nat, NEW i \in Nat
    PROVE  Precedes(D, i, Before(D, i)) /\ Before(D, i) \in Nat
<1> DEFINE T == {j \in D : j < i}
<1>1. \E k : Precedes(D, i, k)
  <2>1. CASE T = {}
    <3>1. Precedes(D, i, 0)
      BY <2>1 DEF Precedes
    <3> QED  BY <3>1
  <2>2. CASE T # {}
    <3>0. \A j \in T : j \in Nat /\ j < i
      OBVIOUS
    <3>1. T \subseteq Nat /\ \A j \in T : j <= i
      <4>1. \A j \in T : j <= i
        BY <3>0
      <4> QED  BY <3>0, <4>1
    <3>2. PICK k \in T : \A j \in T : j <= k
      BY <2>2, <3>1, GreatestOfNat
    <3>3. Precedes(D, i, k)
      BY <3>2 DEF Precedes
    <3> QED  BY <3>3
  <2> QED  BY <2>1, <2>2
<1>2. Precedes(D, i, Before(D, i))
  BY <1>1 DEF Before
<1>3. Before(D, i) \in D \/ Before(D, i) = 0
  BY <1>2, Zenon DEF Precedes
<1> QED  BY <1>2, <1>3

\* Only one number comes after i.
LEMMA FollowsOne ==
    ASSUME NEW D, \A d \in D : d \in Nat, 0 \notin D, NEW i \in Nat, NEW k, Follows(D, i, k)
    PROVE  After(D, i) = k
<1>1. Follows(D, i, After(D, i)) /\ After(D, i) \in Nat
  BY AfterFollows
<1>2. k \in Nat
  <2>1. k \in D \/ k = 0
    BY Zenon DEF Follows
  <2> QED  BY <2>1
<1> QED  BY <1>1, <1>2 DEF Follows

\* Only one number comes before i.
LEMMA PrecedesOne ==
    ASSUME NEW D, \A d \in D : d \in Nat, 0 \notin D, NEW i \in Nat, NEW k, Precedes(D, i, k)
    PROVE  Before(D, i) = k
<1>1. Precedes(D, i, Before(D, i)) /\ Before(D, i) \in Nat
  BY BeforePrecedes
<1>2. k \in Nat
  <2>1. k \in D \/ k = 0
    BY Zenon DEF Precedes
  <2> QED  BY <2>1
<1> QED  BY <1>1, <1>2 DEF Precedes

\* The neighbours of a number that has both.
LEMMA Neighbours ==
    ASSUME NEW D, \A d \in D : d \in Nat, 0 \notin D, NEW x \in D,
           NEW a \in D, a < x, NEW b \in D, x < b
    PROVE  /\ Before(D, x) \in D /\ Before(D, x) < x
           /\ After(D, x) \in D /\ x < After(D, x)
           /\ \A i \in D : i < x => i <= Before(D, x)
           /\ \A i \in D : x < i => After(D, x) <= i
<1>1. /\ Follows(D, x, After(D, x)) /\ After(D, x) \in Nat
      /\ Precedes(D, x, Before(D, x)) /\ Before(D, x) \in Nat
  BY AfterFollows, BeforePrecedes
<1> QED  BY <1>1 DEF Follows, Precedes

\* What follows i when x is taken out.
LEMMA AfterWithout ==
    ASSUME NEW D, \A d \in D : d \in Nat, 0 \notin D, NEW x \in D, NEW i \in Nat, i # x
    PROVE  After(D \ {x}, i) = IF After(D, i) = x THEN After(D, x) ELSE After(D, i)
<1> DEFINE k == IF After(D, i) = x THEN After(D, x) ELSE After(D, i)
<1>1. /\ Follows(D, i, After(D, i)) /\ After(D, i) \in Nat
      /\ Follows(D, x, After(D, x)) /\ After(D, x) \in Nat
  BY AfterFollows
<1>2. Follows(D \ {x}, i, k)
  <2>1. CASE After(D, i) = x
    BY <1>1, <2>1 DEF Follows
  <2>2. CASE After(D, i) # x
    BY <1>1, <2>2 DEF Follows
  <2> QED  BY <2>1, <2>2
<1> HIDE DEF k
<1>3. After(D \ {x}, i) = k
  BY <1>2, FollowsOne
<1> QED  BY <1>3 DEF k

\* What precedes i when x is taken out.
LEMMA BeforeWithout ==
    ASSUME NEW D, \A d \in D : d \in Nat, 0 \notin D, NEW x \in D, NEW i \in Nat, i # x
    PROVE  Before(D \ {x}, i) = IF Before(D, i) = x THEN Before(D, x) ELSE Before(D, i)
<1> DEFINE k == IF Before(D, i) = x THEN Before(D, x) ELSE Before(D, i)
<1>1. /\ Precedes(D, i, Before(D, i)) /\ Before(D, i) \in Nat
      /\ Precedes(D, x, Before(D, x)) /\ Before(D, x) \in Nat
  BY BeforePrecedes
<1>2. Precedes(D \ {x}, i, k)
  <2>1. CASE Before(D, i) = x
    BY <1>1, <2>1 DEF Precedes
  <2>2. CASE Before(D, i) # x
    BY <1>1, <2>2 DEF Precedes
  <2> QED  BY <2>1, <2>2
<1> HIDE DEF k
<1>3. Before(D \ {x}, i) = k
  BY <1>2, PrecedesOne
<1> QED  BY <1>3 DEF k

\* Two numbers follow and precede each other.
LEMMA AfterBefore ==
    ASSUME NEW D, \A d \in D : d \in Nat, 0 \notin D, NEW i \in D, NEW x \in D
    PROVE  After(D, i) = x <=> Before(D, x) = i
<1>1. /\ Follows(D, i, After(D, i)) /\ After(D, i) \in Nat
      /\ Precedes(D, x, Before(D, x)) /\ Before(D, x) \in Nat
  BY AfterFollows, BeforePrecedes
<1> QED  BY <1>1 DEF Follows, Precedes

-----------------------------------------------------------------------------
(***************************************************************************)
(* What the fold of Unlink leaves: the images that were not taken out,     *)
(* linked in the same order, and the viewers at the next one of these.     *)
(***************************************************************************)

\* The list without the images H, and where the viewers are then.
Rest(D, im, ptr, H) ==
    [images |-> [i \in D \ H |-> [prev |-> Before(D \ H, i), next |-> After(D \ H, i),
                                  tiles |-> im[i].tiles]],
     ptr |-> [v \in Viewers |-> IF ptr[v] \in H THEN After(D \ H, ptr[v]) ELSE ptr[v]]]

\* Unlink takes one image more out of a list in order.
LEMMA UnlinkRest ==
    ASSUME NEW D, \A d \in D : d \in Nat, 0 \notin D, NEW im, NEW ptr,
           NEW H \in SUBSET D, NEW x \in H,
           NEW a \in D \ H, \A d \in H : a < d, NEW b \in D \ H, \A d \in H : d < b
    PROVE  Unlink(x, Rest(D, im, ptr, H \ {x})) = Rest(D, im, ptr, H)
<1> DEFINE E == D \ (H \ {x})
           s == Rest(D, im, ptr, H \ {x})
           p == Before(E, x)
           q == After(E, x)
<1>1. /\ x \in E /\ D \ H = E \ {x} /\ a \in E /\ b \in E
      /\ \A d \in E : d \in Nat
      /\ 0 \notin E /\ \A d \in H : d \in Nat
  OBVIOUS
<1>2. /\ p \in E /\ p < x /\ q \in E /\ x < q /\ p \in Nat /\ q \in Nat /\ x \in Nat
  <2>1. a < x /\ x < b
    OBVIOUS
  <2> HIDE DEF E
  <2> QED  BY <1>1, <2>1, Neighbours
<1>3. s.images[x].prev = p /\ s.images[x].next = q
  BY <1>1 DEF Rest
<1>4. s.images = [i \in E |-> [prev |-> Before(E, i), next |-> After(E, i),
                               tiles |-> im[i].tiles]]
  BY DEF Rest
<1>5. s.ptr = [v \in Viewers |->
                  IF ptr[v] \in H \ {x} THEN After(E, ptr[v]) ELSE ptr[v]]
  BY DEF Rest
<1>6. DOMAIN s.images \ {x} = D \ H
  BY <1>1, <1>4
<1> DEFINE rest == Restrict(s.images, D \ H)
           linked == [rest EXCEPT ![p].next = q, ![q].prev = p]
           moved == [v \in Viewers |-> IF s.ptr[v] = x THEN q ELSE s.ptr[v]]
<1>7. Unlink(x, s) = [images |-> linked, ptr |-> moved]
  <2> HIDE DEF s, p, q
  <2> QED  BY <1>3, <1>6 DEF Unlink
<1>8. linked = Rest(D, im, ptr, H).images
  <2> DEFINE new(i) == [prev |-> Before(E \ {x}, i), next |-> After(E \ {x}, i),
                        tiles |-> im[i].tiles]
             old(i) == [prev |-> Before(E, i), next |-> After(E, i), tiles |-> im[i].tiles]
  <2>1. Rest(D, im, ptr, H).images = [i \in E \ {x} |-> new(i)]
    BY <1>1 DEF Rest
  <2>2. rest = [i \in E \ {x} |-> old(i)]
    BY <1>1, <1>4 DEF Restrict
  <2>3. ASSUME NEW i \in E \ {x}
        PROVE  /\ After(E \ {x}, i) = IF i = p THEN q ELSE After(E, i)
               /\ Before(E \ {x}, i) = IF i = q THEN p ELSE Before(E, i)
    <3>1. i \in E /\ i \in Nat /\ i # x
      BY <1>1
    <3>2. /\ After(E, i) = x <=> i = p
          /\ Before(E, i) = x <=> i = q
      <4> HIDE DEF E
      <4>1. After(E, i) = x <=> Before(E, x) = i
        BY <1>1, <3>1, AfterBefore
      <4>2. After(E, x) = i <=> Before(E, i) = x
        BY <1>1, <3>1, AfterBefore
      <4> QED  BY <4>1, <4>2
    <3>3. /\ After(E \ {x}, i) = IF After(E, i) = x THEN After(E, x) ELSE After(E, i)
          /\ Before(E \ {x}, i) = IF Before(E, i) = x THEN Before(E, x) ELSE Before(E, i)
      <4>1. After(E \ {x}, i) = IF After(E, i) = x THEN After(E, x) ELSE After(E, i)
        <5> HIDE DEF E, p, q, s, rest, linked, moved, new, old
        <5>1. 0 \notin E /\ x \in E
          BY <1>1
        <5>2. \A d \in E : d \in Nat
          BY <1>1
        <5> QED  BY <3>1, <5>1, <5>2, AfterWithout, ZenonT(40)
      <4>2. Before(E \ {x}, i) = IF Before(E, i) = x THEN Before(E, x) ELSE Before(E, i)
        <5> HIDE DEF E, p, q, s, rest, linked, moved, new, old
        <5>1. 0 \notin E /\ x \in E
          BY <1>1
        <5>2. \A d \in E : d \in Nat
          BY <1>1
        <5> QED  BY <3>1, <5>1, <5>2, BeforeWithout, ZenonT(40)
      <4> QED  BY <4>1, <4>2
    <3> QED  BY <3>2, <3>3
  <2>4. p # q
    BY <1>2
  <2>5. linked = [i \in E \ {x} |-> new(i)]
    <3>1. ASSUME NEW i \in E \ {x}  PROVE linked[i] = new(i)
      <4> DEFINE A == Before(E, i)
                 Z == After(E, i)
                 tiles == im[i].tiles
                 half == [rest EXCEPT ![p].next = q]
      <4>1. rest[i] = [prev |-> A, next |-> Z, tiles |-> tiles] /\ DOMAIN rest = E \ {x}
        <5> HIDE DEF E, p, q
        <5> QED  BY <2>2
      <4>2. new(i) = [prev |-> IF i = q THEN p ELSE A, next |-> IF i = p THEN q ELSE Z,
                      tiles |-> tiles]
        <5> HIDE DEF E, p, q
        <5> QED  BY <2>3
      <4>3. linked = [half EXCEPT ![q].prev = p]
        OBVIOUS
      <4> HIDE DEF E, p, q, rest, A, Z, tiles, new, linked
      <4>4. DOMAIN half = E \ {x}
        BY <4>1
      <4>5. linked[i] = IF i = q THEN [half[i] EXCEPT !.prev = p] ELSE half[i]
        <5> HIDE DEF half
        <5> QED  BY <4>3, <4>4
      <4>6. half[i] = IF i = p THEN [rest[i] EXCEPT !.next = q] ELSE rest[i]
        BY <4>1
      <4> HIDE DEF half
      <4>7. CASE i = p
        <5>1. half[i] = [prev |-> A, next |-> q, tiles |-> tiles]
          BY <4>1, <4>6, <4>7
        <5> QED  BY <2>4, <4>2, <4>5, <4>7, <5>1
      <4>8. CASE i = q
        <5>1. half[i] = [prev |-> A, next |-> Z, tiles |-> tiles]
          BY <2>4, <4>1, <4>6, <4>8
        <5>2. linked[i] = [prev |-> p, next |-> Z, tiles |-> tiles]
          BY <4>5, <4>8, <5>1
        <5> QED  BY <2>4, <4>2, <4>8, <5>2
      <4>9. CASE i # p /\ i # q
        BY <4>1, <4>2, <4>5, <4>6, <4>9
      <4> QED  BY <4>7, <4>8, <4>9
    <3>2. DOMAIN linked = E \ {x} /\ linked = [i \in DOMAIN linked |-> linked[i]]
      <4> HIDE DEF E, p, q
      <4> QED  BY <2>2
    <3> HIDE DEF linked, new
    <3> QED  BY <3>1, <3>2
  <2> QED  BY <2>1, <2>5
<1>9. moved = Rest(D, im, ptr, H).ptr
  <2>1. Rest(D, im, ptr, H).ptr =
            [v \in Viewers |-> IF ptr[v] \in H THEN After(E \ {x}, ptr[v]) ELSE ptr[v]]
    BY <1>1 DEF Rest
  <2>2. ASSUME NEW v \in Viewers
        PROVE  moved[v] = IF ptr[v] \in H THEN After(E \ {x}, ptr[v]) ELSE ptr[v]
    <3>1. CASE ptr[v] = x
      <4>1. moved[v] = q
        BY <1>5, <3>1
      <4>2. Follows(E, x, q) /\ q \in Nat
        <5> HIDE DEF E
        <5> QED  BY <1>1, <1>2, AfterFollows
      <4>3. Follows(E \ {x}, x, q)
        <5> HIDE DEF E, q
        <5> QED  BY <1>1, <1>2, <4>2 DEF Follows
      <4>4. After(E \ {x}, x) = q
        <5> HIDE DEF E, q
        <5>1. \A d \in E \ {x} : d \in Nat
          BY <1>1
        <5> QED  BY <1>1, <1>2, <4>3, <5>1, FollowsOne
      <4> QED  BY <3>1, <4>1, <4>4
    <3>2. CASE ptr[v] \in H \ {x}
      <4>1. ptr[v] \in Nat /\ ptr[v] # x /\ s.ptr[v] = After(E, ptr[v])
        BY <1>1, <1>5, <3>2
      <4>2. After(E \ {x}, ptr[v])
              = IF After(E, ptr[v]) = x THEN After(E, x) ELSE After(E, ptr[v])
        <5> HIDE DEF E
        <5> QED  BY <1>1, <4>1, AfterWithout, SMTT(30)
      <4> QED  BY <3>2, <4>1, <4>2
    <3>3. CASE ptr[v] \notin H
      <4>1. s.ptr[v] = ptr[v] /\ ptr[v] # x
        BY <1>5, <3>3
      <4> QED  BY <3>3, <4>1
    <3> QED  BY <3>1, <3>2, <3>3
  <2> HIDE DEF E, q, s
  <2> QED  BY <2>1, <2>2
<1>10. Rest(D, im, ptr, H) = [images |-> Rest(D, im, ptr, H).images,
                              ptr |-> Rest(D, im, ptr, H).ptr]
  BY DEF Rest
<1> HIDE DEF s, linked, moved, p, q
<1> QED  BY <1>7, <1>8, <1>9, <1>10 DEF s

\* The order in which the images are taken out does not matter.
LEMMA FoldOfUnlink ==
    ASSUME NEW D, \A d \in D : d \in Nat, 0 \notin D, NEW im, NEW ptr,
           NEW H \in SUBSET D, IsFiniteSet(H),
           NEW a \in D \ H, \A d \in H : a < d, NEW b \in D \ H, \A d \in H : d < b
    PROVE  FoldSet(Unlink, Rest(D, im, ptr, {}), H) = Rest(D, im, ptr, H)
<1> DEFINE base == Rest(D, im, ptr, {})
           ch(s) == CHOOSE x \in s : TRUE
           Is(g) == g = [s \in SUBSET H |-> IF s = {} THEN base
                                            ELSE Unlink(ch(s), g[s \ {ch(s)}])]
           f == CHOOSE g : Is(g)
           j == [s \in SUBSET H |-> Rest(D, im, ptr, s)]
<1>1. FoldSet(Unlink, base, H) = f[H]
  BY Zenon DEF FoldSet, MapThenFoldSet
<1>2. \A s \in SUBSET H : s # {} => ch(s) \in s
  OBVIOUS
<1> HIDE DEF ch
<1>3. ASSUME NEW s \in SUBSET H, s # {}
      PROVE  Rest(D, im, ptr, s) = Unlink(ch(s), Rest(D, im, ptr, s \ {ch(s)}))
  <2>1. /\ s \in SUBSET D /\ ch(s) \in s /\ a \in D \ s /\ b \in D \ s
        /\ (\A d \in s : a < d) /\ \A d \in s : d < b
    BY <1>2, <1>3
  <2> QED  BY <2>1, UnlinkRest
<1>4. Is(j)
  <2>1. \A s \in SUBSET H : j[s] = Rest(D, im, ptr, s)
    OBVIOUS
  <2>2. ASSUME NEW s \in SUBSET H
        PROVE  j[s] = IF s = {} THEN base ELSE Unlink(ch(s), j[s \ {ch(s)}])
    <3>1. CASE s = {}
      BY <2>1, <3>1
    <3>2. CASE s # {}
      <4>1. s \ {ch(s)} \in SUBSET H
        OBVIOUS
      <4> HIDE DEF j
      <4> QED  BY <1>3, <2>1, <3>2, <4>1
    <3> QED  BY <3>1, <3>2
  <2>3. j = [s \in SUBSET H |-> j[s]]
    OBVIOUS
  <2> HIDE DEF j, base
  <2> QED  BY <2>2, <2>3
<1>5. Is(f)
  <2> HIDE DEF Is, j
  <2> QED  BY <1>4, Zenon
<1>6. f[H] = j[H]
  <2> HIDE DEF f
  <2>1. \A s \in SUBSET H : /\ f[s] = IF s = {} THEN base ELSE Unlink(ch(s), f[s \ {ch(s)}])
                            /\ j[s] = IF s = {} THEN base ELSE Unlink(ch(s), j[s \ {ch(s)}])
    <3> HIDE DEF base, j
    <3> QED  BY <1>4, <1>5
  <2> HIDE DEF j, base
  <2>2. f[{}] = j[{}]
    BY <2>1
  <2>3. \A s \in SUBSET H : s # {} =>
            \E x \in s : f[s \ {x}] = j[s \ {x}] => f[s] = j[s]
    <3> SUFFICES ASSUME NEW s \in SUBSET H, s # {}
                 PROVE  f[s \ {ch(s)}] = j[s \ {ch(s)}] => f[s] = j[s]
      BY <1>2
    <3> QED  BY <2>1
  <2> QED  BY <2>2, <2>3, SubsetsAgree
<1>7. j[H] = Rest(D, im, ptr, H)
  OBVIOUS
<1> QED  BY <1>1, <1>6, <1>7

-----------------------------------------------------------------------------
(***************************************************************************)
(* The walk along the list, and what a viewer sees at its end.             *)
(***************************************************************************)

\* A function that applies step n times to x, for every n.
LEMMA IterationForever ==
    ASSUME NEW X, NEW x \in X, NEW step \in [X -> X]
    PROVE  \E f \in [Nat -> X] :
              f[0] = x /\ \A n \in Nat : n # 0 => f[n] = step[f[n - 1]]
<1> DEFINE steps(n) == [i \in 1..n |-> step]
           Is(f, n) == Iterates(f, n, X, x, steps(n))
           g == [n \in Nat |-> CHOOSE f : Is(f, n)]
           h == [n \in Nat |-> g[n][n]]
<1>1. ASSUME NEW n \in Nat  PROVE Is(g[n], n)
  <2>1. \E f : Iterates(f, n, X, x, steps(n))
    <3>1. \A i \in 1..n : steps(n)[i] \in [X -> X]
      OBVIOUS
    <3> HIDE DEF steps
    <3> QED  BY <3>1, IterationExists
  <2>2. \E f : Is(f, n)
    BY <2>1
  <2> HIDE DEF Is
  <2> QED  BY <2>2
<1>2. ASSUME NEW n \in Nat
      PROVE  /\ g[n][0] = x /\ \A i \in 0..n : g[n][i] \in X
             /\ \A i \in 1..n : g[n][i] = step[g[n][i - 1]]
  <2> HIDE DEF g
  <2> QED  BY <1>1 DEF Iterates
<1>3. ASSUME NEW n \in Nat, n # 0  PROVE g[n][n - 1] = g[n - 1][n - 1]
  <2>0. n - 1 \in Nat /\ n \in 1..n
    BY <1>3
  <2> DEFINE a == g[n]
             b == g[n - 1]
  <2>1. a[0] = b[0]
    BY <1>2, <2>0
  <2>2. \A i \in 1..(n - 1) : a[i] = step[a[i - 1]] /\ b[i] = step[b[i - 1]]
    <3>1. \A i \in 1..(n - 1) : i \in 1..n
      BY <2>0
    <3> HIDE DEF g
    <3> QED  BY <1>2, <2>0, <3>1
  <2> HIDE DEF a, b
  <2>3. \A i \in 1..(n - 1) : a[i - 1] = b[i - 1] => a[i] = b[i]
    BY <2>2
  <2>4. \A i \in 0..(n - 1) : a[i] = b[i]
    BY <2>0, <2>1, <2>3, Agreeing
  <2>5. a[n - 1] = b[n - 1]
    BY <2>0, <2>4
  <2> QED  BY <2>5 DEF a, b
<1>4. \A n \in Nat : h[n] = g[n][n]
  OBVIOUS
<1> HIDE DEF g
<1>5. h \in [Nat -> X]
  BY <1>2
<1> HIDE DEF h
<1>6. h[0] = x
  BY <1>2, <1>4
<1>7. ASSUME NEW n \in Nat, n # 0  PROVE h[n] = step[h[n - 1]]
  <2>1. n - 1 \in Nat /\ n \in 1..n
    BY <1>7
  <2>2. g[n][n] = step[g[n][n - 1]]
    BY <1>2, <2>1
  <2> QED  BY <1>3, <1>4, <1>7, <2>1, <2>2
<1> QED  BY <1>5, <1>6, <1>7

\* s goes from image k along the list to its end.
Walk(s, k) ==
    LET D == DOMAIN images IN
    /\ s \in Seq(D)
    /\ k = 0 => s = <<>>
    /\ k # 0 => /\ s # <<>> /\ s[1] = k
                /\ \A j \in 1..(Len(s) - 1) : s[j + 1] = images[s[j]].next
                /\ images[s[Len(s)]].next = 0
    /\ \A d \in D : (\E j \in 1..Len(s) : s[j] = d) <=> (k # 0 /\ k <= d)

\* The tail of the list from its last image, and from one before it.
LEMMA WalkOne ==
    ASSUME NEW k \in DOMAIN images, DOMAIN images \subseteq Nat \ {0},
           Follows(DOMAIN images, k, images[k].next)
    PROVE  /\ images[k].next = 0 => Walk(<<k>>, k)
           /\ \A s : images[k].next # 0 /\ Walk(s, images[k].next) => Walk(<<k>> \o s, k)
<1> DEFINE D == DOMAIN images
           q == images[k].next
<1>0. k \in Nat /\ k # 0 /\ \A d \in D : d \in Nat
  OBVIOUS
<1>1. ASSUME q = 0  PROVE Walk(<<k>>, k)
  <2>1. \A d \in D : d <= k
    BY <1>0, <1>1 DEF Follows
  <2>2. \A d \in D : k <= d <=> d = k
    BY <1>0, <2>1
  <2>3. <<k>> \in Seq(D) /\ Len(<<k>>) = 1 /\ <<k>>[1] = k
    OBVIOUS
  <2> QED  BY <1>0, <1>1, <2>2, <2>3 DEF Walk
<1>2. ASSUME q # 0, NEW s, Walk(s, q)  PROVE Walk(<<k>> \o s, k)
  <2> DEFINE t == <<k>> \o s
  <2>1. q \in D /\ k < q /\ (\A j \in D : k < j => q <= j) /\ q \in Nat
    BY <1>0, <1>2 DEF Follows
  <2>2. s \in Seq(D) /\ s # <<>> /\ Len(s) \in Nat /\ Len(s) >= 1 /\ s[1] = q
    BY <1>2 DEF Walk
  <2>3. /\ t \in Seq(D) /\ Len(t) = Len(s) + 1 /\ t[1] = k
        /\ \A j \in 1..Len(s) : t[j + 1] = s[j]
    BY <2>2
  <2> HIDE DEF t
  <2>4. t # <<>>
    BY <2>3, <2>2
  <2>5. ASSUME NEW j \in 1..(Len(t) - 1)  PROVE t[j + 1] = images[t[j]].next
    <3>1. CASE j = 1
      BY <2>2, <2>3, <3>1
    <3>2. CASE j # 1
      <4>1. j - 1 \in 1..(Len(s) - 1) /\ j - 1 \in 1..Len(s) /\ j \in 1..Len(s)
            /\ (j - 1) + 1 = j
        BY <2>2, <2>3, <3>2
      <4>2. s[j] = images[s[j - 1]].next
        BY <1>2, <4>1 DEF Walk
      <4>3. t[j] = s[j - 1]
        BY <2>3, <4>1
      <4>4. t[j + 1] = s[j]
        BY <2>3, <4>1
      <4> QED  BY <4>2, <4>3, <4>4
    <3> QED  BY <3>1, <3>2
  <2>6. images[t[Len(t)]].next = 0
    <3>1. t[Len(t)] = s[Len(s)]
      <4>1. Len(s) \in 1..Len(s)
        BY <2>2
      <4> QED  BY <2>3, <4>1
    <3> QED  BY <1>2, <3>1 DEF Walk
  <2>7. ASSUME NEW d \in D
        PROVE  (\E j \in 1..Len(t) : t[j] = d) <=> k <= d
    <3>1. (\E j \in 1..Len(t) : t[j] = d) <=> (d = k \/ \E j \in 1..Len(s) : s[j] = d)
      <4>1. ASSUME NEW j \in 1..Len(t), t[j] = d
            PROVE  d = k \/ \E i \in 1..Len(s) : s[i] = d
        <5>1. CASE j = 1
          BY <2>3, <4>1, <5>1
        <5>2. CASE j # 1
          <6>1. j - 1 \in 1..Len(s) /\ (j - 1) + 1 = j
            BY <2>2, <2>3, <5>2
          <6>2. s[j - 1] = d
            BY <2>3, <4>1, <6>1
          <6> QED  BY <6>1, <6>2
        <5> QED  BY <5>1, <5>2
      <4>2. ASSUME NEW i \in 1..Len(s), s[i] = d  PROVE \E j \in 1..Len(t) : t[j] = d
        <5>1. i + 1 \in 1..Len(t) /\ t[i + 1] = d
          BY <2>2, <2>3, <4>2, SMTT(30)
        <5> QED  BY <5>1
      <4>3. d = k => \E j \in 1..Len(t) : t[j] = d
        <5>1. 1 \in 1..Len(t)
          BY <2>2, <2>3
        <5> QED  BY <2>3, <5>1
      <4> QED  BY <4>1, <4>2, <4>3
    <3>2. (\E j \in 1..Len(s) : s[j] = d) <=> q <= d
      BY <1>2 DEF Walk
    <3>3. d \in Nat /\ (k < d => q <= d)
      BY <2>1, <1>0
    <3> QED  BY <1>0, <2>1, <3>1, <3>2, <3>3
  <2> QED  BY <1>0, <2>3, <2>4, <2>5, <2>6, <2>7 DEF Walk, t
<1> QED  BY <1>1, <1>2

\* From gives that walk.
LEMMA FromWalks ==
    ASSUME IsFiniteSet(DOMAIN images), DOMAIN images \subseteq Numbers \ {0},
           \A i \in DOMAIN images : /\ images[i].next \in Numbers
                                    /\ Follows(DOMAIN images, i, images[i].next),
           NEW k \in DOMAIN images \cup {0}
    PROVE  Walk(From(k), k)
<1> DEFINE D == DOMAIN images
           Is(f) == f = [n \in Nat |-> [i \in Numbers |->
                           IF n = 0 \/ i \notin DOMAIN images THEN <<>>
                           ELSE <<i>> \o f[n - 1][images[i].next]]]
           f == CHOOSE f : Is(f)
<1>1. From(k) = f[Cardinality(DOMAIN images)][k]
  BY Zenon DEF From
<1>2. \E g : Is(g)
  <2> DEFINE X == [Numbers -> Seq(D)]
             x == [i \in Numbers |-> <<>>]
             more(F) == [i \in Numbers |-> IF i \notin DOMAIN images THEN <<>>
                                           ELSE <<i>> \o F[images[i].next]]
             step == [F \in X |-> more(F)]
  <2>1. x \in X
    OBVIOUS
  <2>2. ASSUME NEW F \in X  PROVE more(F) \in X
    <3>1. \A i \in D : images[i].next \in Numbers
      OBVIOUS
    <3>2. \A i \in D : <<i>> \o F[images[i].next] \in Seq(D)
      <4> SUFFICES ASSUME NEW i \in D  PROVE <<i>> \o F[images[i].next] \in Seq(D)
        OBVIOUS
      <4>1. F[images[i].next] \in Seq(D) /\ <<i>> \in Seq(D)
        BY <3>1
      <4> QED  BY <4>1
    <3>3. <<>> \in Seq(D)
      OBVIOUS
    <3> QED  BY <3>2, <3>3
  <2>3. step \in [X -> X] /\ \A F \in X : step[F] = more(F)
    <3> HIDE DEF X, more
    <3> QED  BY <2>2
  <2>4. PICK g \in [Nat -> X] : g[0] = x /\ \A n \in Nat : n # 0 => g[n] = step[g[n - 1]]
    <3> HIDE DEF X, x, step, more
    <3>1. step \in [X -> X]
      BY <2>3
    <3> QED  BY <2>1, <3>1, IterationForever
  <2>5. ASSUME NEW n \in Nat
        PROVE  g[n] = [i \in Numbers |-> IF n = 0 \/ i \notin DOMAIN images THEN <<>>
                                         ELSE <<i>> \o g[n - 1][images[i].next]]
    <3>1. CASE n = 0
      BY <2>4, <3>1
    <3>2. CASE n # 0
      <4>1. n - 1 \in Nat
        BY <3>2
      <4>2. g[n - 1] \in X
        <5> HIDE DEF X
        <5> QED  BY <4>1
      <4>3. g[n] = more(g[n - 1])
        <5> HIDE DEF X, more, step, x
        <5> QED  BY <2>3, <2>4, <3>2, <4>1, <4>2
      <4> QED  BY <3>2, <4>3
    <3> QED  BY <3>1, <3>2
  <2>6. g = [n \in Nat |-> g[n]]
    OBVIOUS
  <2>7. Is(g)
    <3> HIDE DEF X, x, step, more
    <3> QED  BY <2>5, <2>6
  <2> HIDE DEF Is
  <2> QED  BY <2>7
<1>3. Is(f)
  <2> HIDE DEF Is
  <2> QED  BY <1>2
<1> HIDE DEF f
<1>4. ASSUME NEW n \in Nat, NEW i \in Numbers
      PROVE  f[n][i] = IF n = 0 \/ i \notin DOMAIN images THEN <<>>
                       ELSE <<i>> \o f[n - 1][images[i].next]
  <2>1. f[n] = [j \in Numbers |-> IF n = 0 \/ j \notin DOMAIN images THEN <<>>
                                  ELSE <<j>> \o f[n - 1][images[j].next]]
    BY <1>3, Zenon
  <2> QED  BY <2>1, Zenon
<1>5. 0 \in Numbers /\ 0 \notin D /\ D \subseteq Numbers /\ \A i \in D : i \in Nat /\ i # 0
  <2>1. MaxData \in Nat
    BY MultiplexAssumption
  <2> QED  BY <2>1 DEF Numbers
<1>6. D \subseteq Nat \ {0}
  BY <1>5
<1>7. \A n \in Nat : f[n][0] = <<>>
  BY <1>4, <1>5
<1>8. Walk(<<>>, 0)
  BY DEF Walk
<1> DEFINE Ahead(i) == {d \in D : i <= d}
           S == {n \in Nat : \A i \in D : Cardinality(Ahead(i)) <= n => Walk(f[n][i], i)}
<1>9. \A i \in D : IsFiniteSet(Ahead(i)) /\ Cardinality(Ahead(i)) \in Nat /\ i \in Ahead(i)
  <2> SUFFICES ASSUME NEW i \in D
               PROVE  IsFiniteSet(Ahead(i)) /\ Cardinality(Ahead(i)) \in Nat /\ i \in Ahead(i)
    OBVIOUS
  <2>1. IsFiniteSet(Ahead(i))
    BY FS_Subset
  <2> QED  BY <1>5, <2>1, FS_CardinalityType
<1>10. 0 \in S
  <2>1. \A i \in D : Cardinality(Ahead(i)) # 0
    <3> HIDE DEF Ahead
    <3> QED  BY <1>9, FS_EmptySet
  <2>2. \A i \in D : ~(Cardinality(Ahead(i)) <= 0)
    <3> HIDE DEF Ahead
    <3> QED  BY <1>9, <2>1
  <2> QED  BY <2>2
<1>11. ASSUME NEW n \in Nat, n \in S  PROVE n + 1 \in S
  <2> SUFFICES ASSUME NEW i \in D, Cardinality(Ahead(i)) <= n + 1
               PROVE  Walk(f[n + 1][i], i)
    OBVIOUS
  <2>1. f[n + 1][i] = <<i>> \o f[n][images[i].next]
    <3>1. n + 1 \in Nat /\ n + 1 # 0 /\ (n + 1) - 1 = n /\ i \in Numbers
      BY <1>5
    <3> QED  BY <1>4, <3>1
  <2>2. Follows(D, i, images[i].next)
    OBVIOUS
  <2>3. CASE images[i].next = 0
    <3>1. f[n + 1][i] = <<i>>
      <4>1. f[n][images[i].next] = <<>>
        BY <1>7, <2>3
      <4> QED  BY <2>1, <4>1
    <3>2. Walk(<<i>>, i)
      BY <1>6, <2>2, <2>3, WalkOne
    <3> QED  BY <3>1, <3>2
  <2>4. CASE images[i].next # 0
    <3> DEFINE q == images[i].next
    <3>1. q \in D /\ i < q /\ \A j \in D : i < j => q <= j
      BY <2>2, <2>4 DEF Follows
    <3>2. Ahead(q) = Ahead(i) \ {i}
      BY <1>5, <3>1
    <3>3. Cardinality(Ahead(q)) = Cardinality(Ahead(i)) - 1
      <4> HIDE DEF Ahead, q
      <4> QED  BY <1>9, <3>2, FS_RemoveElement
    <3>4. Walk(f[n][q], q)
      <4>1. Cardinality(Ahead(q)) <= n
        <5> HIDE DEF Ahead, q
        <5> QED  BY <1>9, <3>3
      <4> QED  BY <1>11, <3>1, <4>1
    <3> QED  BY <1>6, <2>1, <2>2, <2>4, <3>4, WalkOne
  <2> QED  BY <2>3, <2>4
<1>12. Cardinality(D) \in Nat
  BY FS_CardinalityType
<1> HIDE DEF S
<1>13. Cardinality(D) \in S
  BY <1>10, <1>11, <1>12, SetInduction
<1>14. CASE k = 0
  BY <1>1, <1>7, <1>8, <1>12, <1>14
<1>15. CASE k # 0
  <2>1. k \in D /\ Cardinality(Ahead(k)) <= Cardinality(D)
    BY <1>15, FS_Subset
  <2> QED  BY <1>1, <1>13, <2>1 DEF S
<1> QED  BY <1>14, <1>15

-----------------------------------------------------------------------------
(***************************************************************************)
(* The invariant implies the properties that the runs check.               *)
(***************************************************************************)

\* A viewer that catches up still does when it was sent the image at its pointer.
LEMMA PaintCatches ==
    ASSUME DOMAIN images \subseteq Numbers \ {0}, Shown, screen \in [Tiles -> Numbers],
           Linked(DOMAIN images, images, firstData, lastData),
           NEW p \in DOMAIN images, NEW cv \in [Tiles -> Numbers], Catches(cv, p)
    PROVE  Paint(cv, p) \in [Tiles -> Numbers] /\ Catches(Paint(cv, p), images[p].next)
<1> DEFINE D == DOMAIN images
           q == images[p].next
           new == Paint(cv, p)
<1>0. \A d \in D : d \in Nat /\ d # 0 /\ d \in Numbers
  BY MultiplexAssumption DEF Numbers
<1>1. /\ \/ q \in D /\ p < q /\ \A j \in D : p < j => q <= j
         \/ q = 0 /\ \A j \in D : j <= p
      /\ p \in Nat /\ p # 0
  BY <1>0 DEF Linked, Follows
<1>2. firstData \in D => \A d \in D : firstData <= d
  <2>1. Follows(D, 0, firstData)
    BY DEF Linked
  <2>2. firstData \in D => firstData # 0 /\ firstData \in Nat
    BY <1>0
  <2> QED  BY <1>0, <2>1, <2>2 DEF Follows
<1>3. CASE p = firstData
  <2>1. new = Blank
    BY <1>3 DEF Paint
  <2>2. ASSUME NEW c \in Tiles, screen[c] # 0
        PROVE  q # 0 /\ \E i \in D : q <= i /\ c \in images[i].tiles
    <3>1. /\ screen[c] \in D /\ screen[c] # firstData
          /\ c \in images[screen[c]].tiles
      BY <2>2 DEF Shown
    <3>2. firstData < screen[c]
      BY <1>0, <1>2, <1>3, <3>1
    <3>3. q # 0 /\ q <= screen[c]
      BY <1>0, <1>1, <1>3, <3>1, <3>2
    <3> QED  BY <3>1, <3>3
  <2>3. \A c \in Tiles : new[c] = 0
    BY <2>1 DEF Blank
  <2>4. \A c \in Tiles :
           new[c] = screen[c] \/ (q # 0 /\ \E i \in D : q <= i /\ c \in images[i].tiles)
    BY <2>2, <2>3
  <2>5. new \in [Tiles -> Numbers]
    BY <2>1, MultiplexAssumption DEF Blank, Numbers
  <2> HIDE DEF q, new
  <2> QED  BY <2>4, <2>5 DEF Catches, q, new
<1>4. CASE p # firstData
  <2>1. new = [c \in Tiles |-> IF c \in images[p].tiles THEN p ELSE cv[c]]
    BY <1>4 DEF Paint
  <2>2. ASSUME NEW c \in Tiles
        PROVE  new[c] = screen[c] \/ (q # 0 /\ \E i \in D : q <= i /\ c \in images[i].tiles)
    <3>1. CASE c \in images[p].tiles
      <4>1. new[c] = p /\ p <= screen[c]
        BY <2>1, <3>1 DEF Shown
      <4> SUFFICES ASSUME screen[c] # p
                   PROVE  q # 0 /\ \E i \in D : q <= i /\ c \in images[i].tiles
        BY <4>1
      <4>2. screen[c] \in Nat /\ p < screen[c]
        <5>1. screen[c] \in Nat
          BY MultiplexAssumption DEF Numbers
        <5> QED  BY <1>1, <4>1, <5>1
      <4>3. screen[c] \in D /\ c \in images[screen[c]].tiles
        BY <1>1, <4>2 DEF Shown
      <4>4. q # 0 /\ q <= screen[c]
        BY <1>0, <1>1, <4>2, <4>3
      <4> QED  BY <4>3, <4>4
    <3>2. CASE c \notin images[p].tiles
      <4>1. new[c] = cv[c]
        BY <2>1, <3>2
      <4>2. cv[c] = screen[c] \/ \E i \in D : p <= i /\ c \in images[i].tiles
        BY <1>4 DEF Catches
      <4> SUFFICES ASSUME NEW i \in D, p <= i, c \in images[i].tiles
                   PROVE  q # 0 /\ q <= i
        BY <4>1, <4>2
      <4>3. i \in Nat /\ p < i
        BY <1>0, <1>1, <3>2
      <4> QED  BY <1>0, <1>1, <4>3
    <3> QED  BY <3>1, <3>2
  <2>3. new \in [Tiles -> Numbers]
    BY <1>0, <2>1
  <2> HIDE DEF q, new
  <2> QED  BY <2>2, <2>3 DEF Catches, q, new
<1> QED  BY <1>3, <1>4

\* A canvas that shows the screen everywhere is the screen.
LEMMA Unchanging ==
    ASSUME NEW n \in Nat, NEW k \in 0..n, NEW f, \A i \in (k + 1)..n : f[i] = f[i - 1]
    PROVE  f[n] = f[k]
<1> DEFINE g == [i \in 0..n |-> IF i <= k THEN f[i] ELSE f[k]]
<1>1. \A i \in 0..n : g[i] = IF i <= k THEN f[i] ELSE f[k]
  OBVIOUS
<1> HIDE DEF g
<1>2. f[0] = g[0]
  BY <1>1
<1>3. ASSUME NEW i \in 1..n, f[i - 1] = g[i - 1]  PROVE f[i] = g[i]
  <2>1. CASE i <= k
    BY <1>1, <2>1
  <2>2. CASE ~(i <= k)
    <3>1. i \in (k + 1)..n /\ i - 1 \in 0..n /\ i \in 0..n
      BY <2>2
    <3>2. g[i] = f[k] /\ g[i - 1] = f[k]
      <4>1. i - 1 <= k => i - 1 = k
        BY <2>2
      <4> QED  BY <1>1, <2>2, <3>1, <4>1
    <3> QED  BY <1>3, <3>1, <3>2
  <2> QED  BY <2>1, <2>2
<1>4. \A i \in 0..n : f[i] = g[i]
  BY <1>2, <1>3, Agreeing
<1>5. f[n] = g[n] /\ f[k] = g[k]
  BY <1>4
<1>6. g[n] = f[k]
  <2>1. n <= k => n = k
    OBVIOUS
  <2> QED  BY <1>1, <2>1
<1> QED  BY <1>5, <1>6

\* The greatest element of a set of numbers up to n.
LEMMA MaxOf ==
    ASSUME NEW n \in Nat, NEW w \in SUBSET (1..n), w # {}
    PROVE  Max(w) \in w /\ \A y \in w : y <= Max(w)
<1>1. w \subseteq Nat /\ \A y \in w : y <= n
  OBVIOUS
<1>2. \E x \in w : \A y \in w : y <= x
  BY <1>1, GreatestOfNat
<1>3. \E x \in w : \A y \in w : x >= y
  BY <1>1, <1>2
<1>4. Max(w) \in w /\ \A y \in w : Max(w) >= y
  BY <1>3, Zenon DEF Max
<1> QED  BY <1>1, <1>4

\* In a set of indices, the steps are taken in their order.
TakesSteps(g, n, X, x, step) ==
    /\ g = [w \in SUBSET (1..n) |-> g[w]] /\ g[{}] = x
    /\ \A w \in SUBSET (1..n) :
          g[w] \in X /\ (w # {} => g[w] = step[Max(w)][g[w \ {Max(w)}]])

\* What folds from the left are made of exists.
LEMMA StepsExist ==
    ASSUME NEW n \in Nat, NEW X, NEW x \in X, NEW step, \A i \in 1..n : step[i] \in [X -> X]
    PROVE  \E g : TakesSteps(g, n, X, x, step)
<1> DEFINE I == 1..n
           st(w) == [i \in I |-> IF i \in w THEN step[i] ELSE [y \in X |-> y]]
           Is(f, w) == Iterates(f, n, X, x, st(w))
           h == [w \in SUBSET I |-> CHOOSE f : Is(f, w)]
           J == [w \in SUBSET I |-> h[w][n]]
<1>1. ASSUME NEW w \in SUBSET I  PROVE Is(h[w], w)
  <2>1. \A i \in 1..n : st(w)[i] \in [X -> X]
    OBVIOUS
  <2>2. \E f : Iterates(f, n, X, x, st(w))
    <3> HIDE DEF st
    <3> QED  BY <2>1, IterationExists
  <2>3. \E f : Is(f, w)
    BY <2>2
  <2> HIDE DEF Is
  <2> QED  BY <2>3
<1> HIDE DEF h
<1>2. ASSUME NEW w \in SUBSET I
      PROVE  /\ h[w][0] = x
             /\ \A i \in I : i \in w => h[w][i] = step[i][h[w][i - 1]]
             /\ \A i \in I : i \notin w => h[w][i] = h[w][i - 1]
  <2>1. Iterates(h[w], n, X, x, st(w))
    BY <1>1
  <2>2. h[w][0] = x /\ \A i \in I : h[w][i] = st(w)[i][h[w][i - 1]]
    <3> HIDE DEF st
    <3> QED  BY <2>1 DEF Iterates
  <2>3. \A i \in I : h[w][i - 1] \in X
    <3>1. \A i \in I : i - 1 \in 0..n
      OBVIOUS
    <3> HIDE DEF st, I
    <3> QED  BY <2>1, <3>1 DEF Iterates
  <2>4. \A i \in I : i \in w => st(w)[i] = step[i]
    OBVIOUS
  <2>5. \A i \in I : i \notin w => \A y \in X : st(w)[i][y] = y
    OBVIOUS
  <2> HIDE DEF st, I
  <2> QED  BY <2>2, <2>3, <2>4, <2>5
<1> HIDE DEF Is
<1>3. J[{}] = x
  <2>1. h[{}][0] = x /\ \A i \in (0 + 1)..n : h[{}][i] = h[{}][i - 1]
    BY <1>2
  <2>2. h[{}][n] = h[{}][0]
    BY <2>1, Unchanging
  <2> QED  BY <2>1, <2>2
<1>4. ASSUME NEW w \in SUBSET I, w # {}
      PROVE  J[w] = step[Max(w)][J[w \ {Max(w)}]]
  <2> DEFINE m == Max(w)
             u == w \ {m}
             a == h[w]
             b == h[u]
  <2>1. m \in w /\ \A y \in w : y <= m
    BY <1>4, MaxOf
  <2>2. /\ m \in I /\ m \in Nat /\ m - 1 \in Nat /\ m \in 0..n /\ m - 1 \in 0..n
        /\ u \in SUBSET I /\ (m - 1) + 1 = m
    <3>1. m \in I
      BY <2>1
    <3> HIDE DEF m
    <3> QED  BY <3>1
  <2>3. J[w] = a[n] /\ J[u] = b[n]
    BY <2>2
  <2> HIDE DEF m
  <2>4. a[n] = a[m]
    <3>1. \A i \in (m + 1)..n : i \in I /\ i \notin w
      BY <2>1, <2>2
    <3>2. \A i \in (m + 1)..n : a[i] = a[i - 1]
      BY <1>2, <3>1
    <3> HIDE DEF a
    <3> QED  BY <2>2, <3>2, Unchanging
  <2>5. b[n] = b[m - 1]
    <3>1. \A i \in ((m - 1) + 1)..n : i \in I /\ i \notin u
      BY <2>1, <2>2
    <3>2. \A i \in ((m - 1) + 1)..n : b[i] = b[i - 1]
      BY <1>2, <2>2, <3>1
    <3> HIDE DEF b
    <3> QED  BY <2>2, <3>2, Unchanging
  <2>6. a[m - 1] = b[m - 1]
    <3>1. a[0] = b[0]
      BY <1>2, <2>2
    <3>2. ASSUME NEW i \in 1..(m - 1), a[i - 1] = b[i - 1]  PROVE a[i] = b[i]
      <4>1. i \in I /\ (i \in w <=> i \in u)
        BY <2>2
      <4>2. CASE i \in w
        BY <1>2, <2>2, <3>2, <4>1, <4>2
      <4>3. CASE i \notin w
        BY <1>2, <2>2, <3>2, <4>1, <4>3
      <4> QED  BY <4>2, <4>3
    <3> HIDE DEF a, b
    <3>3. \A i \in 1..(m - 1) : a[i - 1] = b[i - 1] => a[i] = b[i]
      BY <3>2
    <3>4. \A i \in 0..(m - 1) : a[i] = b[i]
      <4>1. m - 1 \in Nat
        BY <2>2
      <4> QED  BY <3>1, <3>3, <4>1, Agreeing
    <3> QED  BY <2>2, <3>4
  <2>7. a[m] = step[m][a[m - 1]]
    BY <1>2, <2>1, <2>2
  <2> QED  BY <2>3, <2>4, <2>5, <2>6, <2>7 DEF m
<1>5. ASSUME NEW w \in SUBSET I  PROVE J[w] \in X
  <2>1. \A i \in 0..n : h[w][i] \in X
    <3> HIDE DEF st
    <3> QED  BY <1>1 DEF Iterates, Is
  <2> QED  BY <2>1
<1>6. J = [w \in SUBSET I |-> J[w]]
  OBVIOUS
<1> HIDE DEF J
<1> QED  BY <1>3, <1>4, <1>5, <1>6 DEF TakesSteps

\* A viewer that is sent a walk along the list, image by image, ends at the screen.
LEMMA WalkCatches ==
    ASSUME DOMAIN images \subseteq Numbers \ {0}, Shown, screen \in [Tiles -> Numbers],
           Linked(DOMAIN images, images, firstData, lastData),
           NEW p, NEW s, Walk(s, p), NEW cv \in [Tiles -> Numbers], Catches(cv, p)
    PROVE  FoldLeft(Paint, cv, s) = screen
<1> DEFINE n == Len(s)
           I == 1..n
           X == [Tiles -> Numbers]
           D == DOMAIN images
           Is(g) == g = [w \in SUBSET DOMAIN s |->
                            IF w = {} THEN cv ELSE Paint(g[w \ {Max(w)}], s[Max(w)])]
           f == CHOOSE g : Is(g)
           step == [i \in I |-> [y \in X |-> Paint(y, s[i])]]
<1>1. FoldLeft(Paint, cv, s) = f[DOMAIN s]
  BY Zenon DEF FoldLeft, MapThenFoldSet
<1>2. s \in Seq(D) /\ n \in Nat /\ DOMAIN s = I /\ \A i \in I : s[i] \in D
  BY DEF Walk
<1>3. ASSUME NEW y \in X, NEW i \in I  PROVE Paint(y, s[i]) \in X
  <2>1. s[i] \in Numbers
    BY <1>2
  <2>2. 0 \in Numbers
    BY MultiplexAssumption DEF Numbers
  <2> QED  BY <2>1, <2>2 DEF Paint, Blank
<1>4. \A i \in 1..n : step[i] \in [X -> X]
  <2> HIDE DEF X, n
  <2> QED  BY <1>3
<1>5. \E g : Is(g)
  <2>1. PICK g : TakesSteps(g, n, X, cv, step)
    <3> HIDE DEF n, X, step
    <3>1. cv \in X
      BY DEF X
    <3>2. n \in Nat
      BY <1>2
    <3> QED  BY <1>4, <3>1, <3>2, StepsExist
  <2>2. ASSUME NEW w \in SUBSET I
        PROVE  g[w] = IF w = {} THEN cv ELSE Paint(g[w \ {Max(w)}], s[Max(w)])
    <3>1. w # {} => g[w] = step[Max(w)][g[w \ {Max(w)}]]
      <4> HIDE DEF step, X
      <4> QED  BY <2>1 DEF TakesSteps
    <3>2. CASE w = {}
      BY <2>1, <3>2 DEF TakesSteps
    <3>3. CASE w # {}
      <4>1. Max(w) \in I
        BY <1>2, <3>3, MaxOf
      <4>2. g[w \ {Max(w)}] \in X
        <5>1. w \ {Max(w)} \in SUBSET I
          OBVIOUS
        <5> HIDE DEF X, step
        <5> QED  BY <2>1, <5>1 DEF TakesSteps
      <4>3. step[Max(w)][g[w \ {Max(w)}]] = Paint(g[w \ {Max(w)}], s[Max(w)])
        <5> HIDE DEF X, I
        <5> QED  BY <4>1, <4>2
      <4> QED  BY <3>1, <3>3, <4>3
    <3> QED  BY <3>2, <3>3
  <2>3. g = [w \in SUBSET I |-> g[w]]
    <3> HIDE DEF X, step
    <3> QED  BY <2>1 DEF TakesSteps
  <2>4. Is(g)
    <3> HIDE DEF I, n
    <3> QED  BY <1>2, <2>2, <2>3
  <2> HIDE DEF Is
  <2> QED  BY <2>4
<1>6. Is(f)
  <2> HIDE DEF Is
  <2> QED  BY <1>5
<1> HIDE DEF f
<1>7. f[{}] = cv /\ \A w \in SUBSET I : w # {} => f[w] = Paint(f[w \ {Max(w)}], s[Max(w)])
  <2>1. \A w \in SUBSET I : f[w] = IF w = {} THEN cv ELSE Paint(f[w \ {Max(w)}], s[Max(w)])
    <3> HIDE DEF I
    <3> QED  BY <1>2, <1>6
  <2>2. {} \in SUBSET I
    OBVIOUS
  <2> HIDE DEF I
  <2> QED  BY <2>1, <2>2
<1> HIDE DEF Is
\* The image that comes after the first k ones.
<1> DEFINE at(k) == IF k < n THEN s[k + 1] ELSE 0
           S == {k \in Nat : k <= n => f[1..k] \in X /\ Catches(f[1..k], at(k))}
<1>8. 0 \in S
  <2>1. 1..0 = {}
    OBVIOUS
  <2>2. at(0) = p
    <3>1. p = 0 => n = 0
      BY DEF Walk
    <3>2. p # 0 => n # 0 /\ s[1] = p
      BY <1>2 DEF Walk
    <3> QED  BY <1>2, <3>1, <3>2
  <2> HIDE DEF at, X
  <2>3. f[1..0] = cv /\ cv \in X
    BY <1>7, <2>1 DEF X
  <2> QED  BY <2>2, <2>3
<1>9. ASSUME NEW k \in Nat, k \in S  PROVE k + 1 \in S
  <2> SUFFICES ASSUME k + 1 <= n
               PROVE  f[1..(k + 1)] \in X /\ Catches(f[1..(k + 1)], at(k + 1))
    BY DEF S
  <2>1. f[1..k] \in X /\ Catches(f[1..k], at(k)) /\ k < n
    BY <1>2, <1>9
  <2>2. k + 1 \in I /\ at(k) = s[k + 1] /\ s[k + 1] \in D
    BY <1>2, <2>1
  <2>3. f[1..(k + 1)] = Paint(f[1..k], s[k + 1])
    <3> DEFINE w == 1..(k + 1)
    <3>0. n \in Nat /\ k + 1 \in Nat
      BY <1>2
    <3>1. /\ w \in SUBSET I /\ w # {} /\ k + 1 \in w /\ w \in SUBSET (1..(k + 1))
          /\ \A y \in w : y <= k + 1
      <4> HIDE DEF n
      <4>1. w \in SUBSET I
        BY <2>1, <3>0
      <4>2. k + 1 \in w /\ \A y \in w : y <= k + 1
        OBVIOUS
      <4> QED  BY <4>1, <4>2
    <3>2. Max(w) \in w /\ \A y \in w : y <= Max(w)
      <4> HIDE DEF w
      <4> QED  BY <3>0, <3>1, MaxOf, Zenon
    <3>3. Max(w) = k + 1
      <4>1. Max(w) \in Nat
        BY <3>2
      <4> HIDE DEF w
      <4> QED  BY <3>1, <3>2, <4>1
    <3>4. w \ {k + 1} = 1..k
      OBVIOUS
    <3> HIDE DEF w
    <3>5. f[w] = Paint(f[w \ {k + 1}], s[k + 1])
      BY <1>7, <3>1, <3>3
    <3> QED  BY <3>4, <3>5 DEF w
  <2>4. images[s[k + 1]].next = at(k + 1)
    <3>1. p # 0
      BY <1>2, <2>2 DEF Walk
    <3>2. CASE k + 1 < n
      <4>1. k + 1 \in 1..(n - 1)
        BY <1>2, <3>2
      <4> QED  BY <3>1, <3>2, <4>1 DEF Walk
    <3>3. CASE ~(k + 1 < n)
      <4>1. k + 1 = n
        <5>1. n \in Nat
          BY <1>2
        <5> HIDE DEF n
        <5> QED  BY <3>3, <5>1
      <4> QED  BY <3>1, <3>3, <4>1 DEF Walk
    <3> QED  BY <3>2, <3>3
  <2> HIDE DEF at
  <2>5. Catches(f[1..k], s[k + 1])
    BY <2>1, <2>2
  <2>6. /\ Paint(f[1..k], s[k + 1]) \in X
        /\ Catches(Paint(f[1..k], s[k + 1]), images[s[k + 1]].next)
    BY <2>1, <2>2, <2>5, PaintCatches
  <2> QED  BY <2>3, <2>4, <2>6
<1> HIDE DEF S
<1>10. n \in S
  BY <1>2, <1>8, <1>9, SetInduction
<1>11. f[1..n] \in X /\ Catches(f[1..n], 0)
  <2>1. at(n) = 0
    BY <1>2
  <2> HIDE DEF at
  <2> QED  BY <1>2, <1>10, <2>1 DEF S
<1>12. f[1..n] = screen
  <2>1. \A c \in Tiles : f[1..n][c] = screen[c]
    BY <1>11 DEF Catches
  <2> QED  BY <1>11, <2>1
<1> QED  BY <1>1, <1>2, <1>12

-----------------------------------------------------------------------------

\* The invariant implies that the list is sound.
LEMMA IInvListIsSound ==
    ASSUME IInv
    PROVE  ListIsSound
<1> DEFINE D == DOMAIN images
           list == From(firstData)
<1>1. /\ D \subseteq Numbers \ {0} /\ D \subseteq Nat \ {0} /\ IsFiniteSet(D)
      /\ \A i \in D : /\ images[i].next \in Numbers
                      /\ Follows(D, i, images[i].next) /\ Precedes(D, i, images[i].prev)
      /\ Follows(D, 0, firstData)
  <2>1. D \subseteq Numbers \ {0} /\ \A i \in D : images[i].next \in Numbers
    BY DEF IInv, TypeOK
  <2>2. IsFiniteSet(Numbers) /\ Numbers \subseteq Nat
    <3>1. MaxData \in Nat /\ MaxData + 1 \in Int /\ 0 \in Int
      BY MultiplexAssumption
    <3>2. IsFiniteSet(0..(MaxData + 1))
      BY <3>1, FS_Interval
    <3>3. 0..(MaxData + 1) \subseteq Nat
      BY <3>1
    <3> QED  BY <3>2, <3>3 DEF Numbers
  <2>3. IsFiniteSet(D)
    BY <2>1, <2>2, FS_Subset
  <2> QED  BY <2>1, <2>2, <2>3 DEF IInv, Linked
<1>2. firstData \in D \cup {0}
  BY <1>1 DEF Follows
<1>3. Walk(list, firstData)
  BY <1>1, <1>2, FromWalks
<1> HIDE DEF list
<1>4. ToSet(list) = D
  <2>1. \A d \in D : firstData # 0 /\ firstData <= d
    BY <1>1 DEF Follows
  <2>2. list \in Seq(D) /\ \A d \in D : \E j \in 1..Len(list) : list[j] = d
    BY <1>3, <2>1 DEF Walk
  <2>3. DOMAIN list = 1..Len(list) /\ \A j \in 1..Len(list) : list[j] \in D
    BY <2>2
  <2>4. D \subseteq ToSet(list)
    BY <2>2, <2>3 DEF ToSet
  <2>5. ToSet(list) \subseteq D
    BY <2>3 DEF ToSet
  <2> QED  BY <2>4, <2>5
<1>5. list \in Seq(D) /\ Len(list) \in Nat /\ \A k \in 1..Len(list) : list[k] \in D
  BY <1>3 DEF Walk
<1>6. ASSUME NEW k \in 1..(Len(list) - 1)
      PROVE  list[k] < list[k + 1] /\ images[list[k + 1]].prev = list[k]
  <2>1. k \in 1..Len(list) /\ k + 1 \in 1..Len(list)
    BY <1>5
  <2>2. images[list[k]].next = list[k + 1]
    BY <1>3, <1>5, <2>1 DEF Walk
  <2> DEFINE i == list[k]
             x == list[k + 1]
  <2>3. i \in D /\ x \in D /\ Follows(D, i, x) /\ Precedes(D, x, images[x].prev)
        /\ i \in Nat /\ x \in Nat /\ x # 0
    BY <1>1, <1>5, <2>1, <2>2
  <2> HIDE DEF i, x
  <2>4. i < x /\ \A j \in D : i < j => x <= j
    BY <2>3 DEF Follows
  <2>5. images[x].prev = i
    <3> DEFINE y == images[x].prev
    <3>1. (y \in D /\ y < x /\ \A j \in D : j < x => j <= y) \/ (y = 0 /\ \A j \in D : x <= j)
      BY <2>3 DEF Precedes
    <3>2. \A d \in D : d \in Nat
      BY <1>1
    <3> HIDE DEF y
    <3>3. y = i
      BY <2>3, <2>4, <3>1, <3>2
    <3> QED  BY <3>3 DEF y
  <2> QED  BY <2>4, <2>5 DEF i, x
<1>7. ASSUME NEW k \in DOMAIN list
      PROVE  images[list[k]].prev = (IF k = 1 THEN 0 ELSE list[k - 1])
  <2>0. k \in 1..Len(list)
    BY <1>5
  <2>1. CASE k = 1
    <3>1. list[1] = firstData /\ firstData \in D
      BY <1>3, <1>5, <2>0, <2>1 DEF Walk
    <3>2. \A d \in D : firstData <= d
      BY <1>1, <3>1 DEF Follows
    <3>3. images[firstData].prev = 0
      <4>1. Precedes(D, firstData, images[firstData].prev) /\ \A d \in D : d \in Nat
        BY <1>1, <3>1
      <4> QED  BY <3>1, <3>2, <4>1 DEF Precedes
    <3> QED  BY <2>1, <3>1, <3>3
  <2>2. CASE k # 1
    <3>1. k - 1 \in 1..(Len(list) - 1) /\ (k - 1) + 1 = k
      BY <1>5, <2>0, <2>2
    <3> QED  BY <1>6, <2>2, <3>1
  <2> QED  BY <2>1, <2>2
<1>8. ASSUME list # <<>>  PROVE lastData = Last(list)
  <2>1. Len(list) \in 1..Len(list) /\ Last(list) = list[Len(list)]
    BY <1>5, <1>8 DEF Last
  <2>2. images[Last(list)].next = 0 /\ Last(list) \in D
    BY <1>3, <1>5, <1>8, <2>1 DEF Walk
  <2>3. \A j \in D : j <= Last(list)
    BY <1>1, <2>2 DEF Follows
  <2>4. lastData \in D /\ \A j \in D : j <= lastData
    BY <2>2 DEF IInv, Linked
  <2>5. lastData \in Nat /\ Last(list) \in Nat /\ lastData <= Last(list) /\ Last(list) <= lastData
    BY <1>1, <2>2, <2>3, <2>4
  <2> QED  BY <2>5
<1>9. \A v \in Present : dataPtr[v] \in DOMAIN images \cup {0}
  <2>1. Present \subseteq Viewers
    BY DEF IInv, TypeOK, Present, ToSet
  <2> QED  BY <2>1 DEF IInv, Placed
<1>10. Counting
  BY DEF IInv
<1> QED  BY <1>4, <1>6, <1>7, <1>8, <1>9, <1>10 DEF ListIsSound, Counting, list

\* The invariant implies that every viewer can catch up.
LEMMA IInvCanCatchUp ==
    ASSUME IInv
    PROVE  CanCatchUp
<1> SUFFICES ASSUME NEW v \in Present
             PROVE  FoldLeft(Paint, canvas[v], From(dataPtr[v])) = screen
  BY DEF CanCatchUp
<1> DEFINE D == DOMAIN images
<1>1. /\ D \subseteq Numbers \ {0} /\ IsFiniteSet(D)
      /\ \A i \in D : images[i].next \in Numbers /\ Follows(D, i, images[i].next)
      /\ Linked(D, images, firstData, lastData)
  <2>1. D \subseteq Numbers \ {0} /\ \A i \in D : images[i].next \in Numbers
    BY DEF IInv, TypeOK
  <2>2. IsFiniteSet(Numbers)
    BY FS_Interval, MultiplexAssumption DEF Numbers
  <2>3. IsFiniteSet(D)
    BY <2>1, <2>2, FS_Subset
  <2> QED  BY <2>1, <2>3 DEF IInv, Linked
<1>2. v \in Viewers
  BY DEF IInv, TypeOK, Present, ToSet
<1>3. dataPtr[v] \in D \cup {0}
  BY <1>2 DEF IInv, Placed
<1>4. Walk(From(dataPtr[v]), dataPtr[v])
  BY <1>1, <1>3, FromWalks
<1>5. Catches(canvas[v], dataPtr[v])
  BY DEF IInv, CatchingUp
<1>6. canvas[v] \in [Tiles -> Numbers] /\ screen \in [Tiles -> Numbers] /\ Shown
  BY <1>2 DEF IInv, TypeOK
<1> QED  BY <1>1, <1>4, <1>5, <1>6, WalkCatches

-----------------------------------------------------------------------------
(***************************************************************************)
(* The sequences and the counts.                                           *)
(***************************************************************************)

\* A sequence without one of its elements.
LEMMA WithoutOne ==
    ASSUME NEW S, NEW s \in Seq(S), NEW i \in 1..Len(s)
    PROVE  /\ RemoveAt(s, i) \in Seq(S) /\ Len(RemoveAt(s, i)) = Len(s) - 1
           /\ \A k \in 1..(Len(s) - 1) :
                 RemoveAt(s, i)[k] = IF k < i THEN s[k] ELSE s[k + 1]
<1> DEFINE p == SubSeq(s, 1, i - 1)
           q == SubSeq(s, i + 1, Len(s))
           w == p \o q
           n == Len(s)
<1>1. n \in Nat /\ i \in Nat \ {0} /\ \A k \in 1..n : s[k] \in S
  OBVIOUS
<1>2. p \in Seq(S) /\ Len(p) = i - 1 /\ \A k \in 1..(i - 1) : p[k] = s[k]
  <2>1. i - 1 \in Int /\ \A k \in 1..(i - 1) : s[k] \in S
    BY <1>1
  <2> QED  BY <1>1, <2>1, Seqs!SubSeqProperties
<1>3. q \in Seq(S) /\ Len(q) = n - i /\ \A k \in 1..(n - i) : q[k] = s[k + i]
  <2>1. i + 1 \in Int /\ Len(s) \in Int /\ \A k \in (i + 1)..Len(s) : s[k] \in S
    BY <1>1
  <2>2. /\ q \in Seq(S)
        /\ Len(q) = IF i + 1 <= Len(s) THEN Len(s) - (i + 1) + 1 ELSE 0
        /\ \A k \in 1..(Len(s) - (i + 1) + 1) : q[k] = s[i + 1 + k - 1]
    BY <1>1, <2>1, Seqs!SubSeqProperties
  <2> HIDE DEF q, n
  <2>3. Len(s) = n
    BY DEF n
  <2>4. i <= n
    BY <2>3
  <2>5. (IF i + 1 <= n THEN n - (i + 1) + 1 ELSE 0) = n - i
    BY <1>1, <2>4
  <2>6. Len(q) = n - i
    BY <2>2, <2>3, <2>5
  <2>7. ASSUME NEW k \in 1..(n - i)  PROVE q[k] = s[k + i]
    <3>1. k \in 1..(n - (i + 1) + 1) /\ i + 1 + k - 1 = k + i
      BY <1>1, <2>4
    <3>2. q[k] = s[i + 1 + k - 1]
      BY <2>2, <2>3, <3>1
    <3> QED  BY <3>1, <3>2
  <2> QED  BY <2>2, <2>6, <2>7
<1> HIDE DEF p, q
<1>4. /\ w \in Seq(S) /\ Len(w) = Len(p) + Len(q)
      /\ \A k \in 1..(Len(p) + Len(q)) : w[k] = IF k <= Len(p) THEN p[k] ELSE q[k - Len(p)]
  BY <1>2, <1>3, Seqs!ConcatProperties
<1>5. w = RemoveAt(s, i)
  BY DEF RemoveAt, p, q
<1> HIDE DEF w, n
<1>6. n = Len(s) /\ i <= n
  BY DEF n
<1>7. Len(w) = n - 1
  BY <1>1, <1>2, <1>3, <1>4
<1>8. ASSUME NEW k \in 1..(n - 1)  PROVE w[k] = IF k < i THEN s[k] ELSE s[k + 1]
  <2>0. k \in 1..(Len(p) + Len(q))
    BY <1>1, <1>2, <1>3
  <2>1. CASE k < i
    <3>1. k \in 1..(i - 1) /\ k <= Len(p)
      BY <1>1, <1>2, <2>1
    <3> QED  BY <1>2, <1>4, <2>0, <2>1, <3>1
  <2>2. CASE ~(k < i)
    <3>1. k - Len(p) \in 1..(n - i) /\ (k - Len(p)) + i = k + 1 /\ ~(k <= Len(p))
      BY <1>1, <1>2, <2>2
    <3>2. w[k] = q[k - Len(p)]
      BY <1>4, <2>0, <3>1
    <3> QED  BY <1>3, <2>2, <3>1, <3>2
  <2> QED  BY <2>1, <2>2
<1> QED  BY <1>4, <1>5, <1>6, <1>7, <1>8

\* The first, and only, place of an element.
LEMMA PlaceOf ==
    ASSUME NEW S, NEW s \in Seq(S), NEW v, v \in ToSet(s)
    PROVE  \E i \in 1..Len(s) : s[i] = v /\ RemoveFirst(s, v) = RemoveAt(s, i)
<1> DEFINE I == {i \in 1..Len(s) : s[i] = v}
<1>1. Len(s) \in Nat /\ DOMAIN s = 1..Len(s)
  OBVIOUS
<1>2. I # {} /\ I \subseteq Nat /\ \E i \in 1..Len(s) : s[i] = v
  BY <1>1 DEF ToSet
<1>3. \E x \in I : \A y \in I : x <= y
  BY <1>2, LeastOfNat
<1>4. Min(I) \in I
  <2> HIDE DEF I
  <2> QED  BY <1>3, Zenon DEF Min
<1>5. RemoveFirst(s, v) = RemoveAt(s, Min(I))
  <2>1. SelectInSeq(s, LAMBDA w : w = v) = IF I # {} THEN Min(I) ELSE 0
    BY Zenon DEF SelectInSeq
  <2>2. RemoveFirst(s, v) = RemoveAt(s, SelectInSeq(s, LAMBDA w : w = v))
    BY <1>2, Zenon DEF RemoveFirst
  <2> HIDE DEF I
  <2> QED  BY <1>2, <2>1, <2>2
<1> QED  BY <1>4, <1>5

\* The list of viewers without one of them.
LEMMA RemoveViewer ==
    ASSUME NEW S, NEW s \in Seq(S), IsInjective(s), NEW v, v \in ToSet(s)
    PROVE  /\ RemoveFirst(s, v) \in Seq(S) /\ IsInjective(RemoveFirst(s, v))
           /\ ToSet(RemoveFirst(s, v)) = ToSet(s) \ {v}
<1>1. PICK i \in 1..Len(s) : s[i] = v /\ RemoveFirst(s, v) = RemoveAt(s, i)
  BY PlaceOf
<1> DEFINE w == RemoveAt(s, i)
           n == Len(s)
<1>2. /\ w \in Seq(S) /\ Len(w) = n - 1
      /\ \A k \in 1..(n - 1) : w[k] = IF k < i THEN s[k] ELSE s[k + 1]
  BY WithoutOne
<1>3. n \in Nat /\ i \in 1..n /\ DOMAIN s = 1..n /\ DOMAIN w = 1..(n - 1)
  BY <1>2
<1> HIDE DEF w, n
<1>4. \A a, b \in 1..n : s[a] = s[b] => a = b
  BY <1>3 DEF IsInjective
<1>5. IsInjective(w)
  <2> SUFFICES ASSUME NEW a \in 1..(n - 1), NEW b \in 1..(n - 1), w[a] = w[b]
               PROVE  a = b
    BY <1>3 DEF IsInjective
  <2> DEFINE at(k) == IF k < i THEN k ELSE k + 1
  <2>1. at(a) \in 1..n /\ at(b) \in 1..n /\ s[at(a)] = w[a] /\ s[at(b)] = w[b]
    BY <1>2, <1>3
  <2>2. at(a) = at(b)
    <3> HIDE DEF at
    <3> QED  BY <1>4, <2>1
  <2> QED  BY <1>3, <2>2
<1>6. ToSet(w) \subseteq ToSet(s) \ {v}
  <2> SUFFICES ASSUME NEW a \in 1..(n - 1)  PROVE w[a] \in ToSet(s) \ {v}
    BY <1>3 DEF ToSet
  <2> DEFINE at == IF a < i THEN a ELSE a + 1
  <2>1. at \in 1..n /\ at # i /\ w[a] = s[at]
    BY <1>2, <1>3
  <2> HIDE DEF at
  <2>2. s[at] # v
    BY <1>1, <1>3, <1>4, <2>1
  <2> QED  BY <1>3, <2>1, <2>2 DEF ToSet
<1>7. ToSet(s) \ {v} \subseteq ToSet(w)
  <2> SUFFICES ASSUME NEW k \in 1..n, s[k] # v  PROVE s[k] \in ToSet(w)
    BY <1>3 DEF ToSet
  <2> DEFINE a == IF k < i THEN k ELSE k - 1
  <2>1. k # i
    BY <1>1
  <2>2. a \in 1..(n - 1) /\ w[a] = s[k]
    <3>1. CASE k < i
      BY <1>2, <1>3, <3>1
    <3>2. CASE ~(k < i)
      <4>1. k - 1 \in 1..(n - 1) /\ ~(k - 1 < i) /\ (k - 1) + 1 = k /\ a = k - 1
        BY <1>3, <2>1, <3>2
      <4> HIDE DEF a
      <4> QED  BY <1>2, <4>1
    <3> QED  BY <3>1, <3>2
  <2> HIDE DEF a
  <2> QED  BY <1>3, <2>2 DEF ToSet
<1> QED  BY <1>1, <1>2, <1>5, <1>6, <1>7 DEF w

\* The elements of a sequence are as many as it is long, at most.
LEMMA ToSetFinite ==
    ASSUME NEW S, NEW s \in Seq(S)
    PROVE  /\ IsFiniteSet(ToSet(s)) /\ Cardinality(ToSet(s)) \in Nat
           /\ Cardinality(ToSet(s)) <= Len(s) /\ Len(s) \in Nat
<1>1. Len(s) \in Nat /\ DOMAIN s = 1..Len(s) /\ s \in [1..Len(s) -> S]
  OBVIOUS
<1>2. IsFiniteSet(1..Len(s)) /\ Cardinality(1..Len(s)) = Len(s)
  <2>1. 1 \in Int /\ Len(s) \in Int
    BY <1>1
  <2>2. IsFiniteSet(1..Len(s))
        /\ Cardinality(1..Len(s)) = IF 1 > Len(s) THEN 0 ELSE Len(s) - 1 + 1
    BY <2>1, FS_Interval
  <2> QED  BY <1>1, <2>2
<1>3. s \in Surjection(1..Len(s), ToSet(s))
  <2>1. ToSet(s) = {s[i] : i \in 1..Len(s)}
    BY <1>1 DEF ToSet
  <2>2. s \in [1..Len(s) -> ToSet(s)] /\ \A t \in ToSet(s) : \E i \in 1..Len(s) : s[i] = t
    BY <1>1, <2>1
  <2> QED  BY <2>2 DEF Surjection
<1>4. IsFiniteSet(ToSet(s)) /\ Cardinality(ToSet(s)) <= Cardinality(1..Len(s))
  BY <1>2, <1>3, FS_Surjection
<1> QED  BY <1>1, <1>2, <1>4, FS_CardinalityType

\* More viewers become slow.
LEMMA CountMore ==
    ASSUME NEW vw \in Seq(Viewers), NEW old, NEW slow,
           old \subseteq ToSet(vw), slow \subseteq ToSet(vw) \ old
    PROVE  /\ Cardinality(old \cup slow) = Cardinality(old) + Cardinality(slow)
           /\ Cardinality(old) + Cardinality(slow) \in 0..Len(vw)
           /\ old \cup slow \subseteq Viewers
           /\ IsFiniteSet(old) /\ Cardinality(old) \in Nat /\ Cardinality(slow) \in Nat
<1>1. /\ IsFiniteSet(ToSet(vw)) /\ Cardinality(ToSet(vw)) \in Nat
      /\ Cardinality(ToSet(vw)) <= Len(vw) /\ Len(vw) \in Nat
  BY ToSetFinite
<1>2. IsFiniteSet(old) /\ IsFiniteSet(slow) /\ old \cap slow = {}
  <2>1. old \in SUBSET ToSet(vw) /\ slow \in SUBSET ToSet(vw)
    OBVIOUS
  <2> QED  BY <1>1, <2>1, FS_Subset
<1>3. Cardinality(old) \in Nat /\ Cardinality(slow) \in Nat
  BY <1>2, FS_CardinalityType
<1>4. Cardinality(old \cup slow) = Cardinality(old) + Cardinality(slow)
  <2>1. Cardinality(old \cup slow)
          = Cardinality(old) + Cardinality(slow) - Cardinality(old \cap slow)
    BY <1>2, FS_Union
  <2>2. Cardinality(old \cap slow) = 0
    BY <1>2, FS_EmptySet
  <2> QED  BY <1>3, <2>1, <2>2
<1>5. Cardinality(old \cup slow) <= Cardinality(ToSet(vw))
  BY <1>1, FS_Subset
<1>6. ToSet(vw) \subseteq Viewers
  BY DEF ToSet
<1> QED  BY <1>1, <1>2, <1>3, <1>4, <1>5, <1>6

-----------------------------------------------------------------------------
(***************************************************************************)
(* The steps that leave the list as it is.                                 *)
(***************************************************************************)

\* What an empty list and a blank screen are made of.
LEMMA Zero == 0 \in Numbers /\ Blank \in [Tiles -> Numbers] /\ Numbers \subseteq Nat
<1>1. MaxData \in Nat
  BY MultiplexAssumption
<1> QED  BY <1>1 DEF Numbers, Blank

\* The count of slow viewers is right when more of them become slow.
LEMMA SlowStep ==
    ASSUME IInv, NEW vw \in Seq(Viewers), NEW slow, NEW wasPaused \in BOOLEAN,
           BecomeSlow(slow, vw, wasPaused), viewers' = vw,
           overflow \subseteq ToSet(vw) \cap sending',
           slow \subseteq (ToSet(vw) \cap sending') \ overflow
    PROVE  /\ SlowAreCounted' /\ overflow' \subseteq Viewers
           /\ viewersOverflowCount' \in 0..Len(viewers') /\ paused' \in BOOLEAN
<1>1. /\ Cardinality(overflow \cup slow) = Cardinality(overflow) + Cardinality(slow)
      /\ Cardinality(overflow) + Cardinality(slow) \in 0..Len(vw)
      /\ overflow \cup slow \subseteq Viewers
  BY CountMore, ZenonT(40)
<1>2. viewersOverflowCount = Cardinality(overflow)
  BY DEF IInv, SlowAreCounted
<1>3. overflow' = overflow \cup slow
      /\ viewersOverflowCount' = Cardinality(overflow) + Cardinality(slow)
  BY <1>2 DEF BecomeSlow
<1>4. Present' = ToSet(vw)
  BY DEF Present, ToSet
<1>5. paused' \in BOOLEAN
  BY DEF BecomeSlow
<1> QED  BY <1>1, <1>3, <1>4, <1>5 DEF SlowAreCounted

\* Those that become slow were not, and are among those looked at.
LEMMA SlowAre ==
    ASSUME NEW vs, NEW q, NEW p
    PROVE  Slow(vs, q, p) \subseteq vs \ overflow
BY DEF Slow

\* A viewer catches up if it did in the same list.
LEMMA CatchesKept ==
    ASSUME UNCHANGED <<images, screen, firstData>>, NEW w, NEW cv, NEW p, Catches(cv, p),
           canvas'[w] = cv, dataPtr'[w] = p
    PROVE  Catches(canvas[w], dataPtr[w])'
BY DEF Catches, Tiles

\* The list stays as it is.
LEMMA SameListStep ==
    ASSUME IInv, UNCHANGED <<images, imagesCounters, screen, firstData, lastData>>,
           Bounded', TypeOK', Placed', SlowAreCounted',
           \A w \in Present' : Catches(canvas[w], dataPtr[w])'
    PROVE  IInv'
<1>1. Linked(DOMAIN images, images, firstData, lastData)'
  BY DEF IInv, Linked, Follows, Precedes
<1>2. Counting'
  BY DEF IInv, Counting, Tiles
<1>3. Shown'
  BY DEF IInv, Shown, Tiles
<1>4. CatchingUp'
  BY DEF CatchingUp
<1> QED  BY <1>1, <1>2, <1>3, <1>4 DEF IInv

\* Only viewers changed.
LEMMA ViewersStep ==
    ASSUME IInv, UNCHANGED <<counter, images, imagesCounters, screen, firstData, lastData>>,
           writes' = writes, sent' = sent, TypeOK', Placed', SlowAreCounted',
           \A w \in Present' : Catches(canvas[w], dataPtr[w])'
    PROVE  IInv'
<1>1. Bounded'
  BY DEF IInv, Bounded
<1> QED  BY <1>1, SameListStep

\* The images are numbers.
LEMMA ImagesAre ==
    ASSUME IInv
    PROVE  /\ DOMAIN images \subseteq Numbers \ {0} /\ DOMAIN images \subseteq Nat \ {0}
           /\ \A d \in DOMAIN images : d \in Nat /\ d # 0
           /\ firstData \in DOMAIN images \cup {0}
           /\ firstData = 0 => DOMAIN images = {} /\ screen = Blank
<1>1. DOMAIN images \subseteq Numbers \ {0} /\ Numbers \subseteq Nat
  BY Zero DEF IInv, TypeOK
<1>2. \A d \in DOMAIN images : d \in Nat /\ d # 0
  BY <1>1
<1>3. Follows(DOMAIN images, 0, firstData)
  BY DEF IInv, Linked
<1>4. firstData \in DOMAIN images \cup {0}
  BY <1>3 DEF Follows
<1>5. ASSUME firstData = 0  PROVE DOMAIN images = {}
  <2>1. \A j \in DOMAIN images : j <= 0
    BY <1>2, <1>3, <1>5 DEF Follows
  <2> QED  BY <1>2, <2>1, SMTT(30)
<1>6. ASSUME firstData = 0  PROVE screen = Blank
  <2>1. \A c \in Tiles : screen[c] = 0
    BY <1>5, <1>6 DEF IInv, Shown
  <2>2. screen \in [Tiles -> Numbers]
    BY DEF IInv, TypeOK
  <2> QED  BY <2>1, <2>2 DEF Blank
<1> QED  BY <1>1, <1>2, <1>4, <1>5, <1>6

\* Those present are viewers.
LEMMA PresentAre ==
    ASSUME IInv
    PROVE  /\ viewers \in Seq(Viewers) /\ IsInjective(viewers)
           /\ Present = ToSet(viewers) /\ Present \subseteq Viewers
           /\ overflow \subseteq Present /\ overflow \subseteq sending
<1>1. viewers \in Seq(Viewers) /\ IsInjective(viewers)
  BY DEF IInv, TypeOK
<1>2. ToSet(viewers) \subseteq Viewers
  BY <1>1 DEF ToSet
<1> QED  BY <1>1, <1>2 DEF IInv, SlowAreCounted, Present

\* A viewer joins.
LEMMA JoinStep ==
    ASSUME IInv, NEW v \in Viewers, Join(v)
    PROVE  IInv'
<1> DEFINE vw == Append(viewers, v)
           idle == Present \ sending
           ptr == [dataPtr EXCEPT ![v] = firstData]
<1>1. /\ viewers \in Seq(Viewers) /\ IsInjective(viewers)
      /\ Present = ToSet(viewers) /\ Present \subseteq Viewers
      /\ overflow \subseteq Present /\ overflow \subseteq sending
  BY PresentAre
<1>2. vw \in Seq(Viewers) /\ IsInjective(vw) /\ ToSet(vw) = Present \cup {v}
  <2>1. /\ vw \in Seq(Viewers) /\ Len(viewers) \in Nat /\ DOMAIN vw = 1..(Len(viewers) + 1)
        /\ DOMAIN viewers = 1..Len(viewers)
        /\ \A k \in 1..Len(viewers) : vw[k] = viewers[k]
        /\ vw[Len(viewers) + 1] = v
    BY <1>1
  <2> HIDE DEF vw
  <2>2. \A k \in 1..Len(viewers) : viewers[k] \in Present /\ viewers[k] # v
    BY <1>1, <2>1 DEF Join, ToSet
  <2>3. \A k \in 1..(Len(viewers) + 1) : k \in 1..Len(viewers) \/ k = Len(viewers) + 1
    BY <2>1
  <2>4. IsInjective(vw)
    BY <1>1, <2>1, <2>2, <2>3 DEF IsInjective
  <2>5. ToSet(vw) \subseteq Present \cup {v}
    BY <2>1, <2>2, <2>3 DEF ToSet
  <2>6. Present \cup {v} \subseteq ToSet(vw)
    <3>1. \A k \in 1..Len(viewers) : k \in 1..(Len(viewers) + 1)
      BY <2>1
    <3>2. Len(viewers) + 1 \in 1..(Len(viewers) + 1)
      BY <2>1
    <3> QED  BY <1>1, <2>1, <3>1, <3>2 DEF ToSet
  <2> QED  BY <2>1, <2>4, <2>5, <2>6
<1>3. /\ viewers' = vw /\ dataPtr' = ptr /\ sending' = sending \cup Present \cup {v}
      /\ BecomeSlow(Slow(idle \cup {v}, queue, ptr), vw, paused)
      /\ UNCHANGED <<mux, agent, closed, recording, counter, images, imagesCounters, screen,
                     size, firstData, lastData, writing, writes, canvas, refreshed, sent>>
      /\ v \notin Present
  BY DEF Join, listVars, writeVars
<1> HIDE DEF vw
<1>4. /\ SlowAreCounted' /\ overflow' \subseteq Viewers
      /\ viewersOverflowCount' \in 0..Len(viewers') /\ paused' \in BOOLEAN
  <2>1. paused \in BOOLEAN
    BY DEF IInv, TypeOK
  <2>2. overflow \subseteq ToSet(vw) \cap sending'
    BY <1>1, <1>2, <1>3
  <2>3. Slow(idle \cup {v}, queue, ptr) \subseteq (ToSet(vw) \cap sending') \ overflow
    BY <1>2, <1>3, SlowAre
  <2> HIDE DEF idle, ptr
  <2> QED  BY <1>2, <1>3, <2>1, <2>2, <2>3, SlowStep
<1>5. firstData \in DOMAIN images \cup {0} /\ firstData \in Numbers /\ dataPtr \in [Viewers -> Numbers]
  BY ImagesAre DEF IInv, TypeOK
<1>6. queue' \in [Viewers -> Nat]
  <2>1. queue \in [Viewers -> Nat]
    BY DEF IInv, TypeOK
  <2> QED  BY <2>1 DEF Join
<1>7. TypeOK'
  <2>1. dataPtr' \in [Viewers -> Numbers]
    BY <1>3, <1>5
  <2>2. sending' \subseteq Viewers
    BY <1>1, <1>3 DEF IInv, TypeOK
  <2> QED  BY <1>2, <1>3, <1>4, <1>6, <2>1, <2>2 DEF IInv, TypeOK, Tiles, Numbers
<1>8. \A w \in Viewers : dataPtr'[w] = IF w = v THEN firstData ELSE dataPtr[w]
  BY <1>3, <1>5
<1>9. Present' = Present \cup {v}
  BY <1>2, <1>3 DEF Present, ToSet
<1>10. Placed'
  <2> SUFFICES ASSUME NEW w \in Viewers
               PROVE  /\ dataPtr'[w] \in DOMAIN images' \cup {0}
                      /\ w \notin Present' => dataPtr'[w] = 0 /\ canvas'[w] = Blank'
    BY DEF Placed
  <2>1. Blank' = Blank
    BY DEF Blank, Tiles
  <2> QED  BY <1>3, <1>5, <1>8, <1>9, <2>1 DEF IInv, Placed
<1>11. ASSUME NEW w \in Present'  PROVE Catches(canvas[w], dataPtr[w])'
  <2>1. w \in Viewers
    BY <1>1, <1>9
  <2>2. CASE w = v
    <3>1. canvas[v] = Blank
      BY <1>3 DEF IInv, Placed
    <3>2. Catches(Blank, firstData)
      <4>1. CASE firstData = 0
        BY <4>1, ImagesAre DEF Catches
      <4>2. CASE firstData # 0
        BY <4>2 DEF Catches
      <4> QED  BY <4>1, <4>2
    <3>3. canvas'[w] = Blank /\ dataPtr'[w] = firstData
      BY <1>3, <1>8, <2>2, <3>1
    <3> QED  BY <1>3, <3>2, <3>3, CatchesKept
  <2>3. CASE w # v
    <3>1. Catches(canvas[w], dataPtr[w])
      BY <1>9, <2>3 DEF IInv, CatchingUp
    <3>2. canvas'[w] = canvas[w] /\ dataPtr'[w] = dataPtr[w]
      BY <1>3, <1>8, <2>1, <2>3
    <3> QED  BY <1>3, <3>1, <3>2, CatchesKept
  <2> QED  BY <2>2, <2>3
<1> QED  BY <1>3, <1>4, <1>7, <1>10, <1>11, ViewersStep

\* The agent joins.
LEMMA AgentJoinsStep ==
    ASSUME IInv, AgentJoins
    PROVE  IInv'
<1>1. /\ agent' = "in" /\ paused' = FALSE
      /\ UNCHANGED <<mux, viewers, closed, recording, sending, queue, overflow,
                     viewersOverflowCount, counter, images, imagesCounters, screen, size,
                     firstData, lastData, writing, writes, dataPtr, canvas, refreshed, sent>>
  BY DEF AgentJoins, listVars, writeVars
<1>2. TypeOK'
  BY <1>1 DEF IInv, TypeOK, Tiles, Numbers
<1>3. Placed' /\ SlowAreCounted' /\ Present' = Present
  <2>1. Blank' = Blank
    BY DEF Blank, Tiles
  <2> QED  BY <1>1, <2>1 DEF IInv, Placed, SlowAreCounted, Present, ToSet
<1>4. ASSUME NEW w \in Present'  PROVE Catches(canvas[w], dataPtr[w])'
  <2>1. Catches(canvas[w], dataPtr[w])
    BY <1>3 DEF IInv, CatchingUp
  <2> QED  BY <1>1, <2>1, CatchesKept
<1> QED  BY <1>1, <1>2, <1>3, <1>4, ViewersStep

\* Everything is forgotten.
LEMMA DisposeStep ==
    ASSUME IInv, Dispose, closed' \subseteq Viewers
    PROVE  IInv'
<1>0. /\ MaxData \in Nat /\ 0 \in Numbers /\ 1 \in Numbers /\ Blank \in [Tiles -> Numbers]
      /\ Numbers' = Numbers /\ Tiles' = Tiles /\ Blank' = Blank
  BY MultiplexAssumption, Zero DEF Numbers, Tiles, Blank
<1>1. IsInjective(<<>>) /\ ToSet(<<>>) = {} /\ <<>> \in Seq(Viewers) /\ Len(<<>>) = 0
      /\ <<>> \in Seq(Commands)
  BY DEF IsInjective, ToSet
<1>2. DOMAIN <<>> = {}
  OBVIOUS
<1>3. Commands' = Commands
  BY DEF Commands
<1>4. TypeOK'
  <2>1. /\ (mux \in {"live", "disposed"} /\ agent \in {"none", "in", "gone"})'
        /\ (paused \in BOOLEAN /\ recording \in BOOLEAN /\ writing \in BOOLEAN)'
        /\ (sending \subseteq Viewers /\ overflow \subseteq Viewers)'
        /\ (closed \subseteq Viewers /\ refreshed \subseteq Viewers)'
    BY DEF Dispose
  <2>2. (viewers \in Seq(Viewers) /\ IsInjective(viewers))'
    BY <1>1 DEF Dispose
  <2>3. (dataPtr \in [Viewers -> Numbers] /\ queue \in [Viewers -> Nat])'
    BY <1>0 DEF Dispose
  <2>4. (viewersOverflowCount \in 0..Len(viewers))'
    BY <1>1 DEF Dispose
  <2>5. (/\ counter \in Numbers /\ firstData \in Numbers /\ lastData \in Numbers
         /\ size \in Sizes \cup {{}} /\ sent \in 0..MaxData)'
    BY <1>0 DEF Dispose
  <2>6. (/\ DOMAIN images \subseteq Numbers \ {0}
         /\ \A i \in DOMAIN images :
               images[i] \in [prev : Numbers, next : Numbers, tiles : SUBSET Tiles]
         /\ DOMAIN imagesCounters \subseteq DOMAIN images
         /\ \A i \in DOMAIN imagesCounters : imagesCounters[i] \in Int)'
    BY <1>2 DEF Dispose
  <2>7. (/\ screen \in [Tiles -> Numbers] /\ writes \in Seq(Commands)
         /\ canvas \in [Viewers -> [Tiles -> Numbers]])'
    BY <1>0, <1>1, <1>3 DEF Dispose
  <2> QED  BY <2>1, <2>2, <2>3, <2>4, <2>5, <2>6, <2>7 DEF TypeOK
<1>5. Bounded'
  BY <1>0, <1>1, <1>2 DEF Bounded, Dispose
<1>6. Linked(DOMAIN images, images, firstData, lastData)'
  BY <1>2 DEF Linked, Dispose, Follows
<1>7. Counting'
  BY <1>2 DEF Counting, Dispose
<1>8. Shown'
  BY <1>0, <1>2 DEF Shown, Dispose, Blank
<1>9. Present' = {}
  BY <1>1 DEF Present, Dispose
<1>10. Placed'
  BY <1>0, <1>2 DEF Placed, Dispose
<1>11. CatchingUp'
  BY <1>9 DEF CatchingUp
<1>12. SlowAreCounted'
  BY FS_EmptySet DEF SlowAreCounted, Dispose
<1> QED  BY <1>4, <1>5, <1>6, <1>7, <1>8, <1>10, <1>11, <1>12 DEF IInv

\* The agent leaves.
LEMMA AgentLeavesStep ==
    ASSUME IInv, AgentLeaves
    PROVE  IInv'
<1>1. closed' \subseteq Viewers
  <2>1. viewers \in Seq(Viewers) /\ closed \subseteq Viewers
    BY DEF IInv, TypeOK
  <2>2. \A k \in DOMAIN viewers : viewers[k] \in Viewers
    BY <2>1
  <2> QED  BY <2>1, <2>2 DEF AgentLeaves
<1> QED  BY <1>1, DisposeStep DEF AgentLeaves

\* A viewer leaves.
LEMMA LeaveStep ==
    ASSUME IInv, NEW v \in Viewers, Leave(v)
    PROVE  IInv'
<1> DEFINE left == RemoveFirst(viewers, v)
           count == NoLongerSlow(v)
           idle == ToSet(left) \ sending
           slow == Slow(idle, queue, dataPtr)
           resumed == v \in overflow /\ count < Len(left) /\ ~writing
<1>1. v \in Present /\ closed' = closed \cup {v}
  BY DEF Leave
<1>2. /\ viewers \in Seq(Viewers) /\ IsInjective(viewers)
      /\ Present = ToSet(viewers) /\ Present \subseteq Viewers
      /\ overflow \subseteq Present /\ overflow \subseteq sending
  BY PresentAre
<1>3. left \in Seq(Viewers) /\ IsInjective(left) /\ ToSet(left) = Present \ {v}
  BY <1>1, <1>2, RemoveViewer
<1>4. closed' \subseteq Viewers
  BY <1>1 DEF IInv, TypeOK
<1>5. CASE left = <<>> /\ agent = "in"
  BY <1>4, <1>5, DisposeStep DEF Leave
<1>6. CASE ~(left = <<>> /\ agent = "in")
  <2>1. /\ viewers' = left
        /\ queue' = [w \in Viewers |->
                       IF w = v THEN 0
                       ELSE IF w \in ToSet(left) \cap sending THEN queue[w] + 1 ELSE queue[w]]
        /\ sending' = (sending \ {v}) \cup ToSet(left)
        /\ overflow' = (overflow \ {v}) \cup slow
        /\ viewersOverflowCount' = count + Cardinality(slow)
        /\ paused' = (\/ paused /\ ~resumed
                      \/ /\ slow # {} /\ agent = "in"
                         /\ viewersOverflowCount' >= Len(left))
        /\ dataPtr' = [dataPtr EXCEPT ![v] = 0]
        /\ canvas' = [canvas EXCEPT ![v] = Blank]
        /\ UNCHANGED <<mux, agent, recording, counter, images, imagesCounters, screen, size,
                       firstData, lastData, writing, writes, refreshed, sent>>
    BY <1>6 DEF Leave, listVars, writeVars
  <2> HIDE DEF left
  <2>2. slow \subseteq idle \ overflow
    BY SlowAre
  <2> HIDE DEF slow
  <2>3. Present' = Present \ {v}
    BY <1>3, <2>1 DEF Present
  <2>4. /\ SlowAreCounted' /\ overflow' \subseteq Viewers
        /\ viewersOverflowCount' \in 0..Len(viewers')
    <3> DEFINE old == overflow \ {v}
    <3>1. old \subseteq ToSet(left) /\ slow \subseteq ToSet(left) \ old
      BY <1>2, <1>3, <2>2
    <3>2. /\ Cardinality(old \cup slow) = Cardinality(old) + Cardinality(slow)
          /\ Cardinality(old) + Cardinality(slow) \in 0..Len(left)
          /\ old \cup slow \subseteq Viewers
          /\ IsFiniteSet(old) /\ Cardinality(old) \in Nat /\ Cardinality(slow) \in Nat
      <4> HIDE DEF old
      <4> QED  BY <1>3, <3>1, CountMore
    <3>3. count = Cardinality(old)
      <4>1. viewersOverflowCount = Cardinality(overflow)
        BY DEF IInv, SlowAreCounted
      <4>2. IsFiniteSet(overflow)
        <5>1. IsFiniteSet(Present)
          BY <1>2, ToSetFinite
        <5> QED  BY <1>2, <5>1, FS_Subset
      <4>3. Cardinality(overflow) \in Nat
            /\ Cardinality(old) = IF v \in overflow THEN Cardinality(overflow) - 1
                                  ELSE Cardinality(overflow)
        BY <4>2, FS_RemoveElement, FS_CardinalityType
      <4> HIDE DEF old
      <4> QED  BY <4>1, <4>3 DEF NoLongerSlow
    <3>4. overflow' = old \cup slow /\ viewersOverflowCount' = Cardinality(old) + Cardinality(slow)
      BY <2>1, <3>3
    <3>5. overflow' \subseteq Present' \cap sending'
      BY <1>2, <1>3, <2>1, <2>2, <2>3
    <3> HIDE DEF old
    <3> QED  BY <2>1, <3>2, <3>4, <3>5 DEF SlowAreCounted
  <2>5. dataPtr \in [Viewers -> Numbers] /\ canvas \in [Viewers -> [Tiles -> Numbers]]
        /\ queue \in [Viewers -> Nat]
    BY DEF IInv, TypeOK
  <2>6. TypeOK'
    <3>1. dataPtr' \in [Viewers -> Numbers] /\ canvas' \in [Viewers -> [Tiles -> Numbers]]
      BY <2>1, <2>5, Zero
    <3>2. queue' \in [Viewers -> Nat]
      BY <2>1, <2>5
    <3>3. sending' \subseteq Viewers
      BY <1>2, <1>3, <2>1 DEF IInv, TypeOK
    <3>4. paused' \in BOOLEAN
      BY <2>1
    <3> QED  BY <1>3, <1>4, <2>1, <2>4, <3>1, <3>2, <3>3, <3>4 DEF IInv, TypeOK, Tiles, Numbers
  <2>7. \A w \in Viewers : /\ dataPtr'[w] = IF w = v THEN 0 ELSE dataPtr[w]
                           /\ canvas'[w] = IF w = v THEN Blank ELSE canvas[w]
    BY <2>1, <2>5
  <2>8. Placed'
    <3> SUFFICES ASSUME NEW w \in Viewers
                 PROVE  /\ dataPtr'[w] \in DOMAIN images' \cup {0}
                        /\ w \notin Present' => dataPtr'[w] = 0 /\ canvas'[w] = Blank'
      BY DEF Placed
    <3>1. Blank' = Blank
      BY DEF Blank, Tiles
    <3> QED  BY <2>1, <2>3, <2>7, <3>1 DEF IInv, Placed
  <2>9. ASSUME NEW w \in Present'  PROVE Catches(canvas[w], dataPtr[w])'
    <3>1. w \in Viewers /\ w # v /\ w \in Present
      BY <1>2, <2>3
    <3>2. Catches(canvas[w], dataPtr[w])
      BY <3>1 DEF IInv, CatchingUp
    <3>3. canvas'[w] = canvas[w] /\ dataPtr'[w] = dataPtr[w]
      BY <2>7, <3>1
    <3> QED  BY <2>1, <3>2, <3>3, CatchesKept
  <2> QED  BY <2>1, <2>4, <2>6, <2>8, <2>9, ViewersStep
<1> QED  BY <1>5, <1>6

\* One viewer is sent something, or nothing: only its own place changes.
LEMMA OneViewerStep ==
    ASSUME IInv, NEW v \in Present,
           UNCHANGED <<mux, agent, viewers, closed, recording, counter, images, imagesCounters,
                       screen, size, firstData, lastData, writing, writes, sent>>,
           refreshed' \subseteq Viewers,
           NEW p \in DOMAIN images \cup {0}, dataPtr' = [dataPtr EXCEPT ![v] = p],
           NEW cv \in [Tiles -> Numbers], canvas' = [canvas EXCEPT ![v] = cv],
           Catches(cv, p),
           queue' \in [Viewers -> Nat], sending' \subseteq Viewers,
           SlowAreCounted', overflow' \subseteq Viewers,
           viewersOverflowCount' \in 0..Len(viewers'), paused' \in BOOLEAN
    PROVE  IInv'
<1>1. /\ viewers \in Seq(Viewers) /\ Present \subseteq Viewers /\ v \in Viewers
      /\ dataPtr \in [Viewers -> Numbers] /\ canvas \in [Viewers -> [Tiles -> Numbers]]
  BY PresentAre DEF IInv, TypeOK
<1>2. Present' = Present /\ Blank' = Blank
  BY DEF Present, Blank, Tiles
<1>3. \A w \in Viewers : /\ dataPtr'[w] = IF w = v THEN p ELSE dataPtr[w]
                         /\ canvas'[w] = IF w = v THEN cv ELSE canvas[w]
  BY <1>1
<1>4. TypeOK'
  <2>1. p \in Numbers
    BY ImagesAre, Zero
  <2>2. dataPtr' \in [Viewers -> Numbers] /\ canvas' \in [Viewers -> [Tiles -> Numbers]]
    BY <1>1, <2>1
  <2> QED  BY <2>2 DEF IInv, TypeOK, Tiles, Numbers
<1>5. Placed'
  <2> SUFFICES ASSUME NEW w \in Viewers
               PROVE  /\ dataPtr'[w] \in DOMAIN images' \cup {0}
                      /\ w \notin Present' => dataPtr'[w] = 0 /\ canvas'[w] = Blank'
    BY DEF Placed
  <2> QED  BY <1>2, <1>3 DEF IInv, Placed
<1>6. ASSUME NEW w \in Present'  PROVE Catches(canvas[w], dataPtr[w])'
  <2>1. w \in Viewers /\ w \in Present
    BY <1>1, <1>2
  <2>2. CASE w = v
    BY <1>3, <2>1, <2>2, CatchesKept
  <2>3. CASE w # v
    <3>1. Catches(canvas[w], dataPtr[w])
      BY <2>1 DEF IInv, CatchingUp
    <3>2. canvas'[w] = canvas[w] /\ dataPtr'[w] = dataPtr[w]
      BY <1>3, <2>1, <2>3
    <3> QED  BY <3>1, <3>2, CatchesKept
  <2> QED  BY <2>2, <2>3
<1> QED  BY <1>4, <1>5, <1>6, ViewersStep

\* What was sent to a viewer was taken.
LEMMA DrainedStep ==
    ASSUME IInv, NEW v \in Viewers, Drained(v)
    PROVE  IInv'
<1>1. /\ v \in Present /\ v \in sending
      /\ UNCHANGED <<mux, agent, viewers, closed, recording, counter, images, imagesCounters,
                     screen, size, firstData, lastData, writing, writes, refreshed, sent>>
  BY DEF Drained, muxVars, listVars, writeVars
<1>2. /\ viewers \in Seq(Viewers) /\ Present = ToSet(viewers) /\ Present \subseteq Viewers
      /\ overflow \subseteq Present /\ overflow \subseteq sending
      /\ dataPtr \in [Viewers -> Numbers] /\ canvas \in [Viewers -> [Tiles -> Numbers]]
      /\ queue \in [Viewers -> Nat] /\ sending \subseteq Viewers /\ paused \in BOOLEAN
      /\ refreshed' \subseteq Viewers
  BY <1>1, PresentAre DEF IInv, TypeOK
<1>3. /\ dataPtr[v] \in DOMAIN images \cup {0} /\ Catches(canvas[v], dataPtr[v])
      /\ canvas[v] \in [Tiles -> Numbers]
      /\ dataPtr = [dataPtr EXCEPT ![v] = dataPtr[v]]
      /\ canvas = [canvas EXCEPT ![v] = canvas[v]]
  BY <1>1, <1>2 DEF IInv, Placed, CatchingUp
<1>4. CASE /\ queue[v] > 0
           /\ queue' = [queue EXCEPT ![v] = @ - 1]
           /\ BecomeSlow(Slow({v}, queue', dataPtr), viewers, paused)
           /\ UNCHANGED <<sending, dataPtr, canvas>>
  <2>1. overflow \subseteq ToSet(viewers) \cap sending'
    BY <1>2, <1>4
  <2>2. Slow({v}, queue', dataPtr) \subseteq (ToSet(viewers) \cap sending') \ overflow
    BY <1>1, <1>2, <1>4, SlowAre
  <2>3. /\ SlowAreCounted' /\ overflow' \subseteq Viewers
        /\ viewersOverflowCount' \in 0..Len(viewers') /\ paused' \in BOOLEAN
    BY <1>1, <1>2, <1>4, <2>1, <2>2, SlowStep
  <2>4. queue' \in [Viewers -> Nat] /\ sending' \subseteq Viewers
    BY <1>2, <1>4
  <2>5. dataPtr' = [dataPtr EXCEPT ![v] = dataPtr[v]] /\ canvas' = [canvas EXCEPT ![v] = canvas[v]]
    BY <1>3, <1>4
  <2> QED  BY <1>1, <1>2, <1>3, <2>3, <2>4, <2>5, OneViewerStep
<1>5. CASE /\ queue[v] = 0 /\ dataPtr[v] # 0
           /\ SendImage(v)
           /\ BecomeSlow(Slow({v}, queue, dataPtr'), viewers, paused)
           /\ UNCHANGED <<sending, queue>>
  <2> DEFINE cv == Paint(canvas[v], dataPtr[v])
             p == images[dataPtr[v]].next
  <2>1. overflow \subseteq ToSet(viewers) \cap sending'
    BY <1>2, <1>5
  <2>2. Slow({v}, queue, dataPtr') \subseteq (ToSet(viewers) \cap sending') \ overflow
    BY <1>1, <1>2, <1>5, SlowAre
  <2>3. /\ SlowAreCounted' /\ overflow' \subseteq Viewers
        /\ viewersOverflowCount' \in 0..Len(viewers') /\ paused' \in BOOLEAN
    BY <1>1, <1>2, <1>5, <2>1, <2>2, SlowStep
  <2>4. queue' \in [Viewers -> Nat] /\ sending' \subseteq Viewers
    BY <1>2, <1>5
  <2>5. dataPtr' = [dataPtr EXCEPT ![v] = p] /\ canvas' = [canvas EXCEPT ![v] = cv]
    BY <1>1, <1>2, <1>5 DEF SendImage
  <2>6. dataPtr[v] \in DOMAIN images
    BY <1>3, <1>5
  <2>7. cv \in [Tiles -> Numbers] /\ Catches(cv, p)
    <3>1. /\ DOMAIN images \subseteq Numbers \ {0} /\ Shown /\ screen \in [Tiles -> Numbers]
          /\ Linked(DOMAIN images, images, firstData, lastData)
      BY DEF IInv, TypeOK
    <3> QED  BY <1>3, <2>6, <3>1, PaintCatches
  <2>8. p \in DOMAIN images \cup {0}
    <3>1. Follows(DOMAIN images, dataPtr[v], p)
      BY <2>6 DEF IInv, Linked
    <3> HIDE DEF p
    <3> QED  BY <3>1 DEF Follows
  <2> HIDE DEF cv, p
  <2> QED  BY <1>1, <1>2, <2>3, <2>4, <2>5, <2>7, <2>8, OneViewerStep
<1>6. CASE /\ queue[v] = 0 /\ dataPtr[v] = 0
           /\ sending' = sending \ {v} /\ overflow' = overflow \ {v}
           /\ viewersOverflowCount' = NoLongerSlow(v)
           /\ paused' = (paused /\ ~(/\ v \in overflow /\ ~writing
                                     /\ viewersOverflowCount' < Len(viewers)))
           /\ UNCHANGED <<queue, dataPtr, canvas>>
  <2>1. IsFiniteSet(overflow)
    <3>1. IsFiniteSet(Present)
      BY <1>2, ToSetFinite
    <3> QED  BY <1>2, <3>1, FS_Subset
  <2>2. /\ Cardinality(overflow) \in Nat
        /\ Cardinality(overflow \ {v}) = IF v \in overflow THEN Cardinality(overflow) - 1
                                         ELSE Cardinality(overflow)
        /\ Cardinality(overflow \ {v}) \in Nat
    BY <2>1, FS_RemoveElement, FS_CardinalityType
  <2>3. viewersOverflowCount = Cardinality(overflow)
    BY DEF IInv, SlowAreCounted
  <2>4. viewersOverflowCount' = Cardinality(overflow')
    BY <1>6, <2>2, <2>3 DEF NoLongerSlow
  <2>5. viewersOverflowCount' \in 0..Len(viewers')
    <3>1. viewersOverflowCount \in 0..Len(viewers) /\ Len(viewers) \in Nat
      BY <1>2 DEF IInv, TypeOK
    <3> QED  BY <1>1, <1>6, <2>2, <2>3, <2>4, <3>1
  <2>6. SlowAreCounted' /\ overflow' \subseteq Viewers
    <3>1. Present' = Present
      BY <1>1 DEF Present
    <3> QED  BY <1>2, <1>6, <2>4, <3>1 DEF SlowAreCounted
  <2>7. queue' \in [Viewers -> Nat] /\ sending' \subseteq Viewers /\ paused' \in BOOLEAN
    BY <1>2, <1>6
  <2>8. dataPtr' = [dataPtr EXCEPT ![v] = dataPtr[v]] /\ canvas' = [canvas EXCEPT ![v] = canvas[v]]
    BY <1>3, <1>6
  <2> QED  BY <1>1, <1>2, <1>3, <2>5, <2>6, <2>7, <2>8, OneViewerStep
<1> QED  BY <1>4, <1>5, <1>6 DEF Drained

\* A viewer asks for everything again.
LEMMA RefreshStep ==
    ASSUME IInv, NEW v \in Viewers, Refresh(v)
    PROVE  IInv'
<1>1. /\ v \in Present
      /\ UNCHANGED <<mux, agent, viewers, closed, recording, counter, images, imagesCounters,
                     screen, size, firstData, lastData, writing, writes, sent>>
  BY DEF Refresh, muxVars, listVars, writeVars
<1>2. /\ viewers \in Seq(Viewers) /\ Present = ToSet(viewers) /\ Present \subseteq Viewers
      /\ overflow \subseteq Present /\ overflow \subseteq sending
      /\ dataPtr \in [Viewers -> Numbers] /\ canvas \in [Viewers -> [Tiles -> Numbers]]
      /\ queue \in [Viewers -> Nat] /\ sending \subseteq Viewers /\ paused \in BOOLEAN
      /\ refreshed \subseteq Viewers
  BY <1>1, PresentAre DEF IInv, TypeOK
<1>3. /\ dataPtr[v] \in DOMAIN images \cup {0} /\ Catches(canvas[v], dataPtr[v])
      /\ canvas[v] \in [Tiles -> Numbers]
      /\ canvas = [canvas EXCEPT ![v] = canvas[v]]
  BY <1>1, <1>2 DEF IInv, Placed, CatchingUp
<1>4. refreshed' \subseteq Viewers
  BY <1>2 DEF Refresh
<1>5. CASE v \in sending \/ firstData = 0
  <2>1. /\ dataPtr' = [dataPtr EXCEPT ![v] = firstData]
        /\ UNCHANGED <<paused, sending, queue, overflow, viewersOverflowCount, canvas>>
    BY <1>5 DEF Refresh, flowVars
  <2>2. SlowAreCounted' /\ overflow' \subseteq Viewers
        /\ viewersOverflowCount' \in 0..Len(viewers') /\ paused' \in BOOLEAN
    <3>1. Present' = Present
      BY <1>1 DEF Present
    <3> QED  BY <1>1, <2>1, <3>1 DEF IInv, TypeOK, SlowAreCounted
  <2>3. firstData \in DOMAIN images \cup {0}
    BY ImagesAre
  <2>4. Catches(canvas[v], firstData)
    <3>1. CASE firstData = 0
      <4>1. dataPtr[v] = 0
        BY <1>3, <3>1, ImagesAre
      <4> QED  BY <1>3, <3>1, <4>1
    <3>2. CASE firstData # 0
      BY <3>2 DEF Catches
    <3> QED  BY <3>1, <3>2
  <2>5. canvas' = [canvas EXCEPT ![v] = canvas[v]] /\ queue' \in [Viewers -> Nat] /\ sending' \subseteq Viewers
    BY <1>2, <1>3, <2>1
  <2> QED  BY <1>1, <1>3, <1>4, <2>1, <2>2, <2>3, <2>4, <2>5, OneViewerStep
<1>6. CASE ~(v \in sending \/ firstData = 0)
  <2> DEFINE p == images[firstData].next
  <2>1. /\ canvas' = [canvas EXCEPT ![v] = Blank]
        /\ dataPtr' = [dataPtr EXCEPT ![v] = p]
        /\ sending' = sending \cup {v}
        /\ BecomeSlow(Slow({v}, queue, dataPtr'), viewers, paused)
        /\ UNCHANGED queue
    BY <1>6 DEF Refresh
  <2>2. overflow \subseteq ToSet(viewers) \cap sending'
    BY <1>2, <2>1
  <2>3. Slow({v}, queue, dataPtr') \subseteq (ToSet(viewers) \cap sending') \ overflow
    BY <1>1, <1>2, <2>1, SlowAre
  <2>4. /\ SlowAreCounted' /\ overflow' \subseteq Viewers
        /\ viewersOverflowCount' \in 0..Len(viewers') /\ paused' \in BOOLEAN
    BY <1>1, <1>2, <2>1, <2>2, <2>3, SlowStep
  <2>5. queue' \in [Viewers -> Nat] /\ sending' \subseteq Viewers
    BY <1>1, <1>2, <2>1
  <2>6. firstData \in DOMAIN images
    BY <1>6, ImagesAre
  <2>7. Blank \in [Tiles -> Numbers] /\ Catches(Blank, p)
    <3>1. /\ DOMAIN images \subseteq Numbers \ {0} /\ Shown /\ screen \in [Tiles -> Numbers]
          /\ Linked(DOMAIN images, images, firstData, lastData)
      BY DEF IInv, TypeOK
    <3>2. Catches(canvas[v], firstData)
      BY <1>6 DEF Catches
    <3>3. Catches(Paint(canvas[v], firstData), p)
      BY <1>3, <2>6, <3>1, <3>2, PaintCatches
    <3>4. Paint(canvas[v], firstData) = Blank
      BY DEF Paint
    <3> QED  BY <3>3, <3>4, Zero
  <2>8. p \in DOMAIN images \cup {0}
    <3>1. Follows(DOMAIN images, firstData, p)
      BY <2>6 DEF IInv, Linked
    <3> HIDE DEF p
    <3> QED  BY <3>1 DEF Follows
  <2> HIDE DEF p
  <2> QED  BY <1>1, <1>4, <2>1, <2>4, <2>5, <2>7, <2>8, OneViewerStep
<1> QED  BY <1>5, <1>6

\* The control command waits at, or goes to, all viewers.
LEMMA ToAllStep ==
    ASSUME IInv, NEW wasPaused \in BOOLEAN, ToAll(viewers, wasPaused),
           UNCHANGED viewers
    PROVE  /\ SlowAreCounted' /\ overflow' \subseteq Viewers
           /\ viewersOverflowCount' \in 0..Len(viewers') /\ paused' \in BOOLEAN
           /\ queue' \in [Viewers -> Nat] /\ sending' \subseteq Viewers
<1> DEFINE idle == ToSet(viewers) \ sending
<1>1. /\ queue' = [v \in Viewers |->
                     IF v \in ToSet(viewers) \cap sending THEN queue[v] + 1 ELSE queue[v]]
      /\ sending' = sending \cup idle
      /\ BecomeSlow(Slow(idle, queue, dataPtr), viewers, wasPaused)
  BY DEF ToAll
<1>2. /\ viewers \in Seq(Viewers) /\ Present = ToSet(viewers) /\ Present \subseteq Viewers
      /\ overflow \subseteq Present /\ overflow \subseteq sending
      /\ queue \in [Viewers -> Nat] /\ sending \subseteq Viewers
  BY PresentAre DEF IInv, TypeOK
<1>3. overflow \subseteq ToSet(viewers) \cap sending'
  BY <1>1, <1>2
<1>4. Slow(idle, queue, dataPtr) \subseteq (ToSet(viewers) \cap sending') \ overflow
  BY <1>1, <1>2, SlowAre
<1> HIDE DEF idle
<1>5. /\ SlowAreCounted' /\ overflow' \subseteq Viewers
      /\ viewersOverflowCount' \in 0..Len(viewers') /\ paused' \in BOOLEAN
  BY <1>1, <1>2, <1>3, <1>4, SlowStep
<1>6. queue' \in [Viewers -> Nat] /\ sending' \subseteq Viewers
  BY <1>1, <1>2 DEF idle
<1> QED  BY <1>5, <1>6

-----------------------------------------------------------------------------
(***************************************************************************)
(* The commands of the agent.                                              *)
(***************************************************************************)

\* The screen gets another size.
LEMMA ScreenSizeStep ==
    ASSUME IInv, NEW z \in Sizes, z # size, ScreenSize(z),
           UNCHANGED <<mux, agent, viewers, closed, recording, queue, overflow,
                       viewersOverflowCount, refreshed>>,
           paused' \in BOOLEAN, writing' \in BOOLEAN, writes' \in Seq(Commands),
           sent' \in 0..MaxData, counter + 1 + Len(writes') <= sent' + 1
    PROVE  IInv'
<1> DEFINE n == counter + 1
<1>1. /\ counter' = n /\ size' = z /\ screen' = Blank
      /\ images' = [i \in {n} |-> [prev |-> 0, next |-> 0, tiles |-> {}]]
      /\ imagesCounters' = <<>>
      /\ firstData' = n /\ lastData' = n
      /\ dataPtr' = [v \in Viewers |-> IF v \in Present \cap sending THEN n ELSE 0]
      /\ canvas' = [v \in Viewers |->
                      IF v \in Present \ sending THEN Blank ELSE canvas[v]]
      /\ sending' = sending \cup Present
  BY DEF ScreenSize
<1>2. /\ n \in Nat /\ n # 0 /\ n \in Numbers /\ MaxData \in Nat /\ counter \in Nat
  <2>1. counter \in Nat /\ MaxData \in Nat /\ Len(writes') \in Nat
    BY MultiplexAssumption, Zero DEF IInv, TypeOK
  <2>2. n <= MaxData + 1
    BY <2>1
  <2> QED  BY <2>1, <2>2 DEF Numbers
<1> HIDE DEF n
<1>3. /\ Present' = Present /\ Present \subseteq Viewers /\ Blank' = Blank
      /\ overflow \subseteq Present /\ sending \subseteq Viewers
      /\ canvas \in [Viewers -> [Tiles -> Numbers]] /\ Tiles' = Tiles /\ Numbers' = Numbers
      /\ Commands' = Commands
  BY PresentAre DEF IInv, TypeOK, Present, Blank, Tiles, Numbers, Commands
<1>4. DOMAIN images' = {n} /\ images'[n] = [prev |-> 0, next |-> 0, tiles |-> {}]
  BY <1>1
<1>5. DOMAIN imagesCounters' = {}
  BY <1>1
<1>6. TypeOK'
  <2>1. (/\ DOMAIN images \subseteq Numbers \ {0}
         /\ \A i \in DOMAIN images :
               images[i] \in [prev : Numbers, next : Numbers, tiles : SUBSET Tiles]
         /\ DOMAIN imagesCounters \subseteq DOMAIN images
         /\ \A i \in DOMAIN imagesCounters : imagesCounters[i] \in Int)'
    BY <1>2, <1>3, <1>4, <1>5, Zero
  <2>2. (dataPtr \in [Viewers -> Numbers] /\ canvas \in [Viewers -> [Tiles -> Numbers]])'
    BY <1>1, <1>2, <1>3, Zero
  <2>3. (/\ counter \in Numbers /\ firstData \in Numbers /\ lastData \in Numbers
         /\ size \in Sizes \cup {{}} /\ screen \in [Tiles -> Numbers]
         /\ sending \subseteq Viewers /\ writes \in Seq(Commands))'
    BY <1>1, <1>2, <1>3, Zero
  <2> QED  BY <2>1, <2>2, <2>3 DEF IInv, TypeOK
<1>7. Bounded'
  BY <1>1, <1>2, <1>4 DEF Bounded, n
<1>8. Linked(DOMAIN images, images, firstData, lastData)'
  <2>1. Linked({n}, images', n, n)
    BY <1>2, <1>4 DEF Linked, Follows, Precedes
  <2> QED  BY <1>1, <1>4, <2>1 DEF Linked, Follows, Precedes
<1>9. Counting'
  BY <1>1, <1>4, <1>5 DEF Counting
<1>10. Shown'
  BY <1>1, <1>3, <1>4 DEF Shown, Blank
<1>11. Placed'
  <2> SUFFICES ASSUME NEW w \in Viewers
               PROVE  /\ dataPtr'[w] \in DOMAIN images' \cup {0}
                      /\ w \notin Present' => dataPtr'[w] = 0 /\ canvas'[w] = Blank'
    BY DEF Placed
  <2> QED  BY <1>1, <1>3, <1>4 DEF IInv, Placed
<1>12. CatchingUp'
  <2> SUFFICES ASSUME NEW w \in Present  PROVE Catches(canvas[w], dataPtr[w])'
    BY <1>3 DEF CatchingUp
  <2>1. CASE w \in sending
    BY <1>1, <1>2, <1>3, <2>1 DEF Catches
  <2>2. CASE w \notin sending
    BY <1>1, <1>3, <2>2 DEF Catches
  <2> QED  BY <2>1, <2>2
<1>13. SlowAreCounted'
  BY <1>1, <1>3 DEF IInv, SlowAreCounted
<1> QED  BY <1>6, <1>7, <1>8, <1>9, <1>10, <1>11, <1>12, <1>13 DEF IInv

\* The list when image n came to its end.
Lengthened(n, r) ==
    [i \in DOMAIN images \cup {n} |->
        IF i = n THEN [prev |-> lastData, next |-> 0, tiles |-> r.tiles]
        ELSE IF i = lastData THEN [images[i] EXCEPT !.next = n]
        ELSE images[i]]

\* What is hidden is taken out of the longer list.
LEMMA LengthenedRest ==
    ASSUME IInv, lastData # 0, NEW r, NEW n \in Nat, \A d \in DOMAIN images : d < n
    PROVE  Rest(DOMAIN images \cup {n}, Lengthened(n, r), dataPtr, {})
             = [images |-> Lengthened(n, r), ptr |-> dataPtr]
<1> DEFINE D == DOMAIN images
           E == D \cup {n}
           im == Lengthened(n, r)
           old(i) == [prev |-> Before(E, i), next |-> After(E, i), tiles |-> im[i].tiles]
<1>1. /\ \A d \in D : d \in Nat /\ d # 0
      /\ lastData \in D /\ \A j \in D : j <= lastData
  BY ImagesAre DEF IInv, Linked
<1>2. n # 0 /\ lastData < n /\ n \notin D
  BY <1>1
<1>3. (\A d \in E : d \in Nat) /\ 0 \notin E
  BY <1>1, <1>2
<1>4. ASSUME NEW i \in E  PROVE im[i] = old(i)
  <2>1. CASE i = n
    <3>1. Follows(E, n, 0) /\ Precedes(E, n, lastData)
      BY <1>1, <1>2 DEF Follows, Precedes
    <3>2. After(E, n) = 0 /\ Before(E, n) = lastData
      <4> HIDE DEF E
      <4> QED  BY <1>3, <3>1, FollowsOne, PrecedesOne
    <3>3. im[n] = [prev |-> lastData, next |-> 0, tiles |-> r.tiles]
      BY DEF Lengthened
    <3> HIDE DEF im, E
    <3> QED  BY <2>1, <3>2, <3>3
  <2>2. CASE i # n
    <3>1. i \in D /\ i \in Nat
      BY <1>1, <2>2
    <3>2. /\ images[i] = [prev |-> images[i].prev, next |-> images[i].next,
                          tiles |-> images[i].tiles]
          /\ Follows(D, i, images[i].next) /\ Precedes(D, i, images[i].prev)
      BY <3>1 DEF IInv, TypeOK, Linked
    <3> DEFINE p == images[i].prev
               q == images[i].next
               t == images[i].tiles
    <3>3. Before(E, i) = p
      <4>1. Precedes(E, i, p)
        <5>1. Precedes(D, i, p)
          BY <3>2
        <5> HIDE DEF p, D
        <5> QED  BY <1>1, <1>2, <3>1, <5>1 DEF Precedes, E
      <4> HIDE DEF E, p
      <4> QED  BY <1>3, <3>1, <4>1, PrecedesOne
    <3>4. CASE i = lastData
      <4>1. Follows(E, i, n)
        BY <1>1, <1>2, <3>4 DEF Follows
      <4>2. After(E, i) = n
        <5> HIDE DEF E
        <5> QED  BY <1>3, <3>1, <4>1, FollowsOne
      <4>3. im[i] = [images[i] EXCEPT !.next = n]
        BY <2>2, <3>4 DEF Lengthened
      <4>4. im[i] = [prev |-> p, next |-> n, tiles |-> t]
        <5> HIDE DEF im, p, q, t
        <5>1. images[i] = [prev |-> p, next |-> q, tiles |-> t]
          BY <3>2 DEF p, q, t
        <5> QED  BY <4>3, <5>1
      <4> HIDE DEF im, E, p, t
      <4> QED  BY <3>3, <4>2, <4>4
    <3>5. CASE i # lastData
      <4>1. Follows(E, i, q)
        <5>1. i < lastData
          BY <1>1, <3>1, <3>5
        <5> HIDE DEF q
        <5> QED  BY <1>1, <1>2, <3>1, <3>2, <5>1 DEF Follows, q
      <4>2. After(E, i) = q
        <5> HIDE DEF E, q
        <5> QED  BY <1>3, <3>1, <4>1, FollowsOne
      <4>3. im[i] = images[i]
        BY <2>2, <3>1, <3>5 DEF Lengthened
      <4>4. im[i] = [prev |-> p, next |-> q, tiles |-> t]
        <5> HIDE DEF im, p, q, t
        <5>1. images[i] = [prev |-> p, next |-> q, tiles |-> t]
          BY <3>2 DEF p, q, t
        <5> QED  BY <4>3, <5>1
      <4> HIDE DEF im, E, p, q, t
      <4> QED  BY <3>3, <4>2, <4>4
    <3> QED  BY <3>4, <3>5
  <2> QED  BY <2>1, <2>2
<1>5. im = [i \in E |-> im[i]]
  BY DEF Lengthened
<1>6. [i \in E \ {} |-> [prev |-> Before(E \ {}, i), next |-> After(E \ {}, i),
                         tiles |-> im[i].tiles]] = im
  <2>1. E \ {} = E
    OBVIOUS
  <2>2. [i \in E |-> old(i)] = im
    <3> HIDE DEF im, old, E
    <3> QED  BY <1>4, <1>5
  <2> HIDE DEF E, im
  <2> QED  BY <2>1, <2>2
<1>7. [v \in Viewers |-> IF dataPtr[v] \in {} THEN After(E \ {}, dataPtr[v]) ELSE dataPtr[v]]
        = dataPtr
  <2>1. dataPtr = [v \in Viewers |-> dataPtr[v]]
    BY DEF IInv, TypeOK
  <2> QED  BY <2>1
<1> HIDE DEF E, im
<1> QED  BY <1>6, <1>7, Zenon DEF Rest, E, im

\* The images that are taken out are shown by covered tiles only.
LEMMA HiddenFacts ==
    ASSUME IInv, NEW r \in Rects
    PROVE  /\ Hidden(r.tiles) \subseteq DOMAIN images \ {firstData}
           /\ IsFiniteSet(Hidden(r.tiles))
           /\ \A c \in Tiles : c \notin r.tiles => screen[c] \notin Hidden(r.tiles)
           /\ IsFiniteSet(Tiles) /\ r.tiles \subseteq Tiles
<1> DEFINE H == Hidden(r.tiles)
<1>1. DOMAIN imagesCounters = DOMAIN images \ {firstData}
  BY DEF IInv, Counting
<1>2. H \subseteq DOMAIN images \ {firstData}
  BY <1>1 DEF Hidden
<1>3. IsFiniteSet(H)
  <2>1. MaxData + 1 \in Int /\ 0 \in Int
    BY MultiplexAssumption
  <2>2. IsFiniteSet(Numbers)
    BY <2>1, FS_Interval DEF Numbers
  <2>3. H \subseteq Numbers
    BY <1>2, ImagesAre
  <2> HIDE DEF H
  <2> QED  BY <2>2, <2>3, FS_Subset
<1>4. IsFiniteSet(Tiles)
  <2>1. IsFiniteSet(Sizes) /\ \A z \in Sizes : IsFiniteSet(z)
    BY MultiplexAssumption
  <2> QED  BY <2>1, FS_UNION DEF Tiles
<1>5. r.tiles \subseteq Tiles
  BY MultiplexAssumption DEF Tiles
<1>6. ASSUME NEW c \in Tiles, c \notin r.tiles, screen[c] \in H  PROVE FALSE
  <2> DEFINE i == screen[c]
             covered == {e \in r.tiles : screen[e] = i}
             all == {e \in Tiles : screen[e] = i}
  <2>1. i \in DOMAIN imagesCounters /\ imagesCounters[i] \in 1..Cardinality(covered)
    BY <1>6 DEF Hidden
  <2>2. covered \in SUBSET all /\ all \in SUBSET Tiles
    BY <1>5
  <2>3. IsFiniteSet(all) /\ IsFiniteSet(covered)
    <3> HIDE DEF all, covered
    <3>1. IsFiniteSet(all)
      BY <1>4, <2>2, FS_Subset
    <3> QED  BY <2>2, <3>1, FS_Subset
  <2>4. imagesCounters[i] = Cardinality(all)
    BY <2>1 DEF IInv, Counting
  <2>5. /\ Cardinality(covered) <= Cardinality(all)
        /\ Cardinality(all) = Cardinality(covered) => all = covered
        /\ Cardinality(all) \in Nat /\ Cardinality(covered) \in Nat
    <3> HIDE DEF all, covered
    <3> QED  BY <2>2, <2>3, FS_Subset, FS_CardinalityType
  <2>6. all = covered
    <3> HIDE DEF all, covered
    <3> QED  BY <2>1, <2>4, <2>5
  <2> QED  BY <1>6, <2>6
<1> QED  BY <1>2, <1>3, <1>4, <1>5, <1>6

\* What a tile makes of the list and of the pointers.
Left(n, r) == (DOMAIN images \cup {n}) \ Hidden(r.tiles)

\* Where viewer v is after the tile.
MovedTo(n, r, v) ==
    IF dataPtr[v] \in Hidden(r.tiles) THEN After(Left(n, r), dataPtr[v]) ELSE dataPtr[v]

\* A tile does that.
LEMMA TileGives ==
    ASSUME IInv, NEW r \in Rects, Tile(r), lastData # 0, NEW n, n = counter + 1
    PROVE  /\ n \in Nat /\ \A d \in DOMAIN images : d < n /\ d \in Nat /\ d # 0
           /\ firstData \in DOMAIN images
           /\ images' = [i \in Left(n, r) |->
                            [prev |-> Before(Left(n, r), i), next |-> After(Left(n, r), i),
                             tiles |-> IF i = n THEN r.tiles ELSE images[i].tiles]]
           /\ \A v \in Viewers :
                 MovedTo(n, r, v) \in Left(n, r) \cup {0}
                 /\ (MovedTo(n, r, v) = 0 <=> dataPtr[v] = 0)
           /\ dataPtr' = [v \in Viewers |->
                            IF dataPtr[v] # 0 THEN MovedTo(n, r, v)
                            ELSE IF v \in Present \cap sending THEN n ELSE 0]
           /\ canvas' = [v \in Viewers |->
                            IF v \in Present \ sending /\ dataPtr[v] = 0
                            THEN [c \in Tiles |-> IF c \in r.tiles THEN n ELSE canvas[v][c]]
                            ELSE canvas[v]]
           /\ sending \subseteq sending' /\ sending' \subseteq sending \cup Present
<1> DEFINE D == DOMAIN images
           E == D \cup {n}
           H == Hidden(r.tiles)
           im == Lengthened(n, r)
           s == FoldSet(Unlink, [images |-> im, ptr |-> dataPtr], H)
           idle == Waiting(s.ptr)
<1>1. n \in Nat /\ \A d \in D : d < n /\ d \in Nat /\ d # 0
  <2>1. counter \in Nat /\ D \subseteq 1..counter
    BY Zero DEF IInv, TypeOK, Bounded
  <2> QED  BY <2>1, ImagesAre
<1>2. /\ H \subseteq D \ {firstData} /\ IsFiniteSet(H)
  BY HiddenFacts
<1>3. firstData \in D /\ \A d \in D : firstData <= d
  <2>1. lastData \in D /\ firstData \in D \cup {0} /\ Follows(D, 0, firstData)
    BY ImagesAre DEF IInv, Linked
  <2> QED  BY <1>1, <2>1, ImagesAre DEF Follows
<1>4. s = Rest(E, im, dataPtr, H)
  <2>1. Rest(E, im, dataPtr, {}) = [images |-> im, ptr |-> dataPtr]
    BY <1>1, LengthenedRest
  <2>2. /\ \A d \in E : d \in Nat
        /\ 0 \notin E /\ H \in SUBSET E /\ firstData \in E \ H /\ n \in E \ H
    BY <1>1, <1>2, <1>3
  <2>3. (\A d \in H : firstData < d) /\ \A d \in H : d < n
    BY <1>1, <1>2, <1>3
  <2>4. FoldSet(Unlink, Rest(E, im, dataPtr, {}), H) = Rest(E, im, dataPtr, H)
    <3> HIDE DEF E, H, im
    <3> QED  BY <1>2, <2>2, <2>3, FoldOfUnlink
  <2> HIDE DEF E, H, im
  <2> QED  BY <2>1, <2>4 DEF s
<1>5. s.images = images' /\ sending' = sending \cup idle
      /\ canvas' = [v \in Viewers |->
            IF v \in idle THEN [c \in Tiles |-> IF c \in r.tiles THEN n ELSE canvas[v][c]]
            ELSE canvas[v]]
      /\ dataPtr' = [v \in Viewers |->
            IF v \in Present \ idle /\ s.ptr[v] = 0 THEN n ELSE s.ptr[v]]
  <2> DEFINE m == counter + 1
             big == [i \in DOMAIN images \cup {m} |->
                       IF i = m THEN [prev |-> lastData, next |-> 0, tiles |-> r.tiles]
                       ELSE IF i = lastData THEN [images[i] EXCEPT !.next = m]
                       ELSE images[i]]
             sm == FoldSet(Unlink, [images |-> big, ptr |-> dataPtr], Hidden(r.tiles))
             im2 == Waiting(sm.ptr)
  <2>1. /\ images' = sm.images /\ sending' = sending \cup im2
        /\ canvas' = [v \in Viewers |->
              IF v \in im2 THEN [c \in Tiles |-> IF c \in r.tiles THEN m ELSE canvas[v][c]]
              ELSE canvas[v]]
        /\ dataPtr' = [v \in Viewers |->
              IF v \in Present \ im2 /\ sm.ptr[v] = 0 THEN m ELSE sm.ptr[v]]
    BY Zenon DEF Tile
  <2>2. big = Lengthened(m, r)
    BY Zenon DEF Lengthened
  <2>3. m = n
    OBVIOUS
  <2> HIDE DEF m, big
  <2>4. sm = s
    BY <2>2, <2>3
  <2> HIDE DEF s, sm
  <2> QED  BY <2>1, <2>3, <2>4
<1>6. E \ H = Left(n, r)
  BY DEF Left
<1>7. \A v \in Viewers : s.ptr[v] = MovedTo(n, r, v)
  <2> HIDE DEF s
  <2> QED  BY <1>4, <1>6 DEF Rest, MovedTo
<1>8. ASSUME NEW v \in Viewers
      PROVE  /\ MovedTo(n, r, v) \in Left(n, r) \cup {0}
             /\ MovedTo(n, r, v) = 0 <=> dataPtr[v] = 0
  <2>1. dataPtr[v] \in D \cup {0}
    BY DEF IInv, Placed
  <2>2. CASE dataPtr[v] \in H
    <3>1. dataPtr[v] \in Nat /\ dataPtr[v] # 0 /\ dataPtr[v] < n
      BY <1>1, <1>2, <2>2
    <3>2. /\ \A d \in Left(n, r) : d \in Nat
          /\ n \in Left(n, r) /\ n # 0 /\ 0 \notin Left(n, r)
      BY <1>1, <1>2, <1>3 DEF Left
    <3>3. Follows(Left(n, r), dataPtr[v], After(Left(n, r), dataPtr[v]))
      BY <3>1, <3>2, AfterFollows
    <3>4. After(Left(n, r), dataPtr[v]) \in Left(n, r)
      BY <1>1, <3>1, <3>2, <3>3 DEF Follows
    <3> QED  BY <2>2, <3>1, <3>2, <3>4 DEF MovedTo
  <2>3. CASE dataPtr[v] \notin H
    BY <1>1, <2>1, <2>3 DEF MovedTo, Left
  <2> QED  BY <2>2, <2>3
<1>9. images' = [i \in Left(n, r) |->
                            [prev |-> Before(Left(n, r), i), next |-> After(Left(n, r), i),
                             tiles |-> IF i = n THEN r.tiles ELSE images[i].tiles]]
  <2>1. images' = [i \in Left(n, r) |->
                     [prev |-> Before(Left(n, r), i), next |-> After(Left(n, r), i),
                      tiles |-> im[i].tiles]]
    <3> HIDE DEF s, im, E, H
    <3> QED  BY <1>4, <1>5, <1>6 DEF Rest
  <2>2. ASSUME NEW i \in Left(n, r)
        PROVE  im[i].tiles = IF i = n THEN r.tiles ELSE images[i].tiles
    <3>1. i \in E /\ (i # n => i \in D)
      BY DEF Left
    <3>2. CASE i = n
      BY <3>2 DEF Lengthened
    <3>3. CASE i # n
      <4>1. images[i] \in [prev : Numbers, next : Numbers, tiles : SUBSET Tiles]
        BY <3>1, <3>3 DEF IInv, TypeOK
      <4>2. im[i] = images[i] \/ im[i] = [images[i] EXCEPT !.next = n]
        BY <3>1, <3>3 DEF Lengthened
      <4> HIDE DEF im
      <4> QED  BY <3>3, <4>1, <4>2
    <3> QED  BY <3>2, <3>3
  <2> HIDE DEF im
  <2> QED  BY <2>1, <2>2
<1>10. \A v \in Viewers : v \in idle <=> v \in Present \ sending /\ dataPtr[v] = 0
  <2> HIDE DEF s
  <2> QED  BY <1>7, <1>8 DEF Waiting
<1>11. dataPtr' = [v \in Viewers |->
                            IF dataPtr[v] # 0 THEN MovedTo(n, r, v)
                            ELSE IF v \in Present \cap sending THEN n ELSE 0]
  <2> DEFINE new(v) == IF v \in Present \ idle /\ s.ptr[v] = 0 THEN n ELSE s.ptr[v]
             say(v) == IF dataPtr[v] # 0 THEN MovedTo(n, r, v)
                            ELSE IF v \in Present \cap sending THEN n ELSE 0
  <2>1. ASSUME NEW v \in Viewers  PROVE new(v) = say(v)
    <3> HIDE DEF s, idle
    <3> QED  BY <1>7, <1>8, <1>10
  <2>2. dataPtr' = [v \in Viewers |-> new(v)]
    BY <1>5
  <2> HIDE DEF new, say
  <2>3. dataPtr' = [v \in Viewers |-> say(v)]
    BY <2>1, <2>2
  <2> QED  BY <2>3 DEF say
<1>12. canvas' = [v \in Viewers |->
                            IF v \in Present \ sending /\ dataPtr[v] = 0
                            THEN [c \in Tiles |-> IF c \in r.tiles THEN n ELSE canvas[v][c]]
                            ELSE canvas[v]]
  <2> DEFINE painted(v) == [c \in Tiles |-> IF c \in r.tiles THEN n ELSE canvas[v][c]]
  <2>1. canvas' = [v \in Viewers |-> IF v \in idle THEN painted(v) ELSE canvas[v]]
    BY <1>5
  <2> HIDE DEF idle, painted
  <2>2. canvas' = [v \in Viewers |-> IF v \in Present \ sending /\ dataPtr[v] = 0
                                    THEN painted(v) ELSE canvas[v]]
    BY <1>10, <2>1
  <2> QED  BY <2>2 DEF painted
<1>13. sending \subseteq sending' /\ sending' \subseteq sending \cup Present
  <2>1. idle \subseteq Present
    BY DEF Waiting
  <2> HIDE DEF idle
  <2> QED  BY <1>5, <2>1
<1> HIDE DEF s, idle, im
<1> QED  BY <1>1, <1>3, <1>8, <1>9, <1>11, <1>12, <1>13

\* The tiles that show an image, and their count.
LEMMA CountsAfterTile ==
    ASSUME IInv, WholeTiles, NEW r \in Rects, NEW n \in Nat \ {0},
           \A d \in DOMAIN images : d < n /\ d \in Nat /\ d # 0,
           screen' = [c \in Tiles |-> IF c \in r.tiles THEN n ELSE screen[c]],
           imagesCounters' = [i \in (DOMAIN imagesCounters \ Hidden(r.tiles)) \cup {n} |->
                    IF i = n THEN r.area
                    ELSE imagesCounters[i] - Cardinality({c \in r.tiles : screen[c] = i})]
    PROVE  /\ \A i \in DOMAIN imagesCounters' :
                 imagesCounters'[i] > 0 =>
                 imagesCounters'[i] = Cardinality({c \in Tiles : screen'[c] = i})
           /\ \A i \in DOMAIN imagesCounters' : imagesCounters'[i] \in Int
<1>0. IsFiniteSet(Tiles) /\ r.tiles \subseteq Tiles
  BY HiddenFacts
<1>1. \A c \in Tiles : screen[c] # n
  <2>1. \A c \in Tiles : screen[c] # 0 => screen[c] \in DOMAIN images
    BY DEF IInv, Shown
  <2> QED  BY <2>1 DEF IInv, Shown
<1> SUFFICES ASSUME NEW i \in DOMAIN imagesCounters'
             PROVE  /\ imagesCounters'[i] \in Int
                    /\ imagesCounters'[i] > 0 =>
                       imagesCounters'[i] = Cardinality({c \in Tiles : screen'[c] = i})
  OBVIOUS
<1> DEFINE shown == {c \in Tiles : screen'[c] = i}
           count == imagesCounters'[i]
<1>2. CASE i = n
  <2>1. shown = r.tiles
    BY <1>0, <1>1, <1>2
  <2>2. count = r.area
    BY <1>2
  <2>3. r.area \in Nat
    BY MultiplexAssumption
  <2>4. r.area > 0 => r.area = Cardinality(r.tiles)
    BY DEF WholeTiles
  <2>5. count \in Int /\ (count > 0 => count = Cardinality(shown))
    <3> HIDE DEF count, shown
    <3> QED  BY <2>1, <2>2, <2>3, <2>4
  <2> QED  BY <2>5
<1>3. CASE i # n
  <2> DEFINE covered == {c \in r.tiles : screen[c] = i}
             all == {c \in Tiles : screen[c] = i}
  <2>1. i \in DOMAIN imagesCounters /\ count = imagesCounters[i] - Cardinality(covered)
    BY <1>3
  <2>2. covered \in SUBSET all /\ all \in SUBSET Tiles
    BY <1>0
  <2>3. shown = all \ covered
    BY <1>3
  <2>4. imagesCounters[i] > 0 => imagesCounters[i] = Cardinality(all)
    BY <2>1 DEF IInv, Counting
  <2>5. imagesCounters[i] \in Int
    BY <2>1 DEF IInv, TypeOK
  <2> HIDE DEF covered, all, shown, count
  <2>6. IsFiniteSet(all) /\ IsFiniteSet(covered)
    <3>1. IsFiniteSet(all)
      BY <1>0, <2>2, FS_Subset
    <3> QED  BY <2>2, <3>1, FS_Subset
  <2>7. Cardinality(all) \in Nat /\ Cardinality(covered) \in Nat
    BY <2>6, FS_CardinalityType
  <2>8. Cardinality(all \ covered) = Cardinality(all) - Cardinality(covered)
    <3>1. all \cap covered = covered
      BY <2>2
    <3>2. Cardinality(all \ covered) = Cardinality(all) - Cardinality(all \cap covered)
      BY <2>6, FS_Difference
    <3> QED  BY <3>1, <3>2
  <2>9. count \in Int /\ (count > 0 => count = Cardinality(shown))
    BY <2>1, <2>3, <2>4, <2>5, <2>7, <2>8
  <2> QED  BY <2>9 DEF count, shown
<1> QED  BY <1>2, <1>3

\* A tile comes.
LEMMA TileStep ==
    ASSUME IInv, WholeTiles, NEW r \in Rects, Tile(r), lastData # 0,
           UNCHANGED <<mux, agent, viewers, closed, recording, queue, overflow,
                       viewersOverflowCount, refreshed>>,
           paused' \in BOOLEAN, writing' \in BOOLEAN, writes' \in Seq(Commands),
           sent' \in 0..MaxData, counter + 1 + Len(writes') <= sent' + 1
    PROVE  IInv'
<1> DEFINE n == counter + 1
           D == DOMAIN images
           E == Left(n, r)
           H == Hidden(r.tiles)
           to(v) == MovedTo(n, r, v)
<1>1. /\ n \in Nat /\ \A d \in D : d < n /\ d \in Nat /\ d # 0
      /\ firstData \in D
      /\ images' = [i \in E |-> [prev |-> Before(E, i), next |-> After(E, i),
                                 tiles |-> IF i = n THEN r.tiles ELSE images[i].tiles]]
      /\ \A v \in Viewers : to(v) \in E \cup {0} /\ (to(v) = 0 <=> dataPtr[v] = 0)
      /\ dataPtr' = [v \in Viewers |->
                       IF dataPtr[v] # 0 THEN to(v)
                       ELSE IF v \in Present \cap sending THEN n ELSE 0]
      /\ canvas' = [v \in Viewers |->
                       IF v \in Present \ sending /\ dataPtr[v] = 0
                       THEN [c \in Tiles |-> IF c \in r.tiles THEN n ELSE canvas[v][c]]
                       ELSE canvas[v]]
      /\ sending \subseteq sending' /\ sending' \subseteq sending \cup Present
  BY TileGives
<1>2. /\ counter' = n /\ lastData' = n /\ size' = size /\ firstData' = firstData
      /\ screen' = [c \in Tiles |-> IF c \in r.tiles THEN n ELSE screen[c]]
      /\ imagesCounters' = [i \in (DOMAIN imagesCounters \ H) \cup {n} |->
                    IF i = n THEN r.area
                    ELSE imagesCounters[i] - Cardinality({c \in r.tiles : screen[c] = i})]
  BY Zenon DEF Tile
<1>3. /\ H \subseteq D \ {firstData}
      /\ \A c \in Tiles : c \notin r.tiles => screen[c] \notin H
      /\ r.tiles \subseteq Tiles
  BY HiddenFacts
<1>4. n # 0 /\ n \in Numbers /\ counter \in Nat /\ n \notin D
  <2>1. counter \in Nat /\ MaxData \in Nat /\ Len(writes') \in Nat
    BY MultiplexAssumption, Zero DEF IInv, TypeOK
  <2>2. n <= MaxData + 1
    BY <2>1
  <2> QED  BY <1>1, <2>1, <2>2 DEF Numbers
<1>5. E = (D \cup {n}) \ H
  BY DEF Left
<1> HIDE DEF n, E, H, to
<1>6. /\ \A d \in E : d \in Nat /\ d # 0 /\ d <= n /\ d \in Numbers /\ (d # n => d \in D)
      /\ n \in E /\ firstData \in E /\ 0 \notin E /\ firstData # n
  <2>1. D \subseteq Numbers
    BY ImagesAre
  <2>2. \A d \in D : d \in Nat /\ d # 0 /\ d <= n /\ d \in Numbers
    BY <1>1, <2>1
  <2> QED  BY <1>1, <1>3, <1>4, <1>5, <2>2
<1>7. DOMAIN images' = E
      /\ \A i \in E : /\ images'[i].next = After(E, i) /\ images'[i].prev = Before(E, i)
                      /\ images'[i].tiles = IF i = n THEN r.tiles ELSE images[i].tiles
  BY <1>1
<1>8. ASSUME NEW i \in E
      PROVE  /\ Follows(E, i, After(E, i)) /\ Precedes(E, i, Before(E, i))
             /\ After(E, i) \in Numbers /\ Before(E, i) \in Numbers
  <2>1. (\A d \in E : d \in Nat) /\ i \in Nat
    BY <1>6
  <2>2. Follows(E, i, After(E, i)) /\ Precedes(E, i, Before(E, i))
    BY <2>1, AfterFollows, BeforePrecedes
  <2>3. After(E, i) \in E \cup {0} /\ Before(E, i) \in E \cup {0}
    BY <2>2, Zenon DEF Follows, Precedes
  <2> QED  BY <1>6, <2>2, <2>3, Zero
<1>9. /\ Present' = Present /\ Present \subseteq Viewers /\ Blank' = Blank
      /\ overflow \subseteq Present /\ overflow \subseteq sending /\ sending \subseteq Viewers
      /\ canvas \in [Viewers -> [Tiles -> Numbers]] /\ Tiles' = Tiles /\ Numbers' = Numbers
      /\ Commands' = Commands /\ screen \in [Tiles -> Numbers] /\ dataPtr \in [Viewers -> Numbers]
  BY PresentAre DEF IInv, TypeOK, Present, Blank, Tiles, Numbers, Commands
<1>10. DOMAIN imagesCounters' = E \ {firstData}
  <2>1. DOMAIN imagesCounters' = (DOMAIN imagesCounters \ H) \cup {n}
    BY <1>2
  <2>2. DOMAIN imagesCounters = D \ {firstData}
    BY DEF IInv, Counting
  <2> QED  BY <1>3, <1>4, <1>5, <1>6, <2>1, <2>2
<1>11. /\ \A i \in DOMAIN imagesCounters' :
                 imagesCounters'[i] > 0 =>
                 imagesCounters'[i] = Cardinality({c \in Tiles : screen'[c] = i})
       /\ \A i \in DOMAIN imagesCounters' : imagesCounters'[i] \in Int
  <2>1. n \in Nat \ {0} /\ \A d \in D : d < n /\ d \in Nat /\ d # 0
    BY <1>1, <1>4
  <2> QED  BY <1>2, <2>1, CountsAfterTile DEF H
<1>12. TypeOK'
  <2>1. \A i \in E : images'[i] \in [prev : Numbers, next : Numbers, tiles : SUBSET Tiles]
    <3> SUFFICES ASSUME NEW i \in E
                 PROVE  images'[i] \in [prev : Numbers, next : Numbers, tiles : SUBSET Tiles]
      OBVIOUS
    <3> DEFINE t == IF i = n THEN r.tiles ELSE images[i].tiles
    <3>1. images'[i] = [prev |-> Before(E, i), next |-> After(E, i), tiles |-> t]
      BY <1>1
    <3>2. t \in SUBSET Tiles
      <4>1. i # n => images[i] \in [prev : Numbers, next : Numbers, tiles : SUBSET Tiles]
        BY <1>6 DEF IInv, TypeOK
      <4> QED  BY <1>3, <4>1
    <3> HIDE DEF t
    <3> QED  BY <1>8, <3>1, <3>2
  <2>2. (/\ DOMAIN images \subseteq Numbers \ {0}
         /\ \A i \in DOMAIN images :
               images[i] \in [prev : Numbers, next : Numbers, tiles : SUBSET Tiles]
         /\ DOMAIN imagesCounters \subseteq DOMAIN images
         /\ \A i \in DOMAIN imagesCounters : imagesCounters[i] \in Int)'
    BY <1>6, <1>7, <1>9, <1>10, <1>11, <2>1
  <2>3. (dataPtr \in [Viewers -> Numbers])'
    <3>1. \A v \in Viewers : to(v) \in Numbers
      BY <1>1, <1>6, Zero
    <3> QED  BY <1>1, <1>4, <1>9, <3>1, Zero
  <2>4. (canvas \in [Viewers -> [Tiles -> Numbers]])'
    BY <1>1, <1>4, <1>9
  <2>5. (/\ counter \in Numbers /\ firstData \in Numbers /\ lastData \in Numbers
         /\ size \in Sizes \cup {{}} /\ screen \in [Tiles -> Numbers]
         /\ sending \subseteq Viewers /\ writes \in Seq(Commands))'
    BY <1>1, <1>2, <1>4, <1>9 DEF IInv, TypeOK
  <2> QED  BY <2>2, <2>3, <2>4, <2>5 DEF IInv, TypeOK
<1>13. Bounded'
  <2>1. E \subseteq 1..n
    BY <1>4, <1>6
  <2>2. n + Len(writes') <= sent' + 1
    BY DEF n
  <2> QED  BY <1>2, <1>7, <2>1, <2>2 DEF Bounded
<1>14. Linked(DOMAIN images, images, firstData, lastData)'
  <2>1. \A i \in E : Follows(E, i, images'[i].next) /\ Precedes(E, i, images'[i].prev)
    BY <1>7, <1>8
  <2>2. Follows(E, 0, firstData)
    <3>1. Follows(D, 0, firstData)
      BY DEF IInv, Linked
    <3> QED  BY <1>1, <1>6, <3>1 DEF Follows
  <2>3. n \in E /\ \A j \in E : j <= n
    BY <1>6
  <2> QED  BY <1>2, <1>7, <2>1, <2>2, <2>3 DEF Linked, Follows, Precedes
<1>15. Counting'
  BY <1>2, <1>7, <1>9, <1>10, <1>11 DEF Counting
<1>16. Shown'
  <2> SUFFICES ASSUME NEW c \in Tiles
               PROVE  /\ screen'[c] # 0 => /\ screen'[c] \in E \ {firstData}
                                           /\ c \in images'[screen'[c]].tiles
                      /\ \A i \in E : c \in images'[i].tiles => i <= screen'[c]
    BY <1>2, <1>7, <1>9 DEF Shown
  <2>1. CASE c \in r.tiles
    <3>1. screen'[c] = n
      BY <1>2, <2>1
    <3>2. images'[n].tiles = r.tiles
      BY <1>6, <1>7
    <3> QED  BY <1>6, <2>1, <3>1, <3>2
  <2>2. CASE c \notin r.tiles
    <3>1. screen'[c] = screen[c] /\ screen[c] \notin H
      BY <1>2, <1>3, <2>2
    <3>2. /\ screen[c] # 0 => screen[c] \in D \ {firstData} /\ c \in images[screen[c]].tiles
          /\ \A i \in D : c \in images[i].tiles => i <= screen[c]
      BY DEF IInv, Shown
    <3>3. ASSUME screen[c] # 0
          PROVE  screen[c] \in E \ {firstData} /\ c \in images'[screen[c]].tiles
      <4>1. screen[c] \in E \ {firstData} /\ screen[c] # n
        BY <1>4, <1>5, <3>1, <3>2, <3>3
      <4> QED  BY <1>7, <3>2, <3>3, <4>1
    <3>4. ASSUME NEW i \in E, c \in images'[i].tiles  PROVE i <= screen[c]
      <4>1. i # n
        BY <1>7, <2>2, <3>4
      <4>2. i \in D /\ c \in images[i].tiles
        BY <1>6, <1>7, <3>4, <4>1
      <4> QED  BY <3>2, <4>2
    <3> QED  BY <3>1, <3>3, <3>4
  <2> QED  BY <2>1, <2>2
<1>17. Placed'
  <2> SUFFICES ASSUME NEW w \in Viewers
               PROVE  /\ dataPtr'[w] \in E \cup {0}
                      /\ w \notin Present => dataPtr'[w] = 0 /\ canvas'[w] = Blank
    BY <1>7, <1>9 DEF Placed
  <2>1. dataPtr'[w] \in E \cup {0}
    BY <1>1, <1>6
  <2>2. ASSUME w \notin Present  PROVE dataPtr'[w] = 0 /\ canvas'[w] = Blank
    <3>1. dataPtr[w] = 0 /\ canvas[w] = Blank
      BY <2>2 DEF IInv, Placed
    <3> QED  BY <1>1, <2>2, <3>1
  <2> QED  BY <2>1, <2>2
<1>18. ASSUME NEW v \in Present
       PROVE  \/ dataPtr'[v] # 0 /\ dataPtr'[v] = firstData
              \/ \A c \in Tiles :
                    \/ canvas'[v][c] = screen'[c]
                    \/ dataPtr'[v] # 0 /\ \E i \in E : dataPtr'[v] <= i /\ c \in images'[i].tiles
  <2>1. v \in Viewers /\ Catches(canvas[v], dataPtr[v]) /\ dataPtr[v] \in D \cup {0}
    BY <1>9 DEF IInv, CatchingUp, Placed
  <2>2. images'[n].tiles = r.tiles /\ n \in E
    BY <1>6, <1>7
  <2>3. CASE dataPtr[v] = 0 /\ v \notin sending
    <3>1. \A c \in Tiles : canvas[v][c] = screen[c]
      BY <2>1, <2>3 DEF Catches
    <3>2. canvas'[v] = [c \in Tiles |-> IF c \in r.tiles THEN n ELSE canvas[v][c]]
      BY <1>1, <2>1, <2>3
    <3>3. \A c \in Tiles : canvas'[v][c] = screen'[c]
      BY <1>2, <3>1, <3>2
    <3> QED  BY <3>3
  <2>4. CASE dataPtr[v] = 0 /\ v \in sending
    <3>1. \A c \in Tiles : canvas[v][c] = screen[c]
      BY <2>1, <2>4 DEF Catches
    <3>2. canvas'[v] = canvas[v] /\ dataPtr'[v] = n
      BY <1>1, <2>1, <2>4
    <3>3. \A c \in Tiles : c \notin r.tiles => canvas'[v][c] = screen'[c]
      BY <1>2, <3>1, <3>2
    <3> QED  BY <1>4, <1>6, <2>2, <3>2, <3>3
  <2>5. CASE dataPtr[v] # 0
    <3> DEFINE p == dataPtr[v]
               q == to(v)
    <3>1. canvas'[v] = canvas[v] /\ dataPtr'[v] = q /\ q # 0 /\ q \in E
      BY <1>1, <2>1, <2>5
    <3>2. p \in D /\ p \in Nat
      BY <1>1, <2>1, <2>5
    <3>3. p \notin H => q = p
      BY DEF MovedTo, to, H
    <3>4. p \in H => /\ q \in Nat
                     /\ \A j \in E : p < j => q <= j
      <4> SUFFICES ASSUME p \in H  PROVE q \in Nat /\ \A j \in E : p < j => q <= j
        OBVIOUS
      <4>1. q = After(E, p)
        BY DEF MovedTo, to, H, E
      <4>2. Follows(E, p, After(E, p))
        <5>1. \A d \in E : d \in Nat
          BY <1>6
        <5> HIDE DEF p
        <5> QED  BY <3>2, <5>1, AfterFollows
      <4> HIDE DEF p, q
      <4> QED  BY <1>6, <3>1, <4>1, <4>2 DEF Follows
    <3>5. q \in Nat /\ \A j \in E : p <= j => q <= j
      <4> HIDE DEF p, q
      <4>1. CASE p \notin H
        BY <3>2, <3>3, <4>1
      <4>2. CASE p \in H
        <5>1. \A j \in E : j # p
          BY <1>5, <4>2
        <5>2. \A j \in E : j \in Nat
          BY <1>6
        <5> QED  BY <3>2, <3>4, <4>2, <5>1, <5>2
      <4> QED  BY <4>1, <4>2
    <3>6. CASE p = firstData
      BY <1>3, <3>1, <3>3, <3>6
    <3>7. CASE p # firstData
      <4> SUFFICES ASSUME NEW c \in Tiles
                   PROVE  \/ canvas[v][c] = screen'[c]
                          \/ \E i \in E : q <= i /\ c \in images'[i].tiles
        BY <3>1
      <4>1. CASE c \in r.tiles
        <5>1. q <= n
          <6> HIDE DEF q
          <6> QED  BY <1>6, <3>1
        <5> QED  BY <2>2, <4>1, <5>1
      <4>2. CASE c \notin r.tiles
        <5>1. screen'[c] = screen[c] /\ screen[c] \notin H
          BY <1>2, <1>3, <4>2
        <5>2. canvas[v][c] = screen[c] \/ \E i \in D : p <= i /\ c \in images[i].tiles
          BY <2>1, <3>7 DEF Catches
        <5> SUFFICES ASSUME NEW i \in D, p <= i, c \in images[i].tiles
                     PROVE  \E j \in E : q <= j /\ c \in images'[j].tiles
          BY <5>1, <5>2
        <5>3. i <= screen[c] /\ i \in Nat /\ i # 0 /\ screen[c] \in Nat
          BY <1>1, <1>9, Zero DEF IInv, Shown
        <5>4. screen[c] \in D /\ c \in images[screen[c]].tiles
          BY <5>3 DEF IInv, Shown
        <5>5. screen[c] \in E /\ screen[c] # n /\ p <= screen[c]
          <6> HIDE DEF p
          <6> QED  BY <1>4, <1>5, <3>2, <5>1, <5>3, <5>4
        <5>6. c \in images'[screen[c]].tiles
          BY <1>7, <5>4, <5>5
        <5>7. q <= screen[c]
          <6> HIDE DEF p, q
          <6> QED  BY <3>5, <5>5
        <5> QED  BY <5>5, <5>6, <5>7
      <4> QED  BY <4>1, <4>2
    <3> QED  BY <3>6, <3>7
  <2> QED  BY <2>3, <2>4, <2>5
<1>19. CatchingUp'
  <2> SUFFICES ASSUME NEW v \in Present  PROVE Catches(canvas[v], dataPtr[v])'
    BY <1>9 DEF CatchingUp
  <2> QED  BY <1>2, <1>7, <1>9, <1>18 DEF Catches
<1>20. SlowAreCounted'
  BY <1>1, <1>9 DEF IInv, SlowAreCounted
<1> QED  BY <1>12, <1>13, <1>14, <1>15, <1>16, <1>17, <1>19, <1>20 DEF IInv

\* A command is applied; writes' and sent' tell where it comes from.
LEMMA ApplyStep ==
    ASSUME IInv, WholeTiles, NEW cmd \in Commands, Apply(cmd),
           UNCHANGED <<mux, agent, viewers, closed, recording, refreshed>>,
           writing' \in BOOLEAN, writes' \in Seq(Commands),
           sent' \in 0..MaxData, counter + 1 + Len(writes') <= sent' + 1
    PROVE  IInv'
<1>1. StaysPaused \in BOOLEAN
  BY DEF StaysPaused, IInv, TypeOK
<1>2. /\ Present' = Present /\ Present \subseteq Viewers /\ Blank' = Blank /\ Tiles' = Tiles
      /\ Numbers' = Numbers /\ Commands' = Commands
  BY PresentAre DEF Present, Blank, Tiles, Numbers, Commands
<1>3. counter \in Nat /\ Len(writes') \in Nat /\ sent' \in Nat
  BY MultiplexAssumption, Zero DEF IInv, TypeOK
<1>4. ASSUME UNCHANGED <<counter, images, imagesCounters, screen, size, firstData, lastData,
                         dataPtr, canvas>>,
             SlowAreCounted', overflow' \subseteq Viewers,
             viewersOverflowCount' \in 0..Len(viewers'), paused' \in BOOLEAN,
             queue' \in [Viewers -> Nat], sending' \subseteq Viewers
      PROVE  IInv'
  <2>1. Bounded'
    BY <1>3, <1>4 DEF IInv, Bounded
  <2>2. TypeOK'
    BY <1>2, <1>4 DEF IInv, TypeOK
  <2>3. Placed'
    BY <1>2, <1>4 DEF IInv, Placed
  <2>4. ASSUME NEW w \in Present'  PROVE Catches(canvas[w], dataPtr[w])'
    <3>1. Catches(canvas[w], dataPtr[w])
      BY <1>2 DEF IInv, CatchingUp
    <3> QED  BY <1>4, <3>1, CatchesKept
  <2> QED  BY <1>4, <2>1, <2>2, <2>3, <2>4, SameListStep
<1>5. ASSUME UNCHANGED <<queue, overflow, viewersOverflowCount, sending>>
      PROVE  /\ SlowAreCounted' /\ overflow' \subseteq Viewers
             /\ viewersOverflowCount' \in 0..Len(viewers')
             /\ queue' \in [Viewers -> Nat] /\ sending' \subseteq Viewers
  BY <1>2, <1>5 DEF IInv, TypeOK, SlowAreCounted
<1>6. CASE /\ cmd.type = "size" /\ ScreenSize(cmd.tiles)
           /\ paused' = StaysPaused /\ UNCHANGED <<queue, overflow, viewersOverflowCount>>
  <2>1. cmd.tiles \in Sizes
    BY <1>6 DEF Commands
  <2>2. CASE cmd.tiles = size
    <3>1. UNCHANGED <<listVars, dataPtr, canvas, sending>>
      BY <1>6, <2>2 DEF ScreenSize
    <3>2. UNCHANGED <<counter, images, imagesCounters, screen, size, firstData, lastData,
                      dataPtr, canvas, sending>>
      BY <3>1 DEF listVars
    <3> QED  BY <1>1, <1>4, <1>5, <1>6, <3>2
  <2>3. CASE cmd.tiles # size
    <3>1. paused' \in BOOLEAN
      BY <1>1, <1>6
    <3> QED  BY <1>6, <2>1, <2>3, <3>1, ScreenSizeStep
  <2> QED  BY <2>2, <2>3
<1>7. CASE /\ cmd.type = "tile" /\ Tile(cmd.rect)
           /\ paused' = StaysPaused /\ UNCHANGED <<queue, overflow, viewersOverflowCount>>
  <2>1. cmd.rect \in Rects
    BY <1>7 DEF Commands
  <2>2. CASE lastData = 0
    <3>1. UNCHANGED <<listVars, dataPtr, canvas, sending>>
      BY <1>7, <2>2 DEF Tile
    <3>2. UNCHANGED <<counter, images, imagesCounters, screen, size, firstData, lastData,
                      dataPtr, canvas, sending>>
      BY <3>1 DEF listVars
    <3> QED  BY <1>1, <1>4, <1>5, <1>7, <3>2
  <2>3. CASE lastData # 0
    <3>1. paused' \in BOOLEAN
      BY <1>1, <1>7
    <3> QED  BY <1>7, <2>1, <2>3, <3>1, TileStep
  <2> QED  BY <2>2, <2>3
<1>8. CASE /\ cmd.type = "control" /\ ToAll(viewers, StaysPaused)
           /\ UNCHANGED <<listVars, dataPtr, canvas>>
  <2>1. UNCHANGED <<counter, images, imagesCounters, screen, size, firstData, lastData,
                    dataPtr, canvas>>
    BY <1>8 DEF listVars
  <2>2. /\ SlowAreCounted' /\ overflow' \subseteq Viewers
        /\ viewersOverflowCount' \in 0..Len(viewers') /\ paused' \in BOOLEAN
        /\ queue' \in [Viewers -> Nat] /\ sending' \subseteq Viewers
    BY <1>1, <1>8, ToAllStep
  <2> QED  BY <1>4, <2>1, <2>2
<1> QED  BY <1>6, <1>7, <1>8, Zenon DEF Apply

\* The agent sends a command: it is applied, or is to be recorded first.
LEMMA AgentSendsStep ==
    ASSUME IInv, WholeTiles, NEW cmd \in Commands, AgentSends(cmd)
    PROVE  IInv'
<1>1. /\ sent < MaxData /\ sent' = sent + 1 /\ sent \in Nat /\ sent' \in 0..MaxData
      /\ UNCHANGED <<mux, agent, viewers, closed, recording, refreshed>>
      /\ writes \in Seq(Commands) /\ writing \in BOOLEAN /\ counter \in Nat
      /\ counter + Len(writes) <= sent + 1 /\ Len(writes) \in Nat /\ MaxData \in Nat
  <2>1. sent \in 0..MaxData /\ writes \in Seq(Commands) /\ writing \in BOOLEAN
    BY DEF IInv, TypeOK
  <2>2. counter \in Nat /\ MaxData \in Nat
    BY MultiplexAssumption, Zero DEF IInv, TypeOK
  <2>3. counter + Len(writes) <= sent + 1
    BY DEF IInv, Bounded
  <2>4. /\ sent < MaxData /\ sent' = sent + 1
        /\ UNCHANGED <<mux, agent, viewers, closed, recording, refreshed>>
    BY DEF AgentSends, muxVars
  <2>5. sent \in Nat /\ sent' \in 0..MaxData
    BY <2>1, <2>2, <2>4
  <2>6. Len(writes) \in Nat
    BY <2>1
  <2> QED  BY <2>1, <2>2, <2>3, <2>4, <2>5, <2>6
<1>2. CASE recording
  <2>1. /\ writes' = Append(writes, cmd) /\ writing' = TRUE
        /\ UNCHANGED <<paused, sending, queue, overflow, viewersOverflowCount, counter, images,
                       imagesCounters, screen, size, firstData, lastData, dataPtr, canvas>>
    BY <1>2 DEF AgentSends, flowVars, listVars
  <2>2. writes' \in Seq(Commands) /\ Len(writes') = Len(writes) + 1
    BY <1>1, <2>1
  <2>3. Bounded'
    BY <1>1, <2>1, <2>2 DEF IInv, Bounded
  <2>4. TypeOK'
    <3>1. Tiles' = Tiles /\ Numbers' = Numbers /\ Commands' = Commands
      BY DEF Tiles, Numbers, Commands
    <3> QED  BY <1>1, <2>1, <2>2, <3>1 DEF IInv, TypeOK
  <2>5. Present' = Present
    BY <1>1 DEF Present
  <2>6. Placed' /\ SlowAreCounted'
    <3>1. Blank' = Blank
      BY DEF Blank, Tiles
    <3> QED  BY <2>1, <2>5, <3>1 DEF IInv, Placed, SlowAreCounted
  <2>7. ASSUME NEW w \in Present'  PROVE Catches(canvas[w], dataPtr[w])'
    <3>1. Catches(canvas[w], dataPtr[w])
      BY <2>5 DEF IInv, CatchingUp
    <3> QED  BY <2>1, <3>1, CatchesKept
  <2> QED  BY <2>1, <2>3, <2>4, <2>6, <2>7, SameListStep
<1>3. CASE ~recording
  <2>1. Apply(cmd) /\ writing' = writing /\ writes' = writes
    BY <1>3 DEF AgentSends, writeVars
  <2>2. counter + 1 + Len(writes') <= sent' + 1
    <3> DEFINE n == Len(writes)
    <3>1. n \in Nat /\ Len(writes') = n /\ counter + n <= sent + 1
      BY <1>1, <2>1
    <3>2. counter \in Nat /\ sent \in Nat /\ sent' = sent + 1
      BY <1>1
    <3> HIDE DEF n
    <3> QED  BY <3>1, <3>2
  <2>3. writing' \in BOOLEAN /\ writes' \in Seq(Commands)
    BY <1>1, <2>1
  <2> QED  BY <1>1, <2>1, <2>2, <2>3, ApplyStep
<1> QED  BY <1>2, <1>3

\* A record was written.
LEMMA WrittenStep ==
    ASSUME IInv, WholeTiles, NEW k, Written(k)
    PROVE  IInv'
<1>1. /\ writes \in Seq(Commands) /\ counter \in Nat /\ sent \in 0..MaxData
      /\ counter + Len(writes) <= sent + 1 /\ Len(writes) \in Nat
  BY Zero DEF IInv, TypeOK, Bounded
<1>2. /\ k \in 1..Len(writes) /\ writes' = RemoveAt(writes, k) /\ writing' = FALSE
      /\ Apply(writes[k])
      /\ UNCHANGED <<mux, agent, viewers, closed, recording, refreshed, sent>>
  BY <1>1 DEF Written, muxVars
<1>3. writes' \in Seq(Commands) /\ Len(writes') = Len(writes) - 1
  BY <1>1, <1>2, WithoutOne
<1>4. writes[k] \in Commands
  BY <1>1, <1>2
<1>5. counter + 1 + Len(writes') <= sent' + 1
  <2> DEFINE n == Len(writes)
  <2>1. n \in Nat /\ Len(writes') = n - 1 /\ counter + n <= sent + 1 /\ sent' = sent
    BY <1>1, <1>2, <1>3
  <2>2. counter \in Nat /\ sent \in Nat
    BY <1>1, MultiplexAssumption
  <2> HIDE DEF n
  <2> QED  BY <2>1, <2>2
<1>6. sent' \in 0..MaxData /\ writing' \in BOOLEAN
  BY <1>1, <1>2
<1> QED  BY <1>2, <1>3, <1>4, <1>5, <1>6, ApplyStep

-----------------------------------------------------------------------------

\* The invariant holds at first,
LEMMA InitIInv ==
    ASSUME Init
    PROVE  IInv
<1>0. /\ MaxData \in Nat /\ 0 \in Numbers /\ 1 \in Numbers /\ Blank \in [Tiles -> Numbers]
  BY MultiplexAssumption, Zero DEF Numbers
<1>1. IsInjective(<<>>) /\ ToSet(<<>>) = {} /\ <<>> \in Seq(Viewers) /\ Len(<<>>) = 0
      /\ <<>> \in Seq(Commands) /\ DOMAIN <<>> = {}
  BY DEF IsInjective, ToSet
<1>2. TypeOK
  <2>1. /\ mux \in {"live", "disposed"} /\ agent \in {"none", "in", "gone"}
        /\ paused \in BOOLEAN /\ recording \in BOOLEAN /\ writing \in BOOLEAN
        /\ sending \subseteq Viewers /\ overflow \subseteq Viewers
        /\ closed \subseteq Viewers /\ refreshed \subseteq Viewers
    BY DEF Init
  <2>2. viewers \in Seq(Viewers) /\ IsInjective(viewers)
    BY <1>1 DEF Init
  <2>3. dataPtr \in [Viewers -> Numbers] /\ queue \in [Viewers -> Nat]
    BY <1>0 DEF Init
  <2>4. viewersOverflowCount \in 0..Len(viewers)
    BY <1>1 DEF Init
  <2>5. /\ counter \in Numbers /\ firstData \in Numbers /\ lastData \in Numbers
        /\ size \in Sizes \cup {{}} /\ sent \in 0..MaxData
    BY <1>0 DEF Init
  <2>6. /\ DOMAIN images \subseteq Numbers \ {0}
        /\ \A i \in DOMAIN images :
              images[i] \in [prev : Numbers, next : Numbers, tiles : SUBSET Tiles]
        /\ DOMAIN imagesCounters \subseteq DOMAIN images
        /\ \A i \in DOMAIN imagesCounters : imagesCounters[i] \in Int
    BY <1>1 DEF Init
  <2>7. /\ screen \in [Tiles -> Numbers] /\ writes \in Seq(Commands)
        /\ canvas \in [Viewers -> [Tiles -> Numbers]]
    BY <1>0, <1>1 DEF Init
  <2> QED  BY <2>1, <2>2, <2>3, <2>4, <2>5, <2>6, <2>7 DEF TypeOK
<1>3. Bounded
  BY <1>0, <1>1 DEF Bounded, Init
<1>4. Linked(DOMAIN images, images, firstData, lastData)
  BY <1>1 DEF Linked, Init, Follows
<1>5. Counting
  BY <1>1 DEF Counting, Init
<1>6. Shown
  BY <1>1 DEF Shown, Init, Blank
<1>7. Present = {}
  BY <1>1 DEF Present, Init
<1>8. Placed
  BY <1>1 DEF Placed, Init
<1>9. CatchingUp
  BY <1>7 DEF CatchingUp
<1>10. SlowAreCounted
  BY FS_EmptySet DEF SlowAreCounted, Init
<1> QED  BY <1>2, <1>3, <1>4, <1>5, <1>6, <1>8, <1>9, <1>10 DEF IInv

\* every step keeps it,
LEMMA NextIInv ==
    ASSUME IInv, WholeTiles, [Next]_vars
    PROVE  IInv'
<1>1. CASE UNCHANGED vars
  <2>1. UNCHANGED <<mux, agent, viewers, closed, recording, paused, sending, queue, overflow,
                    viewersOverflowCount, counter, images, imagesCounters, screen, size,
                    firstData, lastData, writing, writes, dataPtr, canvas, refreshed, sent>>
    BY <1>1 DEF vars, muxVars, flowVars, listVars, writeVars
  <2>2. /\ Present' = Present /\ Tiles' = Tiles /\ Blank' = Blank /\ Numbers' = Numbers
        /\ Commands' = Commands
    BY <2>1 DEF Present, Tiles, Blank, Numbers, Commands
  <2>3. TypeOK' /\ Placed' /\ SlowAreCounted'
    BY <2>1, <2>2 DEF IInv, TypeOK, Placed, SlowAreCounted
  <2>4. ASSUME NEW w \in Present'  PROVE Catches(canvas[w], dataPtr[w])'
    <3>1. Catches(canvas[w], dataPtr[w])
      BY <2>2 DEF IInv, CatchingUp
    <3> QED  BY <2>1, <3>1, CatchesKept
  <2> QED  BY <2>1, <2>3, <2>4, ViewersStep
<1>2. ASSUME NEW v \in Viewers, Join(v) \/ Leave(v) \/ Drained(v) \/ Refresh(v)
      PROVE  IInv'
  BY <1>2, JoinStep, LeaveStep, DrainedStep, RefreshStep
<1>3. CASE AgentJoins
  BY <1>3, AgentJoinsStep
<1>4. CASE AgentLeaves
  BY <1>4, AgentLeavesStep
<1>5. ASSUME NEW cmd \in Commands, AgentSends(cmd)  PROVE IInv'
  BY <1>5, AgentSendsStep
<1>6. ASSUME NEW k \in 1..MaxData, Written(k)  PROVE IInv'
  BY <1>6, WrittenStep
<1> QED  BY <1>1, <1>2, <1>3, <1>4, <1>5, <1>6 DEF Next

\* and so the books, and what the viewers were sent, are right in every reachable state.
THEOREM Inductive == WholeTiles => (Spec => []IInv)
<1> SUFFICES ASSUME WholeTiles
             PROVE  Spec => []IInv
  OBVIOUS
<1>1. Init => IInv
  BY InitIInv
<1>2. IInv /\ [Next]_vars => IInv'
  BY NextIInv
<1> QED  BY <1>1, <1>2, PTL DEF Spec

\* Every variable keeps its type, whatever joins, leaves, is sent or is recorded.
THEOREM TypesAreKept == WholeTiles => (Spec => []TypeOK)
<1>1. IInv => TypeOK
  BY DEF IInv
<1> QED  BY <1>1, Inductive, PTL

\* The list and the count of slow viewers are right for ever: the images are linked
\* in the order in which they came, the same way back as forth, every viewer is at
\* one of them, their counts are those of the tiles that show them, and the slow
\* viewers that decide whether the agent is paused are counted once each.
THEOREM BooksStayRight == WholeTiles => (Spec => []BooksAreRight)
<1>1. IInv => BooksAreRight
  BY IInvListIsSound DEF BooksAreRight, IInv
<1> QED  BY <1>1, Inductive, PTL

\* Whatever the list lost and however late it joined, a viewer that is sent the
\* rest of the list from where it stands sees the screen of the device.
THEOREM ViewersCanCatchUp == WholeTiles => (Spec => []CanCatchUp)
<1>1. IInv => CanCatchUp
  BY IInvCanCatchUp
<1> QED  BY <1>1, Inductive, PTL
=============================================================================
