---------------------------- MODULE AgentProofs ----------------------------
(***************************************************************************)
(* Proofs about AgentUpdate, for any agents, binaries, cores and limits:   *)
(* a native update is one thing at a time and complete when the agent is   *)
(* told its end, and nothing is left of a connection that is over.  Then   *)
(* proofs about AgentSession, the sessions these updates belong to.        *)
(***************************************************************************)
EXTENDS AgentUpdate, AgentSession, FiniteSetTheorems, WellFoundedInduction, TLAPS

\* The commands of a native update, and the answers to them.  Whatever else is on
\* its way is of no account.
DownMarks == {"askhash", "start", "block", "end"}
UpMarks == {"binaryhash", "ack"}

\* Stream s has no message of a type in T, one, which is m, or two, m and n.
Free(s, T) == \A i \in 1..Len(s) : s[i].type \notin T

SingleAt(s, T, m, i) ==
    /\ i \in 1..Len(s) /\ s[i] = m
    /\ \A j \in 1..Len(s) : j # i => s[j].type \notin T
Single(s, T, m) == \E i \in 1..Len(s) : SingleAt(s, T, m, i)

PairAt(s, T, m, n, i, k) ==
    /\ i \in 1..Len(s) /\ k \in 1..Len(s) /\ i < k /\ s[i] = m /\ s[k] = n
    /\ \A j \in 1..Len(s) : j # i /\ j # k => s[j].type \notin T
Pair(s, T, m, n) == \E i, k \in 1..Len(s) : PairAt(s, T, m, n, i, k)

\* The set has one element.
Alone(S) == \E x \in S : S = {x}

-----------------------------------------------------------------------------

\* A set of numbers has a least one.
LEMMA LeastOfNat ==
    ASSUME NEW T \in SUBSET Nat, T # {}
    PROVE  \E x \in T : \A y \in T : x <= y
<1> DEFINE TT == {0..n : n \in T}
<1>1. IsWellFoundedOn(StrictSubsetOrdering(Nat), FiniteSubsetsOf(Nat))
  BY FS_StrictSubsetOrderingWellFounded
<1>2. TT \subseteq FiniteSubsetsOf(Nat)
  <2>1. \A n \in T : IsFiniteSet(0..n) /\ 0..n \subseteq Nat
    BY FS_Interval
  <2> QED  BY <2>1 DEF FiniteSubsetsOf
<1>3. TT # {}
  OBVIOUS
<1>4. PICK X \in TT : \A Y \in TT : ~(<<Y, X>> \in StrictSubsetOrdering(Nat))
  <2> HIDE DEF TT
  <2> QED  BY <1>1, <1>2, <1>3, WFMin
<1>5. PICK x \in T : X = 0..x
  OBVIOUS
<1>6. ASSUME NEW y \in T, y < x  PROVE FALSE
  <2>1. 0..y \in TT /\ 0..y \subseteq 0..x /\ 0..y # 0..x
    BY <1>6
  <2>2. <<0..y, X>> \in StrictSubsetOrdering(Nat)
    BY <2>1, <1>5 DEF StrictSubsetOrdering
  <2> QED  BY <1>4, <2>1, <2>2
<1> QED  BY <1>6

\* The messages of two streams, one after the other.
LEMMA CatAt ==
    ASSUME NEW S, NEW s \in Seq(S), NEW w \in Seq(S)
    PROVE  /\ s \o w \in Seq(S) /\ Len(s \o w) = Len(s) + Len(w)
           /\ Len(s) \in Nat /\ Len(w) \in Nat
           /\ \A i \in 1..Len(s) : i \in 1..Len(s \o w) /\ (s \o w)[i] = s[i]
           /\ \A i \in 1..Len(w) :
                 Len(s) + i \in 1..Len(s \o w) /\ (s \o w)[Len(s) + i] = w[i]
           /\ \A i \in 1..Len(s \o w) :
                 \/ i \in 1..Len(s)
                 \/ i - Len(s) \in 1..Len(w) /\ (s \o w)[i] = w[i - Len(s)]
  OBVIOUS

\* What is free of them stays so when what is free of them comes after.
LEMMA FreeFree ==
    ASSUME NEW S, NEW s \in Seq(S), NEW w \in Seq(S), NEW T, Free(s, T), Free(w, T)
    PROVE  Free(s \o w, T)
<1> SUFFICES ASSUME NEW i \in 1..Len(s \o w)  PROVE (s \o w)[i].type \notin T
  BY DEF Free
<1>1. CASE i \in 1..Len(s)
  BY <1>1, CatAt DEF Free
<1>2. CASE i - Len(s) \in 1..Len(w) /\ (s \o w)[i] = w[i - Len(s)]
  BY <1>2 DEF Free
<1> QED  BY <1>1, <1>2, CatAt

\* One stays one when none comes after,
LEMMA SingleFree ==
    ASSUME NEW S, NEW s \in Seq(S), NEW w \in Seq(S), NEW T, NEW m,
           Single(s, T, m), Free(w, T)
    PROVE  Single(s \o w, T, m)
<1>1. PICK i \in 1..Len(s) : SingleAt(s, T, m, i)
  BY DEF Single
<1>2. SingleAt(s \o w, T, m, i)
  <2>1. ASSUME NEW j \in 1..Len(s \o w), j # i  PROVE (s \o w)[j].type \notin T
    <3>1. CASE j \in 1..Len(s)
      BY <1>1, <2>1, <3>1, CatAt DEF SingleAt
    <3>2. CASE j - Len(s) \in 1..Len(w) /\ (s \o w)[j] = w[j - Len(s)]
      BY <3>2 DEF Free
    <3> QED  BY <3>1, <3>2, CatAt
  <2>2. (s \o w)[i] = m
    BY <1>1, CatAt DEF SingleAt
  <2> QED  BY <1>1, <2>1, <2>2 DEF SingleAt
<1> QED  BY <1>2 DEF Single, SingleAt

\* or before;
LEMMA FreeSingle ==
    ASSUME NEW S, NEW s \in Seq(S), NEW w \in Seq(S), NEW T, NEW m,
           Free(s, T), Single(w, T, m)
    PROVE  Single(s \o w, T, m)
<1>1. PICK i \in 1..Len(w) : SingleAt(w, T, m, i)
  BY DEF Single
<1> DEFINE k == Len(s) + i
<1>2. k \in 1..Len(s \o w) /\ (s \o w)[k] = m
  BY <1>1, CatAt DEF SingleAt
<1>3. ASSUME NEW j \in 1..Len(s \o w), j # k  PROVE (s \o w)[j].type \notin T
  <2>1. CASE j \in 1..Len(s)
    BY <2>1, CatAt DEF Free
  <2>2. CASE j - Len(s) \in 1..Len(w) /\ (s \o w)[j] = w[j - Len(s)]
    <3>1. j - Len(s) # i
      BY <1>3, CatAt
    <3> QED  BY <1>1, <2>2, <3>1 DEF SingleAt
  <2> QED  BY <2>1, <2>2, CatAt
<1> HIDE DEF k
<1>4. SingleAt(s \o w, T, m, k)
  BY <1>2, <1>3 DEF SingleAt
<1> QED  BY <1>2, <1>4 DEF Single

\* one and one are two;
LEMMA SingleSingle ==
    ASSUME NEW S, NEW s \in Seq(S), NEW w \in Seq(S), NEW T, NEW m, NEW n,
           Single(s, T, m), Single(w, T, n)
    PROVE  Pair(s \o w, T, m, n)
<1>1. PICK i \in 1..Len(s) : SingleAt(s, T, m, i)
  BY DEF Single
<1>2. PICK h \in 1..Len(w) : SingleAt(w, T, n, h)
  BY DEF Single
<1> DEFINE k == Len(s) + h
<1>3. /\ k \in 1..Len(s \o w) /\ (s \o w)[k] = n /\ i < k
      /\ i \in 1..Len(s \o w) /\ (s \o w)[i] = m
  BY <1>1, <1>2, CatAt DEF SingleAt
<1>4. ASSUME NEW j \in 1..Len(s \o w), j # i, j # k  PROVE (s \o w)[j].type \notin T
  <2>1. CASE j \in 1..Len(s)
    BY <1>1, <1>4, <2>1, CatAt DEF SingleAt
  <2>2. CASE j - Len(s) \in 1..Len(w) /\ (s \o w)[j] = w[j - Len(s)]
    <3>1. j - Len(s) # h
      BY <1>4, CatAt
    <3> QED  BY <1>2, <2>2, <3>1 DEF SingleAt
  <2> QED  BY <2>1, <2>2, CatAt
<1> HIDE DEF k
<1>5. PairAt(s \o w, T, m, n, i, k)
  BY <1>3, <1>4 DEF PairAt
<1> QED  BY <1>3, <1>5 DEF Pair

\* two stay two when none comes after,
LEMMA PairFree ==
    ASSUME NEW S, NEW s \in Seq(S), NEW w \in Seq(S), NEW T, NEW m, NEW n,
           Pair(s, T, m, n), Free(w, T)
    PROVE  Pair(s \o w, T, m, n)
<1>1. PICK i \in 1..Len(s), k \in 1..Len(s) : PairAt(s, T, m, n, i, k)
  BY DEF Pair
<1>2. PairAt(s \o w, T, m, n, i, k)
  <2>1. ASSUME NEW j \in 1..Len(s \o w), j # i, j # k  PROVE (s \o w)[j].type \notin T
    <3>1. CASE j \in 1..Len(s)
      BY <1>1, <2>1, <3>1, CatAt DEF PairAt
    <3>2. CASE j - Len(s) \in 1..Len(w) /\ (s \o w)[j] = w[j - Len(s)]
      BY <3>2 DEF Free
    <3> QED  BY <3>1, <3>2, CatAt
  <2>2. /\ s[i] = m /\ s[k] = n /\ i < k
    BY <1>1 DEF PairAt
  <2>3. /\ (s \o w)[i] = m /\ (s \o w)[k] = n
    BY <2>2, CatAt
  <2> QED  BY <2>1, <2>2, <2>3 DEF PairAt
<1>3. i \in 1..Len(s \o w) /\ k \in 1..Len(s \o w)
  BY CatAt
<1> QED  BY <1>2, <1>3 DEF Pair

\* or before.
LEMMA FreePair ==
    ASSUME NEW S, NEW s \in Seq(S), NEW w \in Seq(S), NEW T, NEW m, NEW n,
           Free(s, T), Pair(w, T, m, n)
    PROVE  Pair(s \o w, T, m, n)
<1>1. PICK i \in 1..Len(w), h \in 1..Len(w) : PairAt(w, T, m, n, i, h)
  BY DEF Pair
<1> DEFINE p == Len(s) + i
           q == Len(s) + h
<1>2. /\ p \in 1..Len(s \o w) /\ (s \o w)[p] = m /\ p < q
      /\ q \in 1..Len(s \o w) /\ (s \o w)[q] = n
  BY <1>1, CatAt DEF PairAt
<1>3. ASSUME NEW j \in 1..Len(s \o w), j # p, j # q  PROVE (s \o w)[j].type \notin T
  <2>1. CASE j \in 1..Len(s)
    BY <2>1, CatAt DEF Free
  <2>2. CASE j - Len(s) \in 1..Len(w) /\ (s \o w)[j] = w[j - Len(s)]
    <3>1. j - Len(s) # i /\ j - Len(s) # h
      BY <1>3, CatAt
    <3> QED  BY <1>1, <2>2, <3>1 DEF PairAt
  <2> QED  BY <2>1, <2>2, CatAt
<1> HIDE DEF p, q
<1>4. PairAt(s \o w, T, m, n, p, q)
  BY <1>2, <1>3 DEF PairAt
<1> QED  BY <1>2, <1>4 DEF Pair

-----------------------------------------------------------------------------

\* The messages after the first.
LEMMA TailAt ==
    ASSUME NEW S, NEW s \in Seq(S), s # <<>>
    PROVE  /\ Tail(s) \in Seq(S) /\ Len(Tail(s)) = Len(s) - 1 /\ Len(s) \in Nat \ {0}
           /\ Head(s) = s[1] /\ Head(s) \in S /\ 1 \in 1..Len(s)
           /\ \A i \in 1..Len(Tail(s)) : i + 1 \in 1..Len(s) /\ Tail(s)[i] = s[i + 1]
           /\ \A i \in 1..Len(s) :
                 i = 1 \/ (i - 1 \in 1..Len(Tail(s)) /\ Tail(s)[i - 1] = s[i])
  OBVIOUS

\* None stays none without the first.
LEMMA TailFree ==
    ASSUME NEW S, NEW s \in Seq(S), s # <<>>, NEW T, Free(s, T)
    PROVE  Free(Tail(s), T) /\ Head(s).type \notin T
<1> SUFFICES ASSUME NEW i \in 1..Len(Tail(s))  PROVE Tail(s)[i].type \notin T
  BY TailAt DEF Free
<1> QED  BY TailAt DEF Free

\* The one is the first message, or among the others.
LEMMA TailSingle ==
    ASSUME NEW S, NEW s \in Seq(S), s # <<>>, NEW T, NEW m, Single(s, T, m)
    PROVE  \/ Head(s) = m /\ Free(Tail(s), T)
           \/ Head(s).type \notin T /\ Single(Tail(s), T, m)
<1>1. PICK i \in 1..Len(s) : SingleAt(s, T, m, i)
  BY DEF Single
<1>2. CASE i = 1
  <2>1. ASSUME NEW j \in 1..Len(Tail(s))  PROVE Tail(s)[j].type \notin T
    <3>1. j + 1 \in 1..Len(s) /\ j + 1 # i /\ Tail(s)[j] = s[j + 1]
      BY <1>2, TailAt
    <3> QED  BY <1>1, <3>1 DEF SingleAt
  <2> QED  BY <1>1, <1>2, <2>1, TailAt DEF SingleAt, Free
<1>3. CASE i # 1
  <2>1. i - 1 \in 1..Len(Tail(s)) /\ Tail(s)[i - 1] = s[i]
    BY <1>3, TailAt
  <2>2. ASSUME NEW j \in 1..Len(Tail(s)), j # i - 1  PROVE Tail(s)[j].type \notin T
    <3>1. j + 1 \in 1..Len(s) /\ j + 1 # i /\ Tail(s)[j] = s[j + 1]
      BY <2>2, TailAt
    <3> QED  BY <1>1, <3>1 DEF SingleAt
  <2>3. SingleAt(Tail(s), T, m, i - 1)
    BY <1>1, <2>1, <2>2 DEF SingleAt
  <2>4. Head(s).type \notin T
    BY <1>1, <1>3, TailAt DEF SingleAt
  <2> QED  BY <2>1, <2>3, <2>4 DEF Single
<1> QED  BY <1>2, <1>3

\* The first of the two is the first message, or both are among the others.
LEMMA TailPair ==
    ASSUME NEW S, NEW s \in Seq(S), s # <<>>, NEW T, NEW m, NEW n, Pair(s, T, m, n)
    PROVE  \/ Head(s) = m /\ Single(Tail(s), T, n)
           \/ Head(s).type \notin T /\ Pair(Tail(s), T, m, n)
<1>1. PICK i \in 1..Len(s), k \in 1..Len(s) : PairAt(s, T, m, n, i, k)
  BY DEF Pair
<1>2. k # 1 /\ k - 1 \in 1..Len(Tail(s)) /\ Tail(s)[k - 1] = n
  BY <1>1, TailAt DEF PairAt
<1>3. CASE i = 1
  <2>1. ASSUME NEW j \in 1..Len(Tail(s)), j # k - 1  PROVE Tail(s)[j].type \notin T
    <3>1. j + 1 \in 1..Len(s) /\ j + 1 # i /\ j + 1 # k /\ Tail(s)[j] = s[j + 1]
      BY <1>3, <2>1, TailAt
    <3> QED  BY <1>1, <3>1 DEF PairAt
  <2>2. SingleAt(Tail(s), T, n, k - 1)
    BY <1>2, <2>1 DEF SingleAt
  <2> QED  BY <1>1, <1>2, <1>3, <2>2, TailAt DEF PairAt, Single
<1>4. CASE i # 1
  <2>1. i - 1 \in 1..Len(Tail(s)) /\ Tail(s)[i - 1] = s[i] /\ i - 1 < k - 1
    BY <1>1, <1>4, TailAt DEF PairAt
  <2>2. ASSUME NEW j \in 1..Len(Tail(s)), j # i - 1, j # k - 1
        PROVE  Tail(s)[j].type \notin T
    <3>1. j + 1 \in 1..Len(s) /\ j + 1 # i /\ j + 1 # k /\ Tail(s)[j] = s[j + 1]
      BY <2>2, TailAt
    <3> QED  BY <1>1, <3>1 DEF PairAt
  <2>3. PairAt(Tail(s), T, m, n, i - 1, k - 1)
    BY <1>1, <1>2, <2>1, <2>2 DEF PairAt
  <2>4. Head(s).type \notin T
    <3>1. 1 \in 1..Len(s) /\ Head(s) = s[1] /\ k # 1
      BY <1>2, TailAt
    <3> QED  BY <1>1, <1>4, <3>1 DEF PairAt
  <2> QED  BY <1>2, <2>1, <2>3, <2>4 DEF Pair
<1> QED  BY <1>3, <1>4

-----------------------------------------------------------------------------
\* The native updates of connection a that the task limiter holds, and those that
\* wait for their file to be opened.
HeldAt(p, a) == {i \in 1..Len(p[1]) : p[1][i].kind = "native" /\ p[1][i].agent = a}
OpenOf(op, a) == {t \in op : t.agent = a}

\* The blocks 1 to k.
UpTo(k) == [j \in 1..k |-> j]

\* Block k of N, which the end follows, is the last that g lacks, or one too many.
LastAt(N, k, g) == \/ k = N /\ g = UpTo(N - 1)
                   \/ k > N /\ g = UpTo(N)

\* The end is on its way to an agent that has all blocks, or is not.
Ending(N, s, g) ==
    \/ Free(s, DownMarks)
    \/ Single(s, DownMarks, End) /\ g = UpTo(N)

\* No native update is under way, or it is over for the server: the agent is
\* still to answer with its hash, to be told the end, or to acknowledge a block.
Rests(N, s, r, g) ==
    \/ Free(r, UpMarks) /\ Ending(N, s, g)
    \/ Free(r, UpMarks) /\ (Single(s, DownMarks, Start) \/ Single(s, DownMarks, AskHash))
    \/ /\ Free(r, UpMarks)
       /\ \E k \in 1..(N + 1) : LastAt(N, k, g) /\ Pair(s, DownMarks, Block(k), End)
    \/ Single(r, UpMarks, Msg("binaryhash")) /\ Free(s, DownMarks)
    \/ Single(r, UpMarks, Msg("ack")) /\ Ending(N, s, g)

\* Block k is on its way to the agent, or its acknowledgement to the server.
Blocked(s, r, g, k) ==
    \/ Free(r, UpMarks) /\ k = 1 /\ Pair(s, DownMarks, Start, Block(1))
    \/ Free(r, UpMarks) /\ g = UpTo(k - 1) /\ Single(s, DownMarks, Block(k))
    \/ Single(r, UpMarks, Msg("ack")) /\ g = UpTo(k) /\ Free(s, DownMarks)

\* After block k the server reads the next one.
Reads(s, r, g, k) ==
    /\ Free(r, UpMarks)
    /\ \/ k = 0 /\ Single(s, DownMarks, Start)
       \/ g = UpTo(k) /\ Free(s, DownMarks)

\* Where the native update of a connection is: at rest, at a block, at a read, at
\* the opening of the file, or held.  N is the number of blocks, u the record of
\* the update, H what is held, O what is being opened, R whether a read is under
\* way, s and r the two streams, g the blocks that the agent has.
Flow(N, u, H, O, R, s, r, g) ==
    \/ H = {} /\ O = {} /\ ~R /\ u = None /\ Rests(N, s, r, g)
    \/ H = {} /\ O = {} /\ ~R /\ u # None /\ u.ptr \in 1..N /\ Blocked(s, r, g, u.ptr)
    \/ H = {} /\ O = {} /\ R /\ u # None /\ u.ptr \in 0..N /\ Reads(s, r, g, u.ptr)
    \/ H = {} /\ Alone(O) /\ ~R /\ u = None /\ Free(s, DownMarks) /\ Free(r, UpMarks)
    \/ Alone(H) /\ O = {} /\ ~R /\ u = None /\ Free(s, DownMarks) /\ Free(r, UpMarks)

\* Where connection a is.
FlowOf(a) ==
    Flow(Blocks[a], obj[a].agentUpdate, HeldAt(pending, a), OpenOf(opening, a),
         a \in reading, toAgent[a], toServer[a], dev[a].got)

\* Before a connection is authenticated, nothing is said.
Before(a) ==
    /\ obj[a].agentUpdate = None /\ HeldAt(pending, a) = {} /\ OpenOf(opening, a) = {}
    /\ a \notin reading /\ toAgent[a] = <<>> /\ toServer[a] = <<>>

\* After it is closed, nothing is remembered of it, and nothing more is said.
After(a) ==
    /\ obj[a].agentUpdate = None /\ obj[a].agentCoreUpdateTaskId = None
    /\ toAgent[a] = <<>>

\* What holds of connection a.
Conn(a) ==
    /\ obj[a].authenticated = 2 => FlowOf(a)
    /\ obj[a].authenticated = 1 => Before(a)
    /\ obj[a].authenticated = -1 => After(a)

\* The types of the variables.
Types == {"core", "askcore", "askhash", "start", "block", "end", "coreok", "fetch",
          "corehash", "binaryhash", "ack", "coreinfo", "wantsupdate", "downloaded"}
Msgs == {m \in [type : Types, core : Cores \cup {None}, nr : Nat] :
            m.type = "core" => m.core \in Cores}
GoodTasks == {t \in AllTasks : t.kind = "core" => t.core \in Cores}
Updates == [task : AllTasks, ptr : Nat]
Objs == [authenticated : {-1, 1, 2}, agentCoreCheck : Nat, agentCoreUpdate : BOOLEAN,
         agentUpdate : {None} \cup Updates, agentCoreUpdateTaskId : {None} \cup AllTasks]
Devs == [core : Cores, got : Seq(Nat), binary : {"old", "fetching", "fetched", "failed"}]

\* The tasks are finitely many, and what is held first is the sending of a core.
TasksAre ==
    /\ current \subseteq AllTasks /\ opening \subseteq AllTasks
    /\ sending \subseteq AllTasks /\ files \subseteq AllTasks
    /\ IsFiniteSet(current) /\ IsFiniteSet(opening)
    /\ IsFiniteSet(sending) /\ IsFiniteSet(files)
PendingIs(p) ==
    /\ p \in [{0, 1} -> Seq(GoodTasks)]
    /\ \A i \in 1..Len(p[0]) : p[0][i].kind = "core"

\* Every variable has its type.
TInv ==
    /\ obj \in [Agents -> Objs] /\ TasksAre /\ PendingIs(pending)
    /\ \A t \in opening : t.kind = "native"
    /\ reading \subseteq Agents
    /\ toAgent \in [Agents -> Seq(Msgs)] /\ toServer \in [Agents -> Seq(Msgs)]
    /\ dev \in [Agents -> Devs]

\* The inductive invariant.  UpdateIsSound counts what is on its way at any time;
\* that only one thing is, and which one comes next, follows from where each
\* connection is.
IInv == TInv /\ \A a \in Agents : Conn(a)

-----------------------------------------------------------------------------

\* The messages have the types of messages.
LEMMA Messages ==
    /\ \A type \in Types \ {"core"} : Msg(type) \in Msgs /\ Msg(type).type = type
    /\ \A c \in Cores : /\ Core(c) \in Msgs /\ Core(c).type = "core" /\ Core(c).core = c
                        /\ CoreHash(c) \in Msgs /\ CoreHash(c).type = "corehash"
    /\ \A k \in Nat : Block(k) \in Msgs /\ Block(k).type = "block" /\ Block(k).nr = k
    /\ AskCore \in Msgs /\ AskHash \in Msgs /\ Start \in Msgs /\ End \in Msgs
    /\ CoreOk \in Msgs /\ Fetch \in Msgs
    /\ AskCore.type = "askcore" /\ AskHash.type = "askhash" /\ Start.type = "start"
    /\ End.type = "end" /\ CoreOk.type = "coreok" /\ Fetch.type = "fetch"
  BY DEF Msg, Core, CoreHash, Block, AskCore, AskHash, Start, End, CoreOk, Fetch, Msgs, Types

\* Of the constants.
LEMMA Constants1 ==
    /\ Blocks \in [Agents -> Nat \ {0}] /\ FirstCore \in [Agents -> Cores]
    /\ ServerCores \subseteq Cores /\ UserCores \subseteq Cores /\ "none" \in Cores
    /\ None \notin AllTasks /\ None \notin Updates /\ IsFiniteSet(Agents)
    /\ None \notin Cores
  BY UpdateAssumption DEF Cores, Updates

-----------------------------------------------------------------------------

\* The number of messages of a type in a stream that has none of them,
LEMMA CountNone ==
    ASSUME NEW S, NEW s \in Seq(S), NEW T, NEW type, type \in T, Free(s, T)
    PROVE  {i \in DOMAIN s : s[i].type = type} = {}
  BY DEF Free

\* one of another type,
LEMMA CountOther ==
    ASSUME NEW S, NEW s \in Seq(S), NEW T, NEW type, type \in T, NEW m, m.type # type,
           Single(s, T, m)
    PROVE  {i \in DOMAIN s : s[i].type = type} = {}
  BY DEF Single, SingleAt

\* one,
LEMMA CountOne ==
    ASSUME NEW S, NEW s \in Seq(S), NEW T, NEW type, type \in T, NEW m, m.type = type,
           Single(s, T, m)
    PROVE  Cardinality({i \in DOMAIN s : s[i].type = type}) = 1
<1>1. PICK i \in 1..Len(s) : SingleAt(s, T, m, i)
  BY DEF Single
<1>2. {j \in DOMAIN s : s[j].type = type} = {i}
  BY <1>1 DEF SingleAt
<1> QED  BY <1>2, FS_Singleton

\* or two of which the second is of another type.
LEMMA CountSecond ==
    ASSUME NEW S, NEW s \in Seq(S), NEW T, NEW type, type \in T, NEW m, m.type # type,
           NEW n, n.type = type, Pair(s, T, m, n)
    PROVE  Cardinality({i \in DOMAIN s : s[i].type = type}) = 1
<1>1. PICK i \in 1..Len(s), k \in 1..Len(s) : PairAt(s, T, m, n, i, k)
  BY DEF Pair
<1>2. {j \in DOMAIN s : s[j].type = type} = {k}
  BY <1>1 DEF PairAt
<1> QED  BY <1>2, FS_Singleton

\* What the invariant says of connections that are closed.
LEMMA IInvNothingAfterClose ==
    ASSUME IInv
    PROVE  NothingAfterClose
  BY DEF IInv, Conn, After, NothingAfterClose

\* What the properties say of one connection, of which n counts the reads.
Tells(N, u, n, s, r, g) ==
    /\ s # <<>> /\ Head(s) = End => g = UpTo(N)
    /\ u # None =>
         Cardinality({i \in DOMAIN s : s[i].type = "block"})
         + Cardinality({i \in DOMAIN r : r[i].type = "ack"}) + n = 1

\* Where a connection is, and what that says of the end and of the blocks.
LEMMA FlowIsSound ==
    ASSUME NEW N \in Nat \ {0}, NEW u, NEW H, NEW O, NEW R, NEW n, R => n = 1, ~R => n = 0,
           NEW s \in Seq(Msgs), NEW r \in Seq(Msgs), NEW g, Flow(N, u, H, O, R, s, r, g)
    PROVE  Tells(N, u, n, s, r, g)
<1>1. ASSUME s # <<>>, Head(s) = End  PROVE g = UpTo(N)
  <2>1. ~Free(s, DownMarks)
    BY <1>1, TailFree, Messages DEF DownMarks
  <2>2. ASSUME NEW m, m.type # "end"  PROVE ~Single(s, DownMarks, m)
    BY <1>1, <2>2, TailSingle, Messages DEF DownMarks
  <2>3. ASSUME NEW m, m.type # "end", NEW e  PROVE ~Pair(s, DownMarks, m, e)
    BY <1>1, <2>3, TailPair, Messages DEF DownMarks
  <2>4. ~Single(s, DownMarks, Start) /\ ~Single(s, DownMarks, AskHash)
        /\ ~Pair(s, DownMarks, Start, Block(1))
    BY <2>2, <2>3, Messages
  <2>5. ASSUME NEW k \in Nat
        PROVE  ~Single(s, DownMarks, Block(k)) /\ ~Pair(s, DownMarks, Block(k), End)
    BY <2>2, <2>3, Messages
  <2> QED  BY <2>1, <2>4, <2>5 DEF Flow, Rests, Ending, Blocked, Reads
<1>2. ASSUME u # None
      PROVE  Cardinality({i \in DOMAIN s : s[i].type = "block"})
             + Cardinality({i \in DOMAIN r : r[i].type = "ack"})
             + n = 1
  <2> DEFINE B == {i \in DOMAIN s : s[i].type = "block"}
             A == {i \in DOMAIN r : r[i].type = "ack"}
  <2>0. Cardinality({}) = 0
    BY FS_EmptySet
  <2>1. "block" \in DownMarks /\ "ack" \in UpMarks
    BY DEF DownMarks, UpMarks
  <2>2. Free(r, UpMarks) => Cardinality(A) = 0
    BY <2>0, <2>1, CountNone
  <2>3. Single(r, UpMarks, Msg("ack")) => Cardinality(A) = 1
    <3>1. Msg("ack").type = "ack"
      BY DEF Msg
    <3> QED  BY <2>1, <3>1, CountOne
  <2>4. Free(s, DownMarks) => Cardinality(B) = 0
    BY <2>0, <2>1, CountNone
  <2>5. Single(s, DownMarks, Start) => Cardinality(B) = 0
    <3>1. Start.type # "block"
      BY Messages
    <3> QED  BY <2>0, <2>1, <3>1, CountOther
  <2>6. ASSUME NEW k \in Nat, Single(s, DownMarks, Block(k))  PROVE Cardinality(B) = 1
    BY <2>1, <2>6, CountOne, Messages
  <2>7. Pair(s, DownMarks, Start, Block(1)) => Cardinality(B) = 1
    BY <2>1, CountSecond, Messages
  <2> HIDE DEF A, B
  <2>8. ASSUME ~R, NEW k \in 1..N, Blocked(s, r, g, k)
        PROVE  Cardinality(B) + Cardinality(A) + n = 1
    <3>1. CASE Free(r, UpMarks) /\ Pair(s, DownMarks, Start, Block(1))
      BY <2>2, <2>7, <2>8, <3>1
    <3>2. CASE Free(r, UpMarks) /\ Single(s, DownMarks, Block(k))
      BY <2>2, <2>6, <2>8, <3>2
    <3>3. CASE Single(r, UpMarks, Msg("ack")) /\ Free(s, DownMarks)
      BY <2>3, <2>4, <2>8, <3>3
    <3> QED  BY <2>8, <3>1, <3>2, <3>3 DEF Blocked
  <2>9. ASSUME R, NEW k, Reads(s, r, g, k)
        PROVE  Cardinality(B) + Cardinality(A) + n = 1
    <3>1. Cardinality(B) = 0 /\ Cardinality(A) = 0
      BY <2>2, <2>4, <2>5, <2>9 DEF Reads
    <3> QED  BY <2>9, <3>1
  <2>10. Cardinality(B) + Cardinality(A) + n = 1
    BY <1>2, <2>8, <2>9 DEF Flow
  <2> QED  BY <2>10 DEF A, B
<1> QED  BY <1>1, <1>2 DEF Tells

\* What the invariant says of updates.
LEMMA IInvUpdateIsSound ==
    ASSUME IInv
    PROVE  UpdateIsSound
<1> SUFFICES ASSUME NEW a \in Agents
             PROVE  /\ toAgent[a] # <<>> /\ Head(toAgent[a]) = End =>
                       dev[a].got = [k \in 1..Blocks[a] |-> k]
                    /\ obj[a].agentUpdate # None =>
                       Cardinality({i \in DOMAIN toAgent[a] : toAgent[a][i].type = "block"})
                       + Cardinality({i \in DOMAIN toServer[a] : toServer[a][i].type = "ack"})
                       + Cardinality(reading \cap {a}) = 1
  BY DEF UpdateIsSound, EndIsComplete, UpdateGoesOn
<1>1. /\ Conn(a) /\ obj[a] \in Objs /\ Blocks[a] \in Nat \ {0}
      /\ toAgent[a] \in Seq(Msgs) /\ toServer[a] \in Seq(Msgs)
  BY Constants1 DEF IInv, TInv
<1>2. CASE obj[a].authenticated = 2
  <2>1. Cardinality(reading \cap {a}) = IF a \in reading THEN 1 ELSE 0
    <3>1. a \in reading => reading \cap {a} = {a}
      OBVIOUS
    <3>2. a \notin reading => reading \cap {a} = {}
      OBVIOUS
    <3> QED  BY <3>1, <3>2, FS_EmptySet, FS_Singleton
  <2>2. FlowOf(a)
    BY <1>1, <1>2 DEF Conn
  <2> DEFINE u == obj[a].agentUpdate
             s == toAgent[a]
             r == toServer[a]
             g == dev[a].got
             R == a \in reading
             n == Cardinality(reading \cap {a})
  <2>3. Flow(Blocks[a], u, HeldAt(pending, a), OpenOf(opening, a), R, s, r, g)
    BY <2>2 DEF FlowOf
  <2>4. s \in Seq(Msgs) /\ r \in Seq(Msgs)
    BY <1>1
  <2>5. (R => n = 1) /\ (~R => n = 0)
    BY <2>1
  <2> HIDE DEF u, s, r, g, R, n
  <2>6. Tells(Blocks[a], u, n, s, r, g)
    BY <1>1, <2>3, <2>4, <2>5, FlowIsSound
  <2> QED  BY <2>6 DEF Tells, u, s, r, g, n, UpTo
<1>3. CASE obj[a].authenticated # 2
  BY <1>1, <1>3 DEF Conn, Before, After, Objs
<1> QED  BY <1>2, <1>3

\* What the invariant says of types.
LEMMA IInvTypeOK ==
    ASSUME IInv
    PROVE  TypeOK
<1>1. ASSUME NEW a \in Agents
      PROVE  /\ obj[a].authenticated \in {-1, 1, 2}
             /\ obj[a].agentCoreCheck \in Nat /\ obj[a].agentCoreUpdate \in BOOLEAN
             /\ \/ obj[a].agentUpdate = None
                \/ obj[a].agentUpdate.task \in AllTasks
                   /\ obj[a].agentUpdate.ptr \in 0..Blocks[a]
             /\ obj[a].agentCoreUpdateTaskId \in AllTasks \cup {None}
             /\ dev[a].core \in Cores
             /\ dev[a].binary \in {"old", "fetching", "fetched", "failed"}
  <2>1. obj[a] \in Objs /\ dev[a] \in Devs /\ Conn(a) /\ Blocks[a] \in Nat
    BY Constants1 DEF IInv, TInv
  <2>2. obj[a].agentUpdate = None \/ obj[a].agentUpdate.ptr \in 0..Blocks[a]
    BY <2>1 DEF Conn, FlowOf, Flow, Before, After, Objs
  <2> QED  BY <2>1, <2>2 DEF Objs, Devs, Updates
<1>2. UNION {current, opening, files, sending} \subseteq AllTasks /\ reading \subseteq Agents
  BY DEF IInv, TInv, TasksAre
<1> QED  BY <1>1, <1>2 DEF TypeOK

-----------------------------------------------------------------------------
\* The native updates of connection b among the tasks that start.
Starts(s, b) == {i \in 1..Len(s) : s[i].kind = "native" /\ s[i].agent = b}

\* What the task limiter may be while tasks complete.
Limiters == [current : SUBSET AllTasks, pending : [{0, 1} -> Seq(GoodTasks)],
             started : Seq(GoodTasks)]

\* Limiter l has started at most k tasks, of connections that are ready.
Sane(l, o, k) ==
    /\ l \in Limiters /\ IsFiniteSet(l.current) /\ PendingIs(l.pending)
    /\ Len(l.started) <= k
    /\ \A i \in 1..Len(l.started) : Ready(o, l.started[i].agent)

\* A held native update of a ready connection b stays held, or starts; without
\* one, none starts.
Gives(l, o, b) ==
    /\ HeldAt(pending, b) = {} => HeldAt(l.pending, b) = {} /\ Starts(l.started, b) = {}
    /\ Ready(o, b) /\ Alone(HeldAt(pending, b)) =>
         \/ Alone(HeldAt(l.pending, b)) /\ Starts(l.started, b) = {}
         \/ HeldAt(l.pending, b) = {} /\ Alone(Starts(l.started, b))

\* What is left of a queue when its first n tasks are taken.
LEMMA TakenIs ==
    ASSUME NEW S, NEW s \in Seq(S), NEW n \in Int
    PROVE  LET m == IF n > 0 THEN n ELSE 0
           IN  /\ Taken(s, n) \in Seq(S)
               /\ \A i \in 1..Len(Taken(s, n)) :
                     i + m \in 1..Len(s) /\ Taken(s, n)[i] = s[i + m]
               /\ \A i \in 1..Len(s) : i > m =>
                     i - m \in 1..Len(Taken(s, n)) /\ Taken(s, n)[i - m] = s[i]
<1> DEFINE m == IF n > 0 THEN n ELSE 0
           w == SubSeq(s, m + 1, Len(s))
<1>1. m \in Nat /\ Taken(s, n) = w /\ Len(s) \in Nat
  BY DEF Taken
<1> HIDE DEF m
<1>2. w \in Seq(S) /\ Len(w) = (IF m + 1 <= Len(s) THEN Len(s) - m ELSE 0)
  BY <1>1
<1>3. \A i \in 1..Len(w) : i + m \in 1..Len(s) /\ w[i] = s[i + m]
  BY <1>1, <1>2
<1>4. \A i \in 1..Len(s) : i > m => i - m \in 1..Len(w) /\ w[i - m] = s[i]
  BY <1>1, <1>2
<1> HIDE DEF w
<1>5. /\ Taken(s, n) \in Seq(S)
      /\ \A i \in 1..Len(Taken(s, n)) : i + m \in 1..Len(s) /\ Taken(s, n)[i] = s[i + m]
      /\ \A i \in 1..Len(s) : i > m =>
            i - m \in 1..Len(Taken(s, n)) /\ Taken(s, n)[i - m] = s[i]
  BY <1>1, <1>2, <1>3, <1>4
<1> QED  BY <1>5 DEF m

\* The limiter as it is has started nothing.
LEMMA LimiterSane ==
    ASSUME TInv, NEW o, NEW b
    PROVE  Sane(Limiter, o, 0) /\ Gives(Limiter, o, b)
<1>1. Sane(Limiter, o, 0)
  BY DEF Sane, Limiters, Limiter, TInv, TasksAre, PendingIs
<1>2. Starts(<<>>, b) = {}
  BY DEF Starts
<1>3. Limiter.pending = pending /\ Limiter.started = <<>>
  BY DEF Limiter
<1> QED  BY <1>1, <1>2, <1>3 DEF Gives

\* What completed leaves when the task had a slot.
CompletesTo(l, t, o, n, m) ==
    LET l1 == Completed(l, t, o) IN
    /\ l1.pending[0] = Taken(l.pending[0], n)
    /\ l1.pending[1] = Taken(l.pending[1], n - Len(l.pending[0]))
    /\ m \in 0..1
    /\ m = 0 => /\ l1.started = l.started /\ n = Len(l.pending[0]) + Len(l.pending[1])
                /\ \A i \in 1..Len(l.pending[1]) : ~Ready(o, l.pending[1][i].agent)
    /\ m = 1 => \E u \in GoodTasks :
                /\ l1.started = Append(l.started, u) /\ Ready(o, u.agent)
                /\ \A i \in 1..Len(l.pending[1]) :
                      Ready(o, l.pending[1][i].agent) => n <= Len(l.pending[0]) + i
                /\ \/ n \in 1..Len(l.pending[0]) /\ u = l.pending[0][n]
                   \/ n - Len(l.pending[0]) \in 1..Len(l.pending[1])
                      /\ u = l.pending[1][n - Len(l.pending[0])]

\* A task that completes takes tasks from the queues and starts the last of them.
LEMMA CompletedIs ==
    ASSUME NEW l, NEW o, NEW k, Sane(l, o, k), NEW t, t \in l.current
    PROVE  /\ \E n \in Nat, m \in 0..1 : CompletesTo(l, t, o, n, m)
           /\ Completed(l, t, o) = [current |-> Completed(l, t, o).current,
                                    pending |-> Completed(l, t, o).pending,
                                    started |-> Completed(l, t, o).started]
           /\ Completed(l, t, o).pending = [p \in {0, 1} |-> Completed(l, t, o).pending[p]]
           /\ Completed(l, t, o).current \subseteq AllTasks
           /\ IsFiniteSet(Completed(l, t, o).current)
<1> DEFINE p0 == l.pending[0]
           p1 == l.pending[1]
           queue == p0 \o p1
           ready == {i \in DOMAIN queue : Ready(o, queue[i].agent)}
           next == {i \in ready : \A j \in ready : i <= j}
           n == IF ready = {} THEN Len(queue) ELSE CHOOSE i \in next : TRUE
           l1 == Completed(l, t, o)
<1>0. l \in Limiters /\ p0 \in Seq(GoodTasks) /\ p1 \in Seq(GoodTasks) /\ IsFiniteSet(l.current)
  BY DEF Sane, Limiters
<1>1. l1 = [current |-> (l.current \ {t}) \cup {queue[i] : i \in next},
            pending |-> [p \in {0, 1} |->
                           IF p = 0 THEN Taken(l.pending[0], n)
                           ELSE Taken(l.pending[1], n - Len(l.pending[0]))],
            started |-> IF ready = {} THEN l.started
                        ELSE Append(l.started, queue[n])]
  BY Zenon DEF Completed
<1>2. /\ l1.current = (l.current \ {t}) \cup {queue[i] : i \in next}
      /\ l1.pending = [p \in {0, 1} |->
                           IF p = 0 THEN Taken(l.pending[0], n)
                           ELSE Taken(l.pending[1], n - Len(l.pending[0]))]
      /\ l1.started = IF ready = {} THEN l.started ELSE Append(l.started, queue[n])
  <2> HIDE DEF next, ready, n, l1, queue
  <2> QED  BY <1>1
<1>3. l1.pending[0] = Taken(p0, n) /\ l1.pending[1] = Taken(p1, n - Len(p0))
  <2> HIDE DEF ready, n, l1, queue
  <2> QED  BY <1>2
<1> HIDE DEF p0, p1
<1>6. /\ queue \in Seq(GoodTasks) /\ Len(queue) = Len(p0) + Len(p1) /\ Len(p0) \in Nat
      /\ Len(p1) \in Nat /\ DOMAIN queue = 1..Len(queue)
      /\ \A i \in 1..Len(p1) : Len(p0) + i \in 1..Len(queue) /\ queue[Len(p0) + i] = p1[i]
      /\ \A i \in 1..Len(queue) :
            \/ i \in 1..Len(p0) /\ queue[i] = p0[i]
            \/ i - Len(p0) \in 1..Len(p1) /\ queue[i] = p1[i - Len(p0)]
  BY <1>0, CatAt
<1> HIDE DEF queue
<1>4. CASE ready = {}
  <2>1. n = Len(queue) /\ next = {}
    BY <1>4
  <2>2. \A i \in 1..Len(p1) : ~Ready(o, p1[i].agent)
    BY <1>4, <1>6
  <2> HIDE DEF next, ready, n, l1
  <2>3. /\ l1.pending[0] = Taken(p0, n) /\ l1.pending[1] = Taken(p1, n - Len(p0))
        /\ l1.started = l.started /\ n \in Nat
    <3>1. n \in Nat
      BY <1>6, <2>1
    <3>2. l1.started = l.started
      BY <1>2, <1>4
    <3> QED  BY <1>3, <3>1, <3>2
  <2>4. CompletesTo(l, t, o, n, 0)
    BY <1>6, <2>1, <2>2, <2>3 DEF CompletesTo, l1, p0, p1
  <2>5. l1.current \subseteq AllTasks /\ IsFiniteSet(l1.current)
    <3>1. l1.current = l.current \ {t}
      BY <1>2, <2>1
    <3> QED  BY <1>0, <3>1, FS_Subset DEF Limiters
  <2>6. l1.pending = [p \in {0, 1} |-> l1.pending[p]]
    BY <1>2
  <2>7. l1 = [current |-> l1.current, pending |-> l1.pending, started |-> l1.started]
    BY <1>1, <1>2, Zenon
  <2> QED  BY <2>3, <2>4, <2>5, <2>6, <2>7 DEF l1
<1>5. CASE ready # {}
  <2>1. \E i \in ready : \A j \in ready : i <= j
    <3>1. ready \in SUBSET Nat
      BY <1>6
    <3> HIDE DEF ready
    <3> QED  BY <1>5, <3>1, LeastOfNat
  <2>2. n \in next
    <3>1. next # {}
      BY <2>1
    <3> HIDE DEF next, ready
    <3> QED  BY <1>5, <3>1
  <2>3. n \in ready /\ \A j \in ready : n <= j
    BY <2>2
  <2>4. next = {n}
    <3>1. ready \subseteq Nat
      BY <1>6
    <3>2. ASSUME NEW i \in next  PROVE i = n
      BY <2>2, <2>3, <3>1
    <3> QED  BY <2>2, <3>2
  <2>5. n \in 1..Len(queue) /\ Ready(o, queue[n].agent) /\ queue[n] \in GoodTasks /\ n \in Nat
    BY <1>6, <2>3, SMTT(30)
  <2>6. \A i \in 1..Len(p1) : Ready(o, p1[i].agent) => n <= Len(p0) + i
    BY <1>6, <2>3
  <2>7. \/ n \in 1..Len(p0) /\ queue[n] = p0[n]
        \/ n - Len(p0) \in 1..Len(p1) /\ queue[n] = p1[n - Len(p0)]
    <3> HIDE DEF n
    <3> QED  BY <1>6, <2>5
  <2> HIDE DEF next, ready, n, l1
  <2>8. /\ l1.pending[0] = Taken(p0, n) /\ l1.pending[1] = Taken(p1, n - Len(p0))
        /\ l1.started = Append(l.started, queue[n])
    BY <1>2, <1>3, <1>5
  <2>9. CompletesTo(l, t, o, n, 1)
    BY <2>5, <2>6, <2>7, <2>8 DEF CompletesTo, l1, p0, p1
  <2>10. l1.current \subseteq AllTasks /\ IsFiniteSet(l1.current)
    <3>1. l1.current = (l.current \ {t}) \cup {queue[n]}
      <4>1. l1.current = (l.current \ {t}) \cup {queue[i] : i \in next}
        BY <1>2
      <4>2. {queue[i] : i \in next} = {queue[n]}
        BY <2>4
      <4> QED  BY <4>1, <4>2
    <3>2. queue[n] \in AllTasks
      BY <2>5 DEF GoodTasks
    <3>3. IsFiniteSet(l.current \ {t})
      BY <1>0, FS_Subset
    <3>4. IsFiniteSet((l.current \ {t}) \cup {queue[n]})
      BY <3>3, FS_AddElement
    <3>5. l.current \subseteq AllTasks
      BY <1>0 DEF Limiters
    <3> QED  BY <3>1, <3>2, <3>4, <3>5
  <2>11. l1.pending = [p \in {0, 1} |-> l1.pending[p]]
    BY <1>2
  <2>12. l1 = [current |-> l1.current, pending |-> l1.pending, started |-> l1.started]
    BY <1>1, <1>2, Zenon
  <2> QED  BY <2>5, <2>9, <2>10, <2>11, <2>12 DEF l1
<1> QED  BY <1>4, <1>5

-----------------------------------------------------------------------------
\* A task that completes starts at most one more,
LEMMA CompletedSane ==
    ASSUME NEW l, NEW o, NEW k \in Nat, Sane(l, o, k), NEW t
    PROVE  Sane(Completed(l, t, o), o, k + 1)
<1>1. CASE t \notin l.current
  <2>1. Completed(l, t, o) = l
    BY <1>1 DEF Completed
  <2>2. l.started \in Seq(GoodTasks)
    BY DEF Sane, Limiters
  <2>3. Len(l.started) <= k + 1
    BY <2>2 DEF Sane
  <2> QED  BY <2>1, <2>3 DEF Sane
<1>2. CASE t \in l.current
  <2> DEFINE l1 == Completed(l, t, o)
             p0 == l.pending[0]
             p1 == l.pending[1]
  <2>1. PICK n \in Nat, m \in 0..1 : CompletesTo(l, t, o, n, m)
    BY <1>2, CompletedIs
  <2>2. /\ l1 = [current |-> l1.current, pending |-> l1.pending, started |-> l1.started]
        /\ l1.pending = [p \in {0, 1} |-> l1.pending[p]] /\ l1.current \subseteq AllTasks /\ IsFiniteSet(l1.current)
    BY <1>2, CompletedIs
  <2>3. /\ l1.pending[0] = Taken(p0, n) /\ l1.pending[1] = Taken(p1, n - Len(p0))
    BY <2>1 DEF CompletesTo
  <2>4. /\ p0 \in Seq(GoodTasks) /\ p1 \in Seq(GoodTasks) /\ l.started \in Seq(GoodTasks)
        /\ \A i \in 1..Len(p0) : p0[i].kind = "core"
        /\ \A i \in 1..Len(l.started) : Ready(o, l.started[i].agent)
        /\ Len(l.started) <= k
    BY DEF Sane, Limiters, PendingIs
  <2>5. PendingIs(l1.pending)
    <3> HIDE DEF l1, p0, p1
    <3>1. n - Len(p0) \in Int /\ n \in Int
      BY <2>4
    <3>2. Taken(p0, n) \in Seq(GoodTasks) /\ Taken(p1, n - Len(p0)) \in Seq(GoodTasks)
      BY <2>4, <3>1, TakenIs
    <3>3. ASSUME NEW i \in 1..Len(Taken(p0, n))  PROVE Taken(p0, n)[i].kind = "core"
      <4>1. PICK j \in 1..Len(p0) : Taken(p0, n)[i] = p0[j]
        BY <2>4, <3>1, TakenIs
      <4> QED  BY <2>4, <4>1
    <3>4. l1.pending \in [{0, 1} -> Seq(GoodTasks)]
      <4>1. l1.pending[0] \in Seq(GoodTasks) /\ l1.pending[1] \in Seq(GoodTasks)
        BY <2>3, <3>2
      <4> QED  BY <2>2, <4>1
    <3> QED  BY <2>3, <3>3, <3>4 DEF PendingIs
  <2>6. /\ l1.started \in Seq(GoodTasks) /\ Len(l1.started) <= k + 1
        /\ \A i \in 1..Len(l1.started) : Ready(o, l1.started[i].agent)
    <3>1. CASE m = 0
      <4>1. l1.started = l.started
        BY <2>1, <3>1 DEF CompletesTo
      <4> HIDE DEF l1
      <4> QED  BY <2>4, <4>1
    <3>2. CASE m = 1
      <4>1. PICK u \in GoodTasks : l1.started = Append(l.started, u) /\ Ready(o, u.agent)
        BY <2>1, <3>2 DEF CompletesTo
      <4> HIDE DEF l1
      <4>2. /\ l1.started \in Seq(GoodTasks) /\ Len(l1.started) = Len(l.started) + 1
            /\ \A i \in 1..Len(l1.started) :
                  (i \in 1..Len(l.started) /\ l1.started[i] = l.started[i]) \/ l1.started[i] = u
        BY <2>4, <4>1
      <4> QED  BY <2>4, <4>1, <4>2
    <3> QED  BY <2>1, <3>1, <3>2
  <2> HIDE DEF l1
  <2>7. l1 \in Limiters
    <3>1. l1.pending \in [{0, 1} -> Seq(GoodTasks)]
      BY <2>5 DEF PendingIs
    <3> QED  BY <2>2, <2>6, <3>1 DEF Limiters
  <2>8. Sane(l1, o, k + 1)
    BY <2>2, <2>5, <2>6, <2>7 DEF Sane
  <2> QED  BY <2>8 DEF l1
<1> QED  BY <1>1, <1>2

\* The native updates when one more task starts.
LEMMA StartsAppend ==
    ASSUME NEW s \in Seq(GoodTasks), NEW u \in GoodTasks, NEW b
    PROVE  /\ u.kind = "native" /\ u.agent = b =>
                 Starts(Append(s, u), b) = Starts(s, b) \cup {Len(s) + 1}
           /\ ~(u.kind = "native" /\ u.agent = b) =>
                 Starts(Append(s, u), b) = Starts(s, b)
<1> DEFINE w == Append(s, u)
<1>1. /\ Len(w) = Len(s) + 1 /\ Len(s) \in Nat /\ w[Len(s) + 1] = u
      /\ \A i \in 1..Len(s) : w[i] = s[i]
  OBVIOUS
<1> HIDE DEF w
<1>2. u.kind = "native" /\ u.agent = b => Starts(w, b) = Starts(s, b) \cup {Len(s) + 1}
  BY <1>1 DEF Starts
<1>3. ~(u.kind = "native" /\ u.agent = b) => Starts(w, b) = Starts(s, b)
  BY <1>1 DEF Starts
<1> QED  BY <1>2, <1>3 DEF w

\* and takes no native update that it does not start.
LEMMA CompletedGives ==
    ASSUME NEW l, NEW o, NEW k, Sane(l, o, k), NEW t, NEW b, Gives(l, o, b)
    PROVE  Gives(Completed(l, t, o), o, b)
<1>1. CASE t \notin l.current
  <2>1. Completed(l, t, o) = l
    BY <1>1 DEF Completed
  <2> QED  BY <2>1
<1>2. CASE t \in l.current
  <2> DEFINE l1 == Completed(l, t, o)
             p0 == l.pending[0]
             p1 == l.pending[1]
             H == HeldAt(l.pending, b)
             H1 == HeldAt(l1.pending, b)
  <2>1. PICK n \in Nat, m \in 0..1 : CompletesTo(l, t, o, n, m)
    BY <1>2, CompletedIs
  <2>2. /\ p0 \in Seq(GoodTasks) /\ p1 \in Seq(GoodTasks) /\ l.started \in Seq(GoodTasks)
        /\ \A i \in 1..Len(p0) : p0[i].kind = "core"
    BY DEF Sane, Limiters, PendingIs
  <2> DEFINE d == n - Len(p0)
             e == IF d > 0 THEN d ELSE 0
             w == Taken(p1, d)
  <2>3. l1.pending[1] = w /\ Len(p0) \in Nat /\ d \in Int /\ e \in Nat
    BY <2>1, <2>2 DEF CompletesTo
  <2>4. /\ \A i \in 1..Len(w) : i + e \in 1..Len(p1) /\ w[i] = p1[i + e]
        /\ \A i \in 1..Len(p1) : i > e => i - e \in 1..Len(w) /\ w[i - e] = p1[i]
    <3> HIDE DEF p1, d
    <3> QED  BY <2>2, <2>3, TakenIs
  <2>5. /\ \A i \in H1 : i + e \in H
        /\ \A i \in H : i > e => i - e \in H1
        /\ H1 \subseteq Nat \ {0} /\ H \subseteq Nat \ {0}
    <3> HIDE DEF w, e
    <3> QED  BY <2>3, <2>4, SMTT(30) DEF HeldAt
  <2>6. H = {} => H1 = {}
    BY <2>5
  <2>7. CASE m = 0
    <3>1. /\ l1.started = l.started
          /\ \A i \in 1..Len(p1) : ~Ready(o, p1[i].agent)
      BY <2>1, <2>7 DEF CompletesTo
    <3>2. Ready(o, b) => H = {}
      BY <3>1 DEF HeldAt
    <3> HIDE DEF H, H1, l1
    <3>3. Ready(o, b) /\ Alone(HeldAt(pending, b)) => H1 = {} /\ Alone(Starts(l1.started, b))
      <4>1. ~Alone({})
        BY DEF Alone
      <4> QED  BY <2>6, <3>1, <3>2, <4>1 DEF Gives, H
    <3>4. HeldAt(pending, b) = {} => H1 = {} /\ Starts(l1.started, b) = {}
      BY <2>6, <3>1 DEF Gives, H
    <3>5. Gives(l1, o, b)
      BY <3>3, <3>4 DEF Gives, H1
    <3> QED  BY <3>5 DEF l1
  <2>8. CASE m = 1
    <3>1. PICK u \in GoodTasks :
             /\ l1.started = Append(l.started, u) /\ Ready(o, u.agent)
             /\ \A i \in 1..Len(p1) : Ready(o, p1[i].agent) => n <= Len(p0) + i
             /\ \/ n \in 1..Len(p0) /\ u = p0[n]
                \/ d \in 1..Len(p1) /\ u = p1[d]
      BY <2>1, <2>8 DEF CompletesTo
    <3>2. u.kind = "native" /\ u.agent = b => d \in H /\ e = d
      <4>1. ASSUME u.kind = "native", u.agent = b  PROVE d \in 1..Len(p1) /\ u = p1[d]
        BY <2>2, <3>1, <4>1
      <4> QED  BY <4>1 DEF HeldAt
    <3>3. ASSUME Ready(o, b), NEW i \in H  PROVE i >= e
      <4>1. n <= Len(p0) + i /\ i \in Nat
        BY <3>1, <3>3 DEF HeldAt
      <4> QED  BY <2>2, <4>1
    <3>4. d \in H => d \in 1..Len(p1) /\ p1[d].kind = "native" /\ p1[d].agent = b
      BY DEF HeldAt
    <3>5. d \in H /\ e = d => u = p1[d]
      <4>1. ASSUME d \in H, n \in 1..Len(p0)  PROVE FALSE
        BY <2>2, <3>4, <4>1
      <4> QED  BY <3>1, <4>1
    <3> HIDE DEF H, H1, l1, p0, p1, d, e, w
    <3>6. H = {} => Starts(l1.started, b) = Starts(l.started, b)
      BY <2>2, <3>1, <3>2, StartsAppend
    <3>7. ASSUME Ready(o, b), Alone(H), Starts(l.started, b) = {}
          PROVE  \/ Alone(H1) /\ Starts(l1.started, b) = {}
                 \/ H1 = {} /\ Alone(Starts(l1.started, b))
      <4>1. PICK i \in H : H = {i}
        BY <3>7 DEF Alone
      <4>2. i >= e /\ i \in Nat
        BY <2>5, <3>3, <3>7, <4>1
      <4>3. CASE i = e
        <5>1. H1 = {}
          BY <2>3, <2>5, <4>1, <4>3
        <5>2. d = e
          BY <2>5, <2>3, <4>1, <4>3 DEF e
        <5>3. u.kind = "native" /\ u.agent = b
          BY <3>4, <3>5, <4>1, <4>3, <5>2
        <5>4. Starts(l1.started, b) = {Len(l.started) + 1}
          <6>1. Starts(l1.started, b) = Starts(l.started, b) \cup {Len(l.started) + 1}
            <7>1. Starts(Append(l.started, u), b) = Starts(l.started, b) \cup {Len(l.started) + 1}
              BY <2>2, <5>3, StartsAppend
            <7> QED  BY <3>1, <7>1
          <6> QED  BY <3>7, <6>1
        <5> QED  BY <5>1, <5>4 DEF Alone
      <4>4. CASE i > e
        <5>1. i - e \in H1
          BY <2>5, <4>1, <4>4
        <5>2. ASSUME NEW j \in H1  PROVE j = i - e
          BY <2>3, <2>5, <4>1, <4>2
        <5>3. Alone(H1)
          BY <5>1, <5>2 DEF Alone
        <5>4. ~(u.kind = "native" /\ u.agent = b)
          BY <3>2, <4>1, <4>4, <2>3
        <5> QED  BY <2>2, <3>1, <3>7, <5>3, <5>4, StartsAppend
      <4> QED  BY <2>3, <4>2, <4>3, <4>4
    <3>8. HeldAt(pending, b) = {} => H1 = {} /\ Starts(l1.started, b) = {}
      BY <2>6, <3>6 DEF Gives, H
    <3>9. ASSUME Ready(o, b), Alone(HeldAt(pending, b))
           PROVE  \/ Alone(H1) /\ Starts(l1.started, b) = {}
                  \/ H1 = {} /\ Alone(Starts(l1.started, b))
      <4>1. \/ Alone(H) /\ Starts(l.started, b) = {}
            \/ H = {} /\ Alone(Starts(l.started, b))
        BY <3>9 DEF Gives, H
      <4> QED  BY <2>6, <3>6, <3>7, <3>9, <4>1
    <3>10. Gives(l1, o, b)
      BY <3>8, <3>9 DEF Gives, H1
    <3> QED  BY <3>10 DEF l1
  <2> QED  BY <2>1, <2>7, <2>8
<1> QED  BY <1>1, <1>2

-----------------------------------------------------------------------------
\* A task that is launched starts, or is held behind the others.
LEMMA LaunchedIs ==
    ASSUME TInv, NEW t \in GoodTasks, Ready(obj, t.agent), NEW o, Ready(o, t.agent)
    PROVE  /\ Sane(Launched(t), o, 1)
           /\ \A b : ~(t.kind = "native" /\ t.agent = b) => Gives(Launched(t), o, b)
           /\ t.kind = "native" /\ HeldAt(pending, t.agent) = {} =>
                \/ /\ HeldAt(Launched(t).pending, t.agent) = {}
                   /\ Alone(Starts(Launched(t).started, t.agent))
                \/ /\ Alone(HeldAt(Launched(t).pending, t.agent))
                   /\ Starts(Launched(t).started, t.agent) = {}
<1> DEFINE l == Launched(t)
           q == Priority(t)
<1>0. /\ t \in AllTasks /\ current \subseteq AllTasks /\ IsFiniteSet(current) /\ PendingIs(pending)
      /\ pending \in [{0, 1} -> Seq(GoodTasks)] /\ q \in {0, 1}
      /\ \A i \in 1..Len(pending[0]) : pending[0][i].kind = "core"
  BY DEF TInv, TasksAre, PendingIs, GoodTasks, Priority
<1>1. CASE Cardinality(current) < MaxTasks
  <2>1. l = [current |-> current \cup {t}, pending |-> pending, started |-> <<t>>]
    BY <1>1 DEF Launched, Limiter
  <2>2. IsFiniteSet(current \cup {t})
    BY <1>0, FS_AddElement
  <2>3. /\ <<t>> \in Seq(GoodTasks) /\ Len(<<t>>) = 1 /\ \A i \in 1..Len(<<t>>) : <<t>>[i] = t
        /\ 1 \in 1..Len(<<t>>)
    OBVIOUS
  <2>4. l.current = current \cup {t} /\ l.pending = pending /\ l.started = <<t>>
    BY <2>1
  <2>5. l \in Limiters
    BY <1>0, <2>1, <2>3 DEF Limiters
  <2> HIDE DEF l
  <2>6. Sane(l, o, 1)
    BY <1>0, <2>2, <2>3, <2>4, <2>5 DEF Sane
  <2>7. ASSUME NEW b, ~(t.kind = "native" /\ t.agent = b)  PROVE Gives(l, o, b)
    <3>1. Starts(<<t>>, b) = {}
      BY <2>3, <2>7 DEF Starts
    <3> QED  BY <2>4, <3>1 DEF Gives
  <2>8. t.kind = "native" => Starts(<<t>>, t.agent) = {1}
    BY <2>3 DEF Starts
  <2> QED  BY <2>4, <2>6, <2>7, <2>8 DEF l, Alone
<1>2. CASE ~(Cardinality(current) < MaxTasks)
  <2>1. l = [current |-> current, pending |-> [pending EXCEPT ![q] = Append(@, t)],
             started |-> <<>>]
    BY <1>2 DEF Launched, Limiter
  <2>2. /\ l.current = current /\ l.pending = [pending EXCEPT ![q] = Append(@, t)]
        /\ l.started = <<>>
    BY <2>1
  <2> DEFINE w == Append(pending[q], t)
  <2>3. /\ pending[q] \in Seq(GoodTasks) /\ w \in Seq(GoodTasks)
        /\ Len(w) = Len(pending[q]) + 1 /\ Len(pending[q]) \in Nat
        /\ w[Len(pending[q]) + 1] = t /\ \A i \in 1..Len(pending[q]) : w[i] = pending[q][i]
    BY <1>0
  <2>4. /\ l.pending \in [{0, 1} -> Seq(GoodTasks)] /\ l.pending[q] = w
        /\ \A p \in {0, 1} : p # q => l.pending[p] = pending[p]
    BY <1>0, <2>2, <2>3
  <2>5. <<>> \in Seq(GoodTasks) /\ Len(<<>>) = 0
    OBVIOUS
  <2>6. l \in Limiters
    BY <1>0, <2>1, <2>2, <2>4, <2>5 DEF Limiters
  <2> HIDE DEF l, w
  <2>7. q = 0 <=> t.kind = "core"
    BY DEF Priority
  <2>8. \A i \in 1..Len(l.pending[0]) : l.pending[0][i].kind = "core"
    BY <1>0, <2>3, <2>4, <2>7
  <2>9. Sane(l, o, 1)
    BY <1>0, <2>2, <2>4, <2>5, <2>6, <2>8 DEF Sane, PendingIs
  <2>10. \A b : Starts(<<>>, b) = {}
    BY <2>5 DEF Starts
  <2>11. ASSUME NEW b, ~(t.kind = "native" /\ t.agent = b)  PROVE Gives(l, o, b)
    <3>1. HeldAt(l.pending, b) = HeldAt(pending, b)
      <4>1. CASE q = 0
        BY <1>0, <2>4, <4>1 DEF HeldAt
      <4>2. CASE q = 1
        BY <2>3, <2>4, <2>11, <4>2 DEF HeldAt
      <4> QED  BY <1>0, <4>1, <4>2
    <3> QED  BY <2>2, <2>10, <3>1 DEF Gives
  <2>12. ASSUME t.kind = "native", HeldAt(pending, t.agent) = {}
         PROVE  HeldAt(l.pending, t.agent) = {Len(pending[1]) + 1}
    <3>1. q = 1
      BY <1>0, <2>7, <2>12
    <3>2. \A i \in 1..Len(pending[1]) :
             ~(pending[1][i].kind = "native" /\ pending[1][i].agent = t.agent)
      BY <2>12 DEF HeldAt
    <3>3. /\ l.pending[1] = w /\ Len(w) = Len(pending[1]) + 1 /\ Len(pending[1]) \in Nat
          /\ w[Len(pending[1]) + 1] = t /\ \A i \in 1..Len(pending[1]) : w[i] = pending[1][i]
      BY <2>3, <2>4, <3>1
    <3>4. \A i \in 1..Len(w) : i \in 1..Len(pending[1]) \/ i = Len(pending[1]) + 1
      BY <3>3
    <3> QED  BY <2>12, <3>2, <3>3, <3>4 DEF HeldAt
  <2> QED  BY <2>2, <2>9, <2>10, <2>11, <2>12 DEF l, Alone
<1> QED  BY <1>1, <1>2

-----------------------------------------------------------------------------

\* What task t, or the tasks s, say to connection a when they start.
Spoken(t, a) == IF t.agent = a THEN Says(t) ELSE <<>>
Words(s, a) == FlattenSeq([i \in DOMAIN s |-> Spoken(s[i], a)])

\* What a task says is a core, or the begin of a native update from RAM.
LEMMA SpokenIs ==
    ASSUME NEW t \in GoodTasks, NEW a
    PROVE  /\ Spoken(t, a) \in Seq(Msgs)
           /\ t.agent # a => Spoken(t, a) = <<>>
           /\ t.kind # "native" \/ t.agent # a \/ a \in Disk => Free(Spoken(t, a), DownMarks)
           /\ t.kind = "native" /\ t.agent = a /\ a \notin Disk =>
                Pair(Spoken(t, a), DownMarks, Start, Block(1))
<1>1. CASE t.agent # a
  <2>1. Spoken(t, a) = <<>>
    BY <1>1 DEF Spoken
  <2> QED  BY <1>1, <2>1 DEF Free
<1>2. CASE t.agent = a /\ t.kind = "core"
  <2>1. Spoken(t, a) = <<Core(t.core)>> /\ t.core \in Cores
    BY <1>2 DEF Spoken, Says, GoodTasks
  <2>2. Core(t.core) \in Msgs /\ Core(t.core).type \notin DownMarks
    BY <2>1, Messages DEF DownMarks
  <2> QED  BY <1>2, <2>1, <2>2 DEF Free
<1>3. CASE t.agent = a /\ t.kind = "fetch"
  <2>1. Spoken(t, a) = <<Fetch>>
    BY <1>3 DEF Spoken, Says
  <2>2. Fetch \in Msgs /\ Fetch.type \notin DownMarks
    BY Messages DEF DownMarks
  <2> QED  BY <1>3, <2>1, <2>2 DEF Free
<1>4. CASE t.agent = a /\ t.kind = "native" /\ a \in Disk
  <2>1. Spoken(t, a) = <<>>
    BY <1>4 DEF Spoken, Says
  <2> QED  BY <1>4, <2>1 DEF Free
<1>5. CASE t.agent = a /\ t.kind = "native" /\ a \notin Disk
  <2> DEFINE w == <<Core("none"), Start, Block(1)>>
  <2>1. Spoken(t, a) = w
    BY <1>5 DEF Spoken, Says
  <2>2. /\ Core("none") \in Msgs /\ Core("none").type \notin DownMarks
        /\ Start \in Msgs /\ Block(1) \in Msgs
    BY Messages, Constants1 DEF DownMarks
  <2>3. w \in Seq(Msgs) /\ Len(w) = 3 /\ w[1] = Core("none") /\ w[2] = Start /\ w[3] = Block(1)
    BY <2>2
  <2> HIDE DEF w
  <2>4. PairAt(w, DownMarks, Start, Block(1), 2, 3)
    BY <2>2, <2>3 DEF PairAt
  <2>5. Pair(w, DownMarks, Start, Block(1))
    BY <2>3, <2>4 DEF Pair
  <2> QED  BY <1>5, <2>1, <2>3, <2>5
<1> QED  BY <1>1, <1>2, <1>3, <1>4, <1>5 DEF GoodTasks, AllTasks, Kinds

\* Nothing that starts says nothing.
LEMMA FlattenNone == ASSUME NEW w, w = <<>> PROVE FlattenSeq(w) = <<>>
<1>1. Len(w) = 0
  OBVIOUS
<1> QED  BY <1>1 DEF FlattenSeq

\* A sequence of up to two sequences is made one.
LEMMA FlattenFew ==
    ASSUME NEW w, NEW n \in {1, 2}, Len(w) = n
    PROVE  FlattenSeq(w) = IF n = 1 THEN w[1] ELSE w[1] \o w[2]
<1> DEFINE Is(f) == f = [i \in 1..Len(w) |-> IF i = 1 THEN w[i] ELSE f[i - 1] \o w[i]]
           f == CHOOSE g : Is(g)
           h == [i \in 1..n |-> IF i = 1 THEN w[1] ELSE w[1] \o w[2]]
<1>1. FlattenSeq(w) = IF Len(w) = 0 THEN w ELSE f[Len(w)]
  BY Zenon DEF FlattenSeq
<1>2. h = [i \in 1..n |-> IF i = 1 THEN w[i] ELSE h[i - 1] \o w[i]]
  <2>1. ASSUME NEW i \in 1..n  PROVE h[i] = IF i = 1 THEN w[i] ELSE h[i - 1] \o w[i]
    <3>1. CASE i = 1
      BY <3>1
    <3>2. CASE i = 2
      <4>1. 1 \in 1..n /\ 2 \in 1..n
        BY <3>2
      <4>2. h[1] = w[1] /\ h[2] = w[1] \o w[2]
        BY <4>1
      <4>3. i # 1 /\ i - 1 = 1
        BY <3>2
      <4> HIDE DEF h
      <4> QED  BY <3>2, <4>2, <4>3
    <3>3. i = 1 \/ i = 2
      OBVIOUS
    <3> QED  BY <3>1, <3>2, <3>3
  <2>2. h = [i \in 1..n |-> h[i]]
    OBVIOUS
  <2> HIDE DEF h
  <2> QED  BY <2>1, <2>2
<1>3. Is(h)
  <2> HIDE DEF h
  <2> QED  BY <1>2
<1>4. f = [i \in 1..Len(w) |-> IF i = 1 THEN w[i] ELSE f[i - 1] \o w[i]]
  <2>1. Is(f)
    <3> HIDE DEF Is, h
    <3> QED  BY <1>3
  <2> HIDE DEF f
  <2> QED  BY <2>1
<1> HIDE DEF f
<1>5. 1 \in 1..n /\ n \in 1..n /\ n # 0
  OBVIOUS
<1>6. f[1] = w[1]
  BY <1>4, <1>5
<1>7. n = 2 => f[2] = f[1] \o w[2]
  BY <1>4, <1>5
<1> QED  BY <1>1, <1>5, <1>6, <1>7

\* What the started tasks of connection a say.
LEMMA WordsAre ==
    ASSUME NEW s \in Seq(GoodTasks), Len(s) <= 2, NEW a
    PROVE  /\ Words(s, a) \in Seq(Msgs)
           /\ (\A i \in 1..Len(s) : s[i].agent # a) => Words(s, a) = <<>>
           /\ Starts(s, a) = {} \/ a \in Disk => Free(Words(s, a), DownMarks)
           /\ Alone(Starts(s, a)) /\ a \notin Disk =>
                Pair(Words(s, a), DownMarks, Start, Block(1))
<1> DEFINE w == [i \in DOMAIN s |-> Spoken(s[i], a)]
<1>1. Words(s, a) = FlattenSeq(w)
  BY DEF Words
<1>2. (Len(s) = 0 \/ Len(s) = 1 \/ Len(s) = 2) /\ DOMAIN s = 1..Len(s)
  <2>1. Len(s) \in Nat /\ DOMAIN s = 1..Len(s)
    OBVIOUS
  <2> DEFINE n == Len(s)
  <2>2. n = 0 \/ n = 1 \/ n = 2
    <3>1. n \in Nat /\ n <= 2
      BY <2>1
    <3> HIDE DEF n
    <3> QED  BY <3>1
  <2> QED  BY <2>1, <2>2
<1>3. CASE Len(s) = 0
  <2>1. w = <<>>
    BY <1>2, <1>3
  <2>2. Words(s, a) = <<>>
    BY <1>1, <2>1, FlattenNone
  <2>3. Starts(s, a) = {}
    BY <1>3 DEF Starts
  <2>4. ~Alone({})
    BY DEF Alone
  <2>5. Free(<<>>, DownMarks) /\ <<>> \in Seq(Msgs)
    BY DEF Free
  <2> QED  BY <2>2, <2>3, <2>4, <2>5
<1>4. CASE Len(s) = 1
  <2>1. Len(w) = 1 /\ 1 \in 1..Len(s) /\ w[1] = Spoken(s[1], a) /\ s[1] \in GoodTasks
    BY <1>2, <1>4
  <2>6. FlattenSeq(w) = w[1]
    <3> HIDE DEF w
    <3> QED  BY <2>1, FlattenFew
  <2> HIDE DEF w
  <2>2. Words(s, a) = Spoken(s[1], a)
    BY <1>1, <2>1, <2>6
  <2>3. Starts(s, a) = {} => ~(s[1].kind = "native" /\ s[1].agent = a)
    BY <2>1 DEF Starts
  <2>4. Alone(Starts(s, a)) => s[1].kind = "native" /\ s[1].agent = a
    BY <1>4, <2>1 DEF Starts, Alone
  <2>5. (\A i \in 1..Len(s) : s[i].agent # a) => s[1].agent # a
    BY <2>1
  <2> QED  BY <2>1, <2>2, <2>3, <2>4, <2>5, SpokenIs
<1>5. CASE Len(s) = 2
  <2>1. /\ Len(w) = 2 /\ 1 \in 1..Len(s) /\ 2 \in 1..Len(s) /\ w[1] = Spoken(s[1], a)
        /\ w[2] = Spoken(s[2], a) /\ s[1] \in GoodTasks /\ s[2] \in GoodTasks
        /\ \A i \in 1..Len(s) : i = 1 \/ i = 2
    <3>1. 1 \in 1..Len(s) /\ 2 \in 1..Len(s) /\ \A i \in 1..Len(s) : i = 1 \/ i = 2
      BY <1>5
    <3>2. Len(w) = 2
      BY <1>2, <1>5
    <3>3. w[1] = Spoken(s[1], a) /\ w[2] = Spoken(s[2], a)
      BY <1>2, <3>1
    <3> QED  BY <3>1, <3>2, <3>3
  <2>10. FlattenSeq(w) = w[1] \o w[2]
    <3> DEFINE n == 2
    <3>1. n \in {1, 2} /\ Len(w) = n /\ n # 1
      BY <2>1
    <3> HIDE DEF w, n
    <3> QED  BY <3>1, FlattenFew
  <2> HIDE DEF w
  <2> DEFINE x == Spoken(s[1], a)
             y == Spoken(s[2], a)
             X == s[1].kind = "native" /\ s[1].agent = a
             Y == s[2].kind = "native" /\ s[2].agent = a
  <2>2. Words(s, a) = x \o y
    BY <1>1, <2>1, <2>10
  <2>3. /\ x \in Seq(Msgs) /\ y \in Seq(Msgs)
        /\ (~X \/ a \in Disk => Free(x, DownMarks))
        /\ (~Y \/ a \in Disk => Free(y, DownMarks))
        /\ (X /\ a \notin Disk => Pair(x, DownMarks, Start, Block(1)))
        /\ (Y /\ a \notin Disk => Pair(y, DownMarks, Start, Block(1)))
    BY <2>1, SpokenIs
  <2>4. Starts(s, a) = {} => ~X /\ ~Y
    BY <2>1 DEF Starts
  <2>5. Alone(Starts(s, a)) => (X /\ ~Y) \/ (~X /\ Y)
    BY <2>1 DEF Starts, Alone
  <2>6. ASSUME \A i \in 1..Len(s) : s[i].agent # a  PROVE Words(s, a) = <<>>
    <3>1. x = <<>> /\ y = <<>>
      BY <2>1, <2>6, SpokenIs
    <3> HIDE DEF x, y
    <3> QED  BY <2>2, <3>1
  <2> HIDE DEF x, y, X, Y
  <2>7. Words(s, a) \in Seq(Msgs)
    BY <2>2, <2>3, CatAt
  <2>8. Starts(s, a) = {} \/ a \in Disk => Free(Words(s, a), DownMarks)
    BY <2>2, <2>3, <2>4, FreeFree
  <2>9. ASSUME Alone(Starts(s, a)), a \notin Disk
        PROVE  Pair(Words(s, a), DownMarks, Start, Block(1))
    BY <2>2, <2>3, <2>5, <2>9, FreePair, PairFree
  <2> QED  BY <2>6, <2>7, <2>8, <2>9
<1> QED  BY <1>2, <1>3, <1>4, <1>5

-----------------------------------------------------------------------------
\* A set of numbers that are at most n has a greatest one.
LEMMA GreatestUpTo ==
    ASSUME NEW n \in Nat, NEW T \in SUBSET (1..n), T # {}
    PROVE  Max(T) \in T
<1> DEFINE D == {n - i : i \in T}
<1>1. \A i \in T : i \in Nat /\ n - i \in Nat
  OBVIOUS
<1>5. D \in SUBSET Nat /\ D # {}
  BY <1>1
<1>2. PICK x \in D : \A y \in D : x <= y
  <2> HIDE DEF D
  <2> QED  BY <1>5, LeastOfNat
<1>3. PICK i \in T : x = n - i
  OBVIOUS
<1>4. \A j \in T : i >= j
  <2> SUFFICES ASSUME NEW j \in T  PROVE i >= j
    OBVIOUS
  <2>1. x <= n - j
    BY <1>2
  <2> QED  BY <1>1, <1>3, <2>1
<1> QED  BY <1>4, Zenon DEF Max

\* Tasks that start change their own connections only, in two fields.
LEMMA BegunIs ==
    ASSUME NEW o \in [Agents -> Objs], NEW s \in Seq(GoodTasks), NEW a \in Agents
    PROVE  /\ Begun(o, s)[a] \in Objs
           /\ Begun(o, s)[a].authenticated = o[a].authenticated
           /\ Starts(s, a) = {} \/ a \in Disk =>
                Begun(o, s)[a].agentUpdate = o[a].agentUpdate
           /\ Starts(s, a) # {} /\ a \notin Disk =>
                Begun(o, s)[a].agentUpdate \in Updates /\ Begun(o, s)[a].agentUpdate.ptr = 1
           /\ (\A i \in 1..Len(s) : s[i].agent # a) => Begun(o, s)[a] = o[a]
<1> DEFINE mine == {i \in DOMAIN s : s[i].agent = a}
           fetches == {i \in mine : s[i].kind = "fetch"}
           natives == {i \in mine : s[i].kind = "native" /\ a \notin Disk}
           id == IF fetches = {} THEN o[a].agentCoreUpdateTaskId ELSE s[Max(fetches)]
           up == IF natives = {} THEN o[a].agentUpdate
                 ELSE [task |-> s[Max(natives)], ptr |-> 1]
           b == Begun(o, s)[a]
<1>1. b = [o[a] EXCEPT !.agentCoreUpdateTaskId = id, !.agentUpdate = up]
  BY DEF Begun
<1>2. o[a] \in Objs /\ DOMAIN s = 1..Len(s) /\ Len(s) \in Nat
  OBVIOUS
<1>3. fetches # {} => s[Max(fetches)] \in AllTasks
  <2> HIDE DEF fetches
  <2>1. fetches \in SUBSET (1..Len(s))
    BY <1>2 DEF fetches
  <2>2. ASSUME fetches # {}  PROVE Max(fetches) \in 1..Len(s)
    BY <1>2, <2>1, <2>2, GreatestUpTo
  <2> QED  BY <1>2, <2>2 DEF GoodTasks
<1>4. natives # {} => s[Max(natives)] \in AllTasks
  <2> HIDE DEF natives
  <2>1. natives \in SUBSET (1..Len(s))
    BY <1>2 DEF natives
  <2>2. ASSUME natives # {}  PROVE Max(natives) \in 1..Len(s)
    BY <1>2, <2>1, <2>2, GreatestUpTo
  <2> QED  BY <1>2, <2>2 DEF GoodTasks
<1>5. (natives = {}) <=> (Starts(s, a) = {} \/ a \in Disk)
  BY <1>2 DEF Starts
<1>6. id \in {None} \cup AllTasks
  <2>1. o[a].agentCoreUpdateTaskId \in {None} \cup AllTasks
    BY <1>2 DEF Objs
  <2> HIDE DEF fetches
  <2> QED  BY <1>3, <2>1
<1>7. /\ natives = {} => up = o[a].agentUpdate
      /\ natives # {} => up \in Updates /\ up.ptr = 1
  <2> HIDE DEF natives
  <2> QED  BY <1>4 DEF Updates
<1>8. (\A i \in 1..Len(s) : s[i].agent # a) => fetches = {} /\ natives = {}
  BY <1>2
<1>9. fetches = {} => id = o[a].agentCoreUpdateTaskId
  OBVIOUS
<1> HIDE DEF id, up, b, fetches, natives
<1>10. up \in {None} \cup Updates
  BY <1>2, <1>7 DEF Objs
<1>11. b \in Objs /\ b.agentUpdate = up /\ b.authenticated = o[a].authenticated
  BY <1>1, <1>2, <1>6, <1>10 DEF Objs
<1>12. fetches = {} /\ natives = {} => b = o[a]
  BY <1>1, <1>2, <1>7, <1>9 DEF Objs
<1> QED  BY <1>5, <1>7, <1>8, <1>11, <1>12 DEF b

\* What a step leaves, but for what is being sent.
Leaves(l, o, say) ==
    /\ current' = l.current /\ pending' = l.pending /\ obj' = o
    /\ toAgent' = [a \in Agents |-> say[a] \o Words(l.started, a)]
    /\ opening' = opening \cup {t \in ToSet(l.started) :
                                  t.kind = "native" /\ t.agent \in Disk}

\* A step leaves what it is given.
LEMMA StepIs ==
    ASSUME NEW l, NEW o, NEW say, NEW sent, Step(l, o, say, sent)
    PROVE  /\ Leaves(l, o, say)
           /\ sending' = (sending \ sent) \cup {t \in ToSet(l.started) : t.kind = "core"}
<1>1. toAgent' = [a \in Agents |-> say[a] \o Words(l.started, a)]
  BY DEF Step, Words, Spoken
<1>2. opening' = opening \cup {t \in ToSet(l.started) :
                                         t.kind = "native" /\ t.agent \in Disk}
  BY DEF Step
<1>3. /\ current' = l.current /\ pending' = l.pending /\ obj' = o
      /\ sending' = (sending \ sent) \cup {t \in ToSet(l.started) : t.kind = "core"}
  BY DEF Step
<1> QED  BY <1>1, <1>2, <1>3 DEF Leaves

\* Tasks that start are in the sequence.
LEMMA StartedAre ==
    ASSUME NEW s \in Seq(GoodTasks), NEW a
    PROVE  /\ ToSet(s) \subseteq AllTasks /\ IsFiniteSet(ToSet(s))
           /\ \A t \in ToSet(s) : \E i \in 1..Len(s) : t = s[i]
           /\ \A i \in 1..Len(s) : s[i] \in ToSet(s)
<1>1. ToSet(s) = {s[i] : i \in 1..Len(s)} /\ Len(s) \in Nat
  BY DEF ToSet
<1>2. IsFiniteSet({s[i] : i \in 1..Len(s)})
  <2>1. IsFiniteSet(1..Len(s))
    <3>1. 1 \in Int /\ Len(s) \in Int
      BY <1>1
    <3> QED  BY <3>1, FS_Interval
  <2>2. [i \in 1..Len(s) |-> s[i]] \in Surjection(1..Len(s), {s[i] : i \in 1..Len(s)})
    BY DEF Surjection
  <2> QED  BY <2>1, <2>2, FS_Surjection
<1> QED  BY <1>1, <1>2 DEF GoodTasks

-----------------------------------------------------------------------------
\* The answers r1 are those of r, or those after one of no account.
Passed(r, r1) ==
    /\ r1 \in Seq(Msgs)
    /\ Free(r, UpMarks) => Free(r1, UpMarks)
    /\ \A m \in {Msg("binaryhash"), Msg("ack")} :
          Single(r, UpMarks, m) => Single(r1, UpMarks, m)

\* No answer is taken.
LEMMA PassedSame ==
    ASSUME NEW r \in Seq(Msgs)
    PROVE  Passed(r, r)
  BY DEF Passed

\* An answer of no account is taken.
LEMMA PassedTail ==
    ASSUME NEW r \in Seq(Msgs), r # <<>>, Head(r).type \notin UpMarks
    PROVE  Passed(r, Tail(r))
<1>1. Tail(r) \in Seq(Msgs)
  BY TailAt
<1>2. Free(r, UpMarks) => Free(Tail(r), UpMarks)
  BY TailFree
<1>3. ASSUME NEW m \in {Msg("binaryhash"), Msg("ack")}, Single(r, UpMarks, m)
      PROVE  Single(Tail(r), UpMarks, m)
  <2>1. Head(r) # m
    BY Messages DEF UpMarks, Types
  <2> QED  BY <1>3, <2>1, TailSingle
<1> QED  BY <1>1, <1>2, <1>3 DEF Passed

\* A held task stays held, and what is said is of no account.
LEMMA FlowStays ==
    ASSUME NEW N \in Nat, NEW u, NEW H, NEW H1, NEW O, NEW R, NEW s \in Seq(Msgs),
           NEW r \in Seq(Msgs), NEW g, NEW w \in Seq(Msgs), NEW r1,
           Flow(N, u, H, O, R, s, r, g), H = {} => H1 = {}, Alone(H) => Alone(H1),
           Free(w, DownMarks), Passed(r, r1)
    PROVE  Flow(N, u, H1, O, R, s \o w, r1, g)
<1>1. Free(r, UpMarks) => Free(r1, UpMarks)
  BY DEF Passed
<1>2. /\ Single(r, UpMarks, Msg("binaryhash")) => Single(r1, UpMarks, Msg("binaryhash"))
      /\ Single(r, UpMarks, Msg("ack")) => Single(r1, UpMarks, Msg("ack"))
  BY DEF Passed
<1>3. Free(s, DownMarks) => Free(s \o w, DownMarks)
  BY FreeFree
<1>4. \A m : Single(s, DownMarks, m) => Single(s \o w, DownMarks, m)
  BY SingleFree
<1>5. \A m, n : Pair(s, DownMarks, m, n) => Pair(s \o w, DownMarks, m, n)
  BY PairFree
<1>6. Ending(N, s, g) => Ending(N, s \o w, g)
  BY <1>3, <1>4 DEF Ending
<1>7. Rests(N, s, r, g) => Rests(N, s \o w, r1, g)
  BY <1>1, <1>2, <1>3, <1>4, <1>5, <1>6 DEF Rests
<1>8. \A k : Blocked(s, r, g, k) => Blocked(s \o w, r1, g, k)
  BY <1>1, <1>2, <1>3, <1>4, <1>5 DEF Blocked
<1>9. \A k : Reads(s, r, g, k) => Reads(s \o w, r1, g, k)
  BY <1>1, <1>3, <1>4 DEF Reads
<1> QED  BY <1>1, <1>3, <1>7, <1>8, <1>9 DEF Flow

\* The empty set has no element.
LEMMA NotAlone == ~Alone({})
  BY DEF Alone

\* A held task starts: the file of the new binary is opened, or the first block is
\* sent from RAM.
LEMMA FlowStarts ==
    ASSUME NEW N \in Nat \ {0}, NEW u, NEW H, NEW O, NEW R, NEW s \in Seq(Msgs),
           NEW r \in Seq(Msgs), NEW g, NEW w \in Seq(Msgs), NEW r1,
           Flow(N, u, H, O, R, s, r, g), Alone(H), Passed(r, r1)
    PROVE  /\ O = {}
           /\ \A O1 : Alone(O1) /\ Free(w, DownMarks) => Flow(N, u, {}, O1, R, s \o w, r1, g)
           /\ \A u1 : u1 # None /\ u1.ptr = 1 /\ Pair(w, DownMarks, Start, Block(1))
                      => Flow(N, u1, {}, O, R, s \o w, r1, g)
<1>1. /\ O = {} /\ ~R /\ u = None /\ Free(s, DownMarks) /\ Free(r, UpMarks)
  BY NotAlone DEF Flow
<1>2. Free(r1, UpMarks)
  BY <1>1 DEF Passed
<1>3. ASSUME NEW O1, Alone(O1), Free(w, DownMarks)  PROVE Flow(N, u, {}, O1, R, s \o w, r1, g)
  <2>1. Free(s \o w, DownMarks)
    BY <1>1, <1>3, FreeFree
  <2> QED  BY <1>1, <1>2, <1>3, <2>1 DEF Flow
<1>4. ASSUME NEW u1, u1 # None, u1.ptr = 1, Pair(w, DownMarks, Start, Block(1))
      PROVE  Flow(N, u1, {}, O, R, s \o w, r1, g)
  <2>1. Pair(s \o w, DownMarks, Start, Block(1))
    BY <1>1, <1>4, FreePair
  <2>2. 1 \in 1..N
    OBVIOUS
  <2>3. Blocked(s \o w, r1, g, 1)
    BY <1>2, <2>1 DEF Blocked
  <2> QED  BY <1>1, <1>4, <2>2, <2>3 DEF Flow
<1> QED  BY <1>1, <1>3, <1>4

\* The files that are opened for connection a.
OpensFor(s, a) == {t \in ToSet(s) : t.kind = "native" /\ t.agent \in Disk /\ t.agent = a}

\* The native updates that start with their file are those of that connection.
LEMMA OpensAre ==
    ASSUME NEW s \in Seq(GoodTasks), NEW a
    PROVE  /\ Starts(s, a) = {} \/ a \notin Disk => OpensFor(s, a) = {}
           /\ Alone(Starts(s, a)) /\ a \in Disk => Alone(OpensFor(s, a))
<1>1. ToSet(s) = {s[i] : i \in 1..Len(s)}
  BY DEF ToSet
<1>2. Starts(s, a) = {} \/ a \notin Disk => OpensFor(s, a) = {}
  BY <1>1 DEF OpensFor, Starts
<1>3. ASSUME Alone(Starts(s, a)), a \in Disk  PROVE Alone(OpensFor(s, a))
  <2>1. PICK i \in Starts(s, a) : Starts(s, a) = {i}
    BY <1>3 DEF Alone
  <2>2. OpensFor(s, a) = {s[i]}
    BY <1>1, <1>3, <2>1 DEF OpensFor, Starts
  <2> QED  BY <2>2 DEF Alone
<1> QED  BY <1>2, <1>3

\* A connection that is ready goes on, whatever starts.
LEMMA FlowGoesOn ==
    ASSUME IInv, NEW b \in Agents, Ready(obj, b), NEW l, NEW o, Sane(l, o, 2), Gives(l, o, b),
           Ready(o, b), NEW w0 \in Seq(Msgs), Free(w0, DownMarks),
           NEW r1, Passed(toServer[b], r1)
    PROVE  Flow(Blocks[b], Begun(obj, l.started)[b].agentUpdate, HeldAt(l.pending, b),
                OpenOf(opening, b) \cup OpensFor(l.started, b), b \in reading,
                (toAgent[b] \o w0) \o Words(l.started, b), r1, dev[b].got)
<1> DEFINE N == Blocks[b]
           u == obj[b].agentUpdate
           u1 == Begun(obj, l.started)[b].agentUpdate
           H == HeldAt(pending, b)
           H1 == HeldAt(l.pending, b)
           O == OpenOf(opening, b)
           O1 == OpensFor(l.started, b)
           R == b \in reading
           s == toAgent[b]
           r == toServer[b]
           g == dev[b].got
           w == Words(l.started, b)
           st == Starts(l.started, b)
<1>1. /\ Flow(N, u, H, O, R, s, r, g) /\ N \in Nat \ {0} /\ s \in Seq(Msgs) /\ r \in Seq(Msgs)
  BY Constants1 DEF IInv, TInv, Conn, FlowOf, Ready
<1>2. l.started \in Seq(GoodTasks) /\ Len(l.started) <= 2
  BY DEF Sane, Limiters
<1>3. /\ w \in Seq(Msgs)
      /\ st = {} \/ b \in Disk => Free(w, DownMarks)
      /\ Alone(st) /\ b \notin Disk => Pair(w, DownMarks, Start, Block(1))
  BY <1>2, WordsAre
<1>4. obj \in [Agents -> Objs]
  BY DEF IInv, TInv
<1>5. /\ st = {} \/ b \in Disk => u1 = u
      /\ st # {} /\ b \notin Disk => u1 \in Updates /\ u1.ptr = 1
  BY <1>2, <1>4, BegunIs
<1>6. /\ st = {} \/ b \notin Disk => O1 = {}
      /\ Alone(st) /\ b \in Disk => Alone(O1)
  BY <1>2, OpensAre
<1>7. H = {} \/ Alone(H)
  BY <1>1 DEF Flow
<1>8. \/ st = {} /\ (H = {} => H1 = {}) /\ (Alone(H) => Alone(H1))
      \/ Alone(H) /\ H1 = {} /\ Alone(st)
  <2>1. /\ H = {} => H1 = {} /\ st = {}
        /\ Alone(H) => (Alone(H1) /\ st = {}) \/ (H1 = {} /\ Alone(st))
    BY DEF Gives
  <2> HIDE DEF H, H1, st
  <2> QED  BY <1>7, <2>1, NotAlone
<1> HIDE DEF N, u, u1, H, H1, O, O1, R, s, r, g, w, st
<1>9. CASE st = {} /\ (H = {} => H1 = {}) /\ (Alone(H) => Alone(H1))
  <2>1. (s \o w0) \o w = s \o (w0 \o w) /\ w0 \o w \in Seq(Msgs)
    BY <1>1, <1>3
  <2>2. Free(w0 \o w, DownMarks)
    BY <1>3, <1>9, FreeFree
  <2>3. Passed(r, r1)
    BY DEF r
  <2>4. Flow(N, u, H1, O, R, s \o (w0 \o w), r1, g)
    BY <1>1, <1>9, <2>1, <2>2, <2>3, FlowStays
  <2>5. u1 = u /\ O \cup O1 = O
    BY <1>5, <1>6, <1>9
  <2>6. Flow(N, u1, H1, O \cup O1, R, (s \o w0) \o w, r1, g)
    BY <2>1, <2>4, <2>5
  <2> QED  BY <2>6 DEF N, u1, H1, O, O1, R, s, g, w
<1>10. CASE Alone(H) /\ H1 = {} /\ Alone(st)
  <2>1. (s \o w0) \o w = s \o (w0 \o w) /\ w0 \o w \in Seq(Msgs)
    BY <1>1, <1>3
  <2>2. Passed(r, r1)
    BY DEF r
  <2>3. O = {}
    BY <1>1, <1>10, <2>1, <2>2, FlowStarts
  <2>4. CASE b \in Disk
    <3>1. Free(w0 \o w, DownMarks) /\ Alone(O1) /\ u1 = u
      BY <1>3, <1>5, <1>6, <1>10, <2>4, FreeFree
    <3>2. Flow(N, u, {}, O1, R, s \o (w0 \o w), r1, g)
      BY <1>1, <1>10, <2>1, <2>2, <3>1, FlowStarts
    <3>3. O \cup O1 = O1
      BY <2>3
    <3>4. Flow(N, u1, H1, O \cup O1, R, (s \o w0) \o w, r1, g)
      BY <1>10, <2>1, <3>1, <3>2, <3>3
    <3> QED  BY <3>4 DEF N, u1, H1, O, O1, R, s, g, w
  <2>5. CASE b \notin Disk
    <3>1. st # {}
      BY <1>10, NotAlone
    <3>2. Pair(w0 \o w, DownMarks, Start, Block(1)) /\ u1 \in Updates /\ u1.ptr = 1 /\ O1 = {}
      BY <1>3, <1>5, <1>6, <1>10, <2>5, <3>1, FreePair
    <3>3. u1 # None
      BY <3>2, Constants1
    <3>4. Flow(N, u1, {}, O, R, s \o (w0 \o w), r1, g)
      BY <1>1, <1>10, <2>1, <2>2, <3>2, <3>3, FlowStarts
    <3>5. O \cup O1 = O
      BY <3>2
    <3>6. Flow(N, u1, H1, O \cup O1, R, (s \o w0) \o w, r1, g)
      BY <1>10, <2>1, <3>4, <3>5
    <3> QED  BY <3>6 DEF N, u1, H1, O, O1, R, s, g, w
  <2> QED  BY <2>4, <2>5
<1> QED  BY <1>8, <1>9, <1>10

-----------------------------------------------------------------------------
\* A step keeps the types of what it leaves.
LEMMA StepTypes ==
    ASSUME TInv, NEW l, NEW ready, Sane(l, ready, 2), NEW o \in [Agents -> Objs],
           NEW say \in [Agents -> Seq(Msgs)], NEW sent, Step(l, o, say, sent)
    PROVE  /\ obj' \in [Agents -> Objs] /\ PendingIs(pending')
           /\ current' \subseteq AllTasks /\ opening' \subseteq AllTasks
           /\ sending' \subseteq AllTasks
           /\ IsFiniteSet(current') /\ IsFiniteSet(opening') /\ IsFiniteSet(sending')
           /\ \A t \in opening' : t.kind = "native"
           /\ toAgent' \in [Agents -> Seq(Msgs)]
<1> DEFINE begun == ToSet(l.started)
           cores == {t \in begun : t.kind = "core"}
           opened == {t \in begun : t.kind = "native" /\ t.agent \in Disk}
<1>1. /\ current' = l.current /\ pending' = l.pending /\ obj' = o
      /\ toAgent' = [a \in Agents |-> say[a] \o Words(l.started, a)]
      /\ sending' = (sending \ sent) \cup cores /\ opening' = opening \cup opened
  <2>1. /\ Leaves(l, o, say)
        /\ sending' = (sending \ sent) \cup {t \in ToSet(l.started) : t.kind = "core"}
    BY StepIs
  <2> QED  BY <2>1 DEF Leaves
<1>2. /\ l \in Limiters /\ IsFiniteSet(l.current) /\ PendingIs(l.pending)
      /\ l.started \in Seq(GoodTasks) /\ Len(l.started) <= 2 /\ l.current \subseteq AllTasks
  BY DEF Sane, Limiters
<1>3. begun \subseteq AllTasks /\ IsFiniteSet(begun)
  BY <1>2, StartedAre
<1>4. /\ cores \subseteq AllTasks /\ IsFiniteSet(cores)
      /\ opened \subseteq AllTasks /\ IsFiniteSet(opened) /\ \A t \in opened : t.kind = "native"
  <2>1. cores \subseteq begun /\ opened \subseteq begun
    OBVIOUS
  <2>2. \A t \in opened : t.kind = "native"
    OBVIOUS
  <2> HIDE DEF cores, opened
  <2> QED  BY <1>3, <2>1, <2>2, FS_Subset
<1> HIDE DEF begun, cores, opened
<1>5. /\ opening \subseteq AllTasks /\ sending \subseteq AllTasks
      /\ IsFiniteSet(opening) /\ IsFiniteSet(sending)
      /\ \A t \in opening : t.kind = "native"
  BY DEF TInv, TasksAre
<1>6. opening' \subseteq AllTasks /\ IsFiniteSet(opening') /\ \A t \in opening' : t.kind = "native"
  <2>1. IsFiniteSet(opening \cup opened)
    BY <1>4, <1>5, FS_Union
  <2> QED  BY <1>1, <1>4, <1>5, <2>1
<1>7. sending' \subseteq AllTasks /\ IsFiniteSet(sending')
  <2>1. IsFiniteSet(sending \ sent)
    BY <1>5, FS_Subset
  <2>2. IsFiniteSet((sending \ sent) \cup cores)
    BY <1>4, <2>1, FS_Union
  <2> QED  BY <1>1, <1>4, <1>5, <2>2
<1>8. toAgent' \in [Agents -> Seq(Msgs)]
  <2>1. ASSUME NEW a \in Agents  PROVE say[a] \o Words(l.started, a) \in Seq(Msgs)
    <3>1. Words(l.started, a) \in Seq(Msgs) /\ say[a] \in Seq(Msgs)
      BY <1>2, WordsAre
    <3> QED  BY <3>1
  <2> QED  BY <1>1, <2>1
<1> QED  BY <1>1, <1>2, <1>6, <1>7, <1>8

\* A connection, when a step of this or another one starts tasks.
LEMMA ConnGoesOn ==
    ASSUME IInv, NEW b \in Agents, NEW l, NEW o, Sane(l, o, 2), Gives(l, o, b),
           Ready(o, b) <=> Ready(obj, b),
           pending' = l.pending,
           opening' = opening \cup {t \in ToSet(l.started) :
                                      t.kind = "native" /\ t.agent \in Disk},
           NEW w0 \in Seq(Msgs), Free(w0, DownMarks),
           toAgent'[b] = (toAgent[b] \o w0) \o Words(l.started, b),
           Passed(toServer[b], toServer'[b]),
           obj'[b].authenticated = obj[b].authenticated,
           obj'[b].agentUpdate = Begun(obj, l.started)[b].agentUpdate,
           b \in reading' <=> b \in reading, dev'[b].got = dev[b].got,
           Ready(obj, b) \/ (w0 = <<>> /\ toServer'[b] = toServer[b] /\ obj'[b] = obj[b])
    PROVE  Conn(b)'
<1>1. OpenOf(opening, b)' = OpenOf(opening, b) \cup OpensFor(l.started, b)
  BY DEF OpenOf, OpensFor
<1>2. HeldAt(pending, b)' = HeldAt(l.pending, b)
  BY DEF HeldAt
<1>3. CASE Ready(obj, b)
  <2>1. Flow(Blocks[b], Begun(obj, l.started)[b].agentUpdate, HeldAt(l.pending, b),
             OpenOf(opening, b) \cup OpensFor(l.started, b), b \in reading,
             (toAgent[b] \o w0) \o Words(l.started, b), toServer'[b], dev[b].got)
    BY <1>3, FlowGoesOn
  <2>2. Flow(Blocks[b], obj'[b].agentUpdate, HeldAt(pending, b)', OpenOf(opening, b)',
             b \in reading', toAgent'[b], toServer'[b], dev'[b].got)
    <3>1. Flow(Blocks[b], obj'[b].agentUpdate, HeldAt(pending, b)', OpenOf(opening, b)',
               b \in reading, toAgent'[b], toServer'[b], dev'[b].got)
      BY <1>1, <1>2, <2>1
    <3> QED  BY <3>1 DEF Flow
  <2>3. FlowOf(b)'
    BY <2>2 DEF FlowOf
  <2> QED  BY <1>3, <2>3 DEF Conn, Ready
<1>4. CASE ~Ready(obj, b)
  <2>1. /\ l.started \in Seq(GoodTasks) /\ Len(l.started) <= 2
        /\ \A i \in 1..Len(l.started) : l.started[i].agent # b
    BY <1>4 DEF Sane, Limiters
  <2>2. Words(l.started, b) = <<>>
    BY <2>1, WordsAre
  <2>3. Starts(l.started, b) = {}
    BY <2>1 DEF Starts
  <2>4. OpensFor(l.started, b) = {}
    BY <2>1, <2>3, OpensAre
  <2>5. /\ obj'[b] = obj[b] /\ toServer'[b] = toServer[b] /\ toAgent[b] \in Seq(Msgs)
        /\ toAgent'[b] = toAgent[b]
    BY <1>4, <2>2 DEF IInv, TInv
  <2>6. obj[b].authenticated = 1 => Before(b)'
    <3>1. obj[b].authenticated = 1 => Before(b)
      BY DEF IInv, Conn
    <3>2. Before(b) => HeldAt(pending, b)' = {} /\ OpenOf(opening, b)' = {}
      BY <1>1, <1>2, <2>4 DEF Before, Gives
    <3> QED  BY <2>5, <3>1, <3>2 DEF Before
  <2>7. obj[b].authenticated = -1 => After(b)'
    BY <2>5 DEF IInv, Conn, After
  <2> QED  BY <1>4, <2>6, <2>7 DEF Conn, Ready
<1> QED  BY <1>3, <1>4

-----------------------------------------------------------------------------
\* Connection b goes on, while limiter l, objects o and commands say are left, of which
\* w are new.
Unmoved(b, l, r, o, say, w) ==
    /\ Gives(l, r, b) /\ (Ready(r, b) <=> Ready(obj, b))
    /\ w[b] \in Seq(Msgs) /\ Free(w[b], DownMarks) /\ say[b] = toAgent[b] \o w[b]
    /\ Passed(toServer[b], toServer'[b])
    /\ o[b].authenticated = obj[b].authenticated
    /\ o[b].agentUpdate = Begun(obj, l.started)[b].agentUpdate
    /\ b \in reading' <=> b \in reading
    /\ dev'[b].got = dev[b].got
    /\ Ready(obj, b) \/ (w[b] = <<>> /\ toServer'[b] = toServer[b] /\ o[b] = obj[b])

\* A step of the connections A keeps the invariant of all others, and the types.
\* What it keeps of A is shown of each step.
LEMMA StepKeeps ==
    ASSUME IInv, NEW A, NEW l, NEW r, Sane(l, r, 2), NEW o \in [Agents -> Objs],
           NEW say \in [Agents -> Seq(Msgs)], NEW w, NEW sent, Step(l, o, say, sent),
           reading' \subseteq Agents, files' \subseteq AllTasks, IsFiniteSet(files'),
           toServer' \in [Agents -> Seq(Msgs)], dev' \in [Agents -> Devs],
           \A b \in Agents \ A : Unmoved(b, l, r, o, say, w)
    PROVE  /\ TInv'
           /\ \A b \in Agents \ A : Conn(b)'
<1>0. Leaves(l, o, say)
  BY StepIs
<1>1. TInv'
  <2>1. TInv
    BY DEF IInv
  <2> QED  BY <2>1, StepTypes DEF TInv, TasksAre
<1>2. ASSUME NEW b \in Agents \ A  PROVE Conn(b)'
  <2>1. Unmoved(b, l, r, o, say, w)
    OBVIOUS
  <2>3. toAgent'[b] = (toAgent[b] \o w[b]) \o Words(l.started, b)
    BY <1>0, <2>1 DEF Unmoved, Leaves
  <2> QED  BY <1>0, <2>1, <2>3, ConnGoesOn DEF Unmoved, Leaves
<1> QED  BY <1>1, <1>2

\* A connection that a step of another one leaves alone but for what starts on it.
Beside(b, l, r, o, say, w) ==
    /\ Gives(l, r, b) /\ (Ready(r, b) <=> Ready(obj, b))
    /\ w[b] = <<>> /\ say[b] = toAgent[b] /\ o[b] = Begun(obj, l.started)[b]
    /\ toServer'[b] = toServer[b] /\ (b \in reading' <=> b \in reading)
    /\ dev'[b].got = dev[b].got

\* Such a connection goes on.
LEMMA UnmovedBeside ==
    ASSUME IInv, NEW b \in Agents, NEW l, NEW r, Sane(l, r, 2),
           NEW o, NEW say, NEW w, Beside(b, l, r, o, say, w)
    PROVE  Unmoved(b, l, r, o, say, w)
<1> USE DEF Beside
<1>1. /\ l.started \in Seq(GoodTasks) /\ obj \in [Agents -> Objs]
      /\ toAgent[b] \in Seq(Msgs) /\ toServer[b] \in Seq(Msgs)
  BY DEF Sane, Limiters, IInv, TInv
<1>2. o[b].authenticated = obj[b].authenticated
  BY <1>1, BegunIs
<1>3. ~Ready(obj, b) => o[b] = obj[b]
  <2>1. ~Ready(obj, b) => \A i \in 1..Len(l.started) : l.started[i].agent # b
    BY DEF Sane
  <2> QED  BY <1>1, <2>1, BegunIs
<1>4. w[b] \in Seq(Msgs) /\ Free(w[b], DownMarks) /\ say[b] = toAgent[b] \o w[b]
  BY <1>1 DEF Free
<1>5. Passed(toServer[b], toServer'[b])
  BY <1>1, PassedSame
<1> QED  BY <1>2, <1>3, <1>4, <1>5 DEF Unmoved

\* Nothing starts on a connection of which no task starts.
LEMMA BegunNone ==
    ASSUME NEW o \in [Agents -> Objs]
    PROVE  \A b \in Agents : Begun(o, <<>>)[b] = o[b]
<1>1. <<>> \in Seq(GoodTasks) /\ Len(<<>>) = 0
  OBVIOUS
<1> SUFFICES ASSUME NEW b \in Agents  PROVE Begun(o, <<>>)[b] = o[b]
  OBVIOUS
<1> DEFINE s == <<>>
<1>2. s \in Seq(GoodTasks) /\ \A i \in 1..Len(s) : s[i].agent # b
  BY <1>1
<1>3. Begun(o, s)[b] = o[b]
  <2> HIDE DEF s
  <2> QED  BY <1>2, BegunIs
<1> QED  BY <1>3

\* Objects stay objects when tasks start.
LEMMA BegunType ==
    ASSUME NEW o \in [Agents -> Objs], NEW s \in Seq(GoodTasks)
    PROVE  Begun(o, s) \in [Agents -> Objs]
<1>1. Begun(o, s) = [a \in Agents |-> Begun(o, s)[a]]
  BY Zenon DEF Begun
<1>2. \A a \in Agents : Begun(o, s)[a] \in Objs
  BY BegunIs
<1> QED  BY <1>1, <1>2

\* The server takes an answer of no account, says x and lets tasks start.
LEMMA AnswerKeeps ==
    ASSUME IInv, NEW a \in Agents, NEW type, Answer(a, type), type \notin UpMarks,
           UNCHANGED IO, NEW l, Sane(l, obj, 2), \A b \in Agents : Gives(l, obj, b),
           NEW o \in [Agents -> Objs],
           \A b \in Agents \ {a} : o[b] = Begun(obj, l.started)[b],
           o[a].authenticated = obj[a].authenticated,
           o[a].agentUpdate = Begun(obj, l.started)[a].agentUpdate,
           NEW x \in Seq(Msgs), Free(x, DownMarks), Done(a, l, o, toAgent[a] \o x)
    PROVE  IInv'
<1> DEFINE w == [b \in Agents |-> IF b = a THEN x ELSE <<>>]
           say == [toAgent EXCEPT ![a] = toAgent[a] \o x]
<1>1. /\ TInv /\ toAgent \in [Agents -> Seq(Msgs)] /\ toServer \in [Agents -> Seq(Msgs)]
      /\ dev \in [Agents -> Devs] /\ reading \subseteq Agents /\ files \subseteq AllTasks
      /\ IsFiniteSet(files)
  BY DEF IInv, TInv, TasksAre
<1>2. /\ Ready(obj, a) /\ toServer[a] # <<>> /\ Head(toServer[a]).type = type
      /\ toServer' = [toServer EXCEPT ![a] = Tail(@)] /\ dev' = dev
      /\ reading' = reading /\ files' = files
  BY DEF Answer, IO
<1>3. Tail(toServer[a]) \in Seq(Msgs) /\ Passed(toServer[a], Tail(toServer[a]))
  BY <1>1, <1>2, PassedTail, TailAt
<1>4. toServer' \in [Agents -> Seq(Msgs)] /\ say \in [Agents -> Seq(Msgs)]
  BY <1>1, <1>2, <1>3
<1>5. Step(l, o, say, {})
  BY DEF Done
<1>6. ASSUME NEW b \in Agents, b # a  PROVE Unmoved(b, l, obj, o, say, w)
  <2>1. Beside(b, l, obj, o, say, w)
    BY <1>1, <1>2, <1>6 DEF Beside
  <2> HIDE DEF w, say
  <2> QED  BY <2>1, UnmovedBeside, Zenon
<1>7. Unmoved(a, l, obj, o, say, w)
  <2>1. w[a] = x /\ say[a] = toAgent[a] \o x /\ toServer'[a] = Tail(toServer[a])
    BY <1>1, <1>2
  <2> HIDE DEF w, say
  <2> QED  BY <1>2, <1>3, <2>1 DEF Unmoved
<1> HIDE DEF w, say
<1>8. \A b \in Agents \ {} : Unmoved(b, l, obj, o, say, w)
  BY <1>6, <1>7
<1>9. TInv' /\ \A b \in Agents \ {} : Conn(b)'
  BY <1>1, <1>2, <1>4, <1>5, <1>8, StepKeeps
<1> QED  BY <1>9 DEF IInv

-----------------------------------------------------------------------------
\* The image of a finite set.
LEMMA ImageFinite ==
    ASSUME NEW S, IsFiniteSet(S), NEW f, f = [x \in S |-> f[x]]
    PROVE  IsFiniteSet({f[x] : x \in S})
<1>1. f \in Surjection(S, {f[x] : x \in S})
  BY DEF Surjection
<1> QED  BY <1>1, FS_Surjection

\* The tasks that something refers to are finitely many.
LEMMA ReferredFinite ==
    ASSUME TInv
    PROVE  IsFiniteSet(Referred) /\ Referred \subseteq AllTasks
<1> DEFINE f == [a \in Agents |-> obj[a].agentCoreUpdateTaskId]
           upd == {b \in Agents : obj[b].agentUpdate # None}
           g == [a \in upd |-> obj[a].agentUpdate.task]
           ids == {f[a] : a \in Agents}
           ups == {g[a] : a \in upd}
           p0 == ToSet(pending[0])
           p1 == ToSet(pending[1])
<1>1. /\ current \subseteq AllTasks /\ opening \subseteq AllTasks
      /\ sending \subseteq AllTasks /\ files \subseteq AllTasks
      /\ IsFiniteSet(current) /\ IsFiniteSet(opening)
      /\ IsFiniteSet(sending) /\ IsFiniteSet(files)
      /\ pending[0] \in Seq(GoodTasks) /\ pending[1] \in Seq(GoodTasks)
      /\ obj \in [Agents -> Objs] /\ IsFiniteSet(Agents)
  BY Constants1 DEF TInv, TasksAre, PendingIs
<1>2. IsFiniteSet(p0) /\ IsFiniteSet(p1) /\ p0 \subseteq AllTasks /\ p1 \subseteq AllTasks
  BY <1>1, StartedAre
<1>3. IsFiniteSet(ids \ {None}) /\ ids \ {None} \subseteq AllTasks
  <2>1. IsFiniteSet(ids)
    <3>1. f = [a \in Agents |-> f[a]]
      OBVIOUS
    <3> HIDE DEF f
    <3> QED  BY <1>1, <3>1, ImageFinite
  <2>2. ids \ {None} \subseteq AllTasks
    BY <1>1 DEF Objs
  <2> HIDE DEF ids
  <2> QED  BY <2>1, <2>2, FS_Subset
<1>4. IsFiniteSet(ups) /\ ups \subseteq AllTasks
  <2>1. IsFiniteSet(upd)
    BY <1>1, FS_Subset
  <2>2. ups \subseteq AllTasks
    BY <1>1 DEF Objs, Updates
  <2>3. IsFiniteSet(ups)
    <3>1. g = [a \in upd |-> g[a]]
      OBVIOUS
    <3> HIDE DEF g, upd
    <3> QED  BY <2>1, <3>1, ImageFinite
  <2> QED  BY <2>2, <2>3
<1>5. Referred = UNION {current, opening, sending, files, p0, p1, ids \ {None}, ups}
  <2>1. ids = {obj[a].agentCoreUpdateTaskId : a \in Agents}
    OBVIOUS
  <2>2. ups = {obj[a].agentUpdate.task : a \in upd}
    OBVIOUS
  <2> HIDE DEF ids, ups
  <2> QED  BY <2>1, <2>2, Zenon DEF Referred
<1> HIDE DEF ids, ups, p0, p1
<1>6. UNION {current, opening, sending, files, p0, p1, ids \ {None}, ups}
        = ((((((current \cup opening) \cup sending) \cup files) \cup p0) \cup p1)
             \cup (ids \ {None})) \cup ups
  OBVIOUS
<1>7. IsFiniteSet(((current \cup opening) \cup sending) \cup files)
  BY <1>1, FS_Union
<1>8. IsFiniteSet((((current \cup opening) \cup sending) \cup files) \cup p0)
  BY <1>2, <1>7, FS_Union
<1>9. IsFiniteSet(((((current \cup opening) \cup sending) \cup files) \cup p0) \cup p1)
  BY <1>2, <1>8, FS_Union
<1>10. IsFiniteSet((((((current \cup opening) \cup sending) \cup files) \cup p0) \cup p1)
                   \cup (ids \ {None}))
  BY <1>3, <1>9, FS_Union
<1>11. IsFiniteSet(UNION {current, opening, sending, files, p0, p1, ids \ {None}, ups})
  <2>1. IsFiniteSet(((((((current \cup opening) \cup sending) \cup files) \cup p0) \cup p1)
                      \cup (ids \ {None})) \cup ups)
    BY <1>4, <1>10, FS_Union
  <2> QED  BY <1>6, <2>1, Zenon
<1>12. UNION {current, opening, sending, files, p0, p1, ids \ {None}, ups} \subseteq AllTasks
  BY <1>1, <1>2, <1>3, <1>4
<1> QED  BY <1>5, <1>11, <1>12, Zenon

\* There is a number for a new task.
LEMMA FreshNumber ==
    ASSUME NEW used \in SUBSET Nat, IsFiniteSet(used)
    PROVE  \E n \in 0..Cardinality(used) : n \notin used /\ \A m \in 0..(n - 1) : m \in used
<1> DEFINE c == Cardinality(used)
           T == {n \in 0..c : n \notin used}
<1>1. c \in Nat
  BY FS_CardinalityType
<1>2. T # {}
  <2> SUFFICES ASSUME T = {}  PROVE FALSE
    OBVIOUS
  <2>1. 0..c \in SUBSET used
    OBVIOUS
  <2>2. Cardinality(0..c) <= c
    BY <2>1, FS_Subset
  <2>3. Cardinality(0..c) = c + 1
    BY <1>1, FS_Interval
  <2> HIDE DEF c
  <2> QED  BY <1>1, <2>2, <2>3
<1>3. T \in SUBSET Nat
  OBVIOUS
<1>4. PICK n \in T : \A y \in T : n <= y
  <2> HIDE DEF T
  <2> QED  BY <1>2, <1>3, LeastOfNat
<1> HIDE DEF c
<1>5. n \in 0..c /\ n \notin used /\ \A m \in 0..(n - 1) : m \in used
  BY <1>1, <1>4
<1> QED  BY <1>5 DEF c

\* There is a task like no other.
LEMMA NewTaskIs ==
    ASSUME TInv, NEW a \in Agents, NEW kind \in Kinds, NEW core \in Cores \cup {None},
           kind = "core" => core \in Cores
    PROVE  /\ NewTask(a, kind, core) \in GoodTasks
           /\ NewTask(a, kind, core).agent = a /\ NewTask(a, kind, core).kind = kind
<1> DEFINE alike == {t \in Referred : t.agent = a /\ t.kind = kind /\ t.core = core}
           h == [t \in alike |-> t.nr]
           used == {h[t] : t \in alike}
           Fits(n) == n \in 0..Cardinality(used)
                      /\ n \notin used /\ \A m \in 0..(n - 1) : m \in used
           nr == CHOOSE n \in 0..Cardinality(used) :
                      n \notin used /\ \A m \in 0..(n - 1) : m \in used
<1>1. Referred \subseteq AllTasks /\ IsFiniteSet(Referred)
  BY ReferredFinite
<1>2. IsFiniteSet(alike)
  <2>1. alike \subseteq Referred
    OBVIOUS
  <2> HIDE DEF alike
  <2> QED  BY <1>1, <2>1, FS_Subset
<1>3. used \in SUBSET Nat
  BY <1>1 DEF AllTasks
<1>4. IsFiniteSet(used)
  <2>1. h = [t \in alike |-> h[t]]
    OBVIOUS
  <2> HIDE DEF h, alike
  <2> QED  BY <1>2, <2>1, ImageFinite
<1>5. NewTask(a, kind, core) = [agent |-> a, kind |-> kind, core |-> core, nr |-> nr]
  <2>1. used = {t.nr : t \in alike}
    OBVIOUS
  <2> HIDE DEF used
  <2> QED  BY <2>1, Zenon DEF NewTask
<1> HIDE DEF used
<1>6. nr \in 0..Cardinality(used)
  <2>1. \E n \in 0..Cardinality(used) : n \notin used /\ \A m \in 0..(n - 1) : m \in used
    BY <1>3, <1>4, FreshNumber
  <2> QED  BY <2>1, Zenon
<1> HIDE DEF nr
<1>7. nr \in Nat
  BY <1>4, <1>6, FS_CardinalityType
<1> QED  BY <1>5, <1>7 DEF GoodTasks, AllTasks

-----------------------------------------------------------------------------
\* A task that is launched is the only one that starts.
LEMMA LaunchedStarts ==
    ASSUME NEW t
    PROVE  \A i \in 1..Len(Launched(t).started) : Launched(t).started[i] = t
<1>1. CASE Cardinality(current) < MaxTasks
  <2>1. Launched(t).started = <<t>>
    BY <1>1 DEF Launched, Limiter
  <2> QED  BY <2>1
<1>2. CASE ~(Cardinality(current) < MaxTasks)
  <2>1. Launched(t).started = <<>>
    BY <1>2 DEF Launched, Limiter
  <2> QED  BY <2>1
<1> QED  BY <1>1, <1>2

\* The server takes an answer and starts nothing.
LEMMA AnswerPlain ==
    ASSUME IInv, NEW a \in Agents, NEW type, Answer(a, type), type \notin UpMarks,
           UNCHANGED IO, NEW o \in [Agents -> Objs],
           \A b \in Agents \ {a} : o[b] = obj[b],
           o[a].authenticated = obj[a].authenticated,
           o[a].agentUpdate = obj[a].agentUpdate,
           NEW x \in Seq(Msgs), Free(x, DownMarks), Plain(a, o, x)
    PROVE  IInv'
<1>1. TInv /\ obj \in [Agents -> Objs]
  BY DEF IInv, TInv
<1>2. Sane(Limiter, obj, 2) /\ \A b \in Agents : Gives(Limiter, obj, b)
  <2>1. Sane(Limiter, obj, 0) /\ \A b \in Agents : Gives(Limiter, obj, b)
    BY <1>1, LimiterSane
  <2> QED  BY <2>1 DEF Sane, Limiter
<1>3. \A b \in Agents : Begun(obj, Limiter.started)[b] = obj[b]
  <2>1. Limiter.started = <<>>
    BY DEF Limiter
  <2> QED  BY <1>1, <2>1, BegunNone
<1>4. Done(a, Limiter, o, toAgent[a] \o x)
  BY DEF Plain, Sends
<1> QED  BY <1>2, <1>3, <1>4, AnswerKeeps

\* The server takes an answer and launches a task that is no native update.
LEMMA AnswerLaunches ==
    ASSUME IInv, NEW a \in Agents, NEW type, Answer(a, type), type \notin UpMarks,
           UNCHANGED IO, NEW t \in GoodTasks, t.agent = a, t.kind # "native",
           NEW o \in [Agents -> Objs],
           \A b \in Agents \ {a} : o[b] = Begun(obj, Launched(t).started)[b],
           o[a].authenticated = obj[a].authenticated,
           o[a].agentUpdate = obj[a].agentUpdate,
           Done(a, Launched(t), o, toAgent[a])
    PROVE  IInv'
<1> DEFINE l == Launched(t)
<1>1. TInv /\ obj \in [Agents -> Objs] /\ toAgent[a] \in Seq(Msgs) /\ Ready(obj, a)
  BY DEF IInv, TInv, Answer
<1>2. Sane(l, obj, 2) /\ \A b \in Agents : Gives(l, obj, b)
  <2>1. Sane(l, obj, 1) /\ \A b \in Agents : Gives(l, obj, b)
    BY <1>1, LaunchedIs
  <2> HIDE DEF l
  <2> QED  BY <2>1 DEF Sane, Limiters
<1>3. l.started \in Seq(GoodTasks) /\ Starts(l.started, a) = {}
  <2>1. l.started \in Seq(GoodTasks)
    BY <1>2 DEF Sane, Limiters
  <2>2. \A i \in 1..Len(l.started) : l.started[i] = t
    BY LaunchedStarts
  <2> HIDE DEF l
  <2> QED  BY <2>1, <2>2 DEF Starts
<1>4. o[a].agentUpdate = Begun(obj, l.started)[a].agentUpdate
  <2> HIDE DEF l
  <2> QED  BY <1>1, <1>3, BegunIs
<1>5. toAgent[a] \o <<>> = toAgent[a] /\ <<>> \in Seq(Msgs) /\ Free(<<>>, DownMarks)
  BY <1>1 DEF Free
<1>6. Done(a, l, o, toAgent[a] \o <<>>)
  BY <1>5
<1> HIDE DEF l
<1> DEFINE x == <<>>
<1>7. x \in Seq(Msgs) /\ Free(x, DownMarks) /\ Done(a, l, o, toAgent[a] \o x)
  BY <1>5, <1>6
<1>8. \A b \in Agents \ {a} : o[b] = Begun(obj, l.started)[b]
  BY DEF l
<1> HIDE DEF x
<1> QED  BY <1>2, <1>4, <1>7, <1>8, AnswerKeeps

\* A queue with no messages.
LEMMA Empty ==
    <<>> \in Seq(Msgs) /\ Free(<<>>, DownMarks)
  BY DEF Free

\* A command that is neither a mark of a native update nor asks for the hash of the
\* binary.
LEMMA OneFree ==
    ASSUME NEW m \in Msgs, m.type \notin DownMarks
    PROVE  <<m>> \in Seq(Msgs) /\ Free(<<m>>, DownMarks)
  BY DEF Free

\* A core that is sent is no native update.
LEMMA CoreTaskStarts ==
    ASSUME TInv, NEW a \in Agents, NEW t \in GoodTasks, t.agent = a, Ready(obj, a)
    PROVE  /\ Launched(t).started \in Seq(GoodTasks)
           /\ \A b \in Agents \ {a} : Begun(obj, Launched(t).started)[b] = obj[b]
<1>1. obj \in [Agents -> Objs] /\ Sane(Launched(t), obj, 1)
  BY LaunchedIs DEF TInv
<1>2. Launched(t).started \in Seq(GoodTasks)
  BY <1>1 DEF Sane, Limiters
<1>3. ASSUME NEW b \in Agents \ {a}  PROVE Begun(obj, Launched(t).started)[b] = obj[b]
  <2>1. \A i \in 1..Len(Launched(t).started) : Launched(t).started[i].agent # b
    BY LaunchedStarts
  <2> QED  BY <1>1, <1>2, <2>1, BegunIs
<1> QED  BY <1>2, <1>3

-----------------------------------------------------------------------------
\* What an object becomes by a field that is of no account.
LEMMA FieldSet ==
    ASSUME TInv, NEW a \in Agents
    PROVE  /\ obj \in [Agents -> Objs]
           /\ \A v \in Nat : LET o == [obj EXCEPT ![a].agentCoreCheck = v]
                             IN  /\ o \in [Agents -> Objs]
                                 /\ \A b \in Agents \ {a} : o[b] = obj[b]
                                 /\ o[a].authenticated = obj[a].authenticated
                                 /\ o[a].agentUpdate = obj[a].agentUpdate
           /\ LET o == [obj EXCEPT ![a].agentCoreUpdate = TRUE]
              IN  /\ o \in [Agents -> Objs]
                  /\ \A b \in Agents \ {a} : o[b] = obj[b]
                  /\ o[a].authenticated = obj[a].authenticated
                  /\ o[a].agentUpdate = obj[a].agentUpdate
<1>1. obj \in [Agents -> Objs]
  BY DEF TInv
<1> QED  BY <1>1 DEF Objs

\* A core is sent.
LEMMA SendCoreKeeps ==
    ASSUME IInv, NEW a \in Agents, Answer(a, "corehash"), UNCHANGED IO,
           NEW c \in Cores, SendCore(a, c)
    PROVE  IInv'
<1> DEFINE o == [obj EXCEPT ![a].agentCoreCheck = obj[a].agentCoreCheck + 1]
           t == NewTask(a, "core", c)
<1>1. TInv /\ obj \in [Agents -> Objs] /\ Ready(obj, a) /\ "corehash" \notin UpMarks
  BY DEF IInv, TInv, Answer, UpMarks
<1>2. /\ o \in [Agents -> Objs] /\ \A b \in Agents \ {a} : o[b] = obj[b]
      /\ o[a].authenticated = obj[a].authenticated /\ o[a].agentUpdate = obj[a].agentUpdate
  <2>1. obj[a].agentCoreCheck + 1 \in Nat
    BY <1>1 DEF Objs
  <2> QED  BY <1>1, <2>1, FieldSet
<1>3. t \in GoodTasks /\ t.agent = a /\ t.kind = "core"
  BY <1>1, NewTaskIs DEF Kinds
<1>4. IF c = "none" THEN Plain(a, o, <<Core("none")>>)
      ELSE Done(a, Launched(t), o, toAgent[a])
  BY DEF SendCore
<1> HIDE DEF o, t
<1>5. CASE c = "none"
  <2>1. Plain(a, o, <<Core("none")>>)
    BY <1>4, <1>5
  <2>2. Core("none") \in Msgs /\ Core("none").type \notin DownMarks
    BY Messages, Constants1 DEF DownMarks
  <2>3. <<Core("none")>> \in Seq(Msgs) /\ Free(<<Core("none")>>, DownMarks)
    BY <2>2, OneFree
  <2> QED  BY <1>1, <1>2, <2>1, <2>3, AnswerPlain
<1>6. CASE c # "none"
  <2>1. Done(a, Launched(t), o, toAgent[a])
    BY <1>4, <1>6
  <2>2. \A b \in Agents \ {a} : o[b] = Begun(obj, Launched(t).started)[b]
    BY <1>1, <1>2, <1>3, CoreTaskStarts
  <2> QED  BY <1>1, <1>2, <1>3, <2>1, <2>2, AnswerLaunches
<1> QED  BY <1>5, <1>6

\* The agent answers with the hash of its core.
LEMMA HashOfCoreKeeps ==
    ASSUME IInv, NEW a \in Agents, HashOfCore(a)
    PROVE  IInv'
<1>1. /\ TInv /\ Answer(a, "corehash") /\ UNCHANGED IO /\ "corehash" \notin UpMarks
      /\ obj \in [Agents -> Objs]
  BY DEF IInv, TInv, HashOfCore, UpMarks
<1>2. <<CoreOk>> \in Seq(Msgs) /\ Free(<<CoreOk>>, DownMarks)
  BY OneFree, Messages DEF DownMarks
<1>3. \/ Plain(a, obj, <<>>)
      \/ Stable(a)
      \/ StableAgain(a)
      \/ SendCore(a, Has(Needed(a)))
  BY DEF HashOfCore
<1>4. CASE Plain(a, obj, <<>>)
  BY <1>1, <1>4, Empty, AnswerPlain
<1>5. CASE Stable(a)
  <2>1. Plain(a, obj, <<CoreOk>>)
    BY <1>5 DEF Stable
  <2> QED  BY <1>1, <1>2, <2>1, AnswerPlain
<1>6. CASE StableAgain(a)
  <2> DEFINE o == [obj EXCEPT ![a].agentCoreCheck = 0]
  <2>1. Plain(a, o, <<CoreOk>>)
    BY <1>6 DEF StableAgain
  <2>2. /\ o \in [Agents -> Objs] /\ \A b \in Agents \ {a} : o[b] = obj[b]
        /\ o[a].authenticated = obj[a].authenticated /\ o[a].agentUpdate = obj[a].agentUpdate
    BY <1>1, FieldSet
  <2> HIDE DEF o
  <2> QED  BY <1>1, <1>2, <2>1, <2>2, AnswerPlain
<1>7. CASE SendCore(a, Has(Needed(a)))
  <2>1. Has(Needed(a)) \in Cores
    BY DEF Has, Needed, Cores
  <2> QED  BY <1>1, <1>7, <2>1, SendCoreKeeps
<1> QED  BY <1>3, <1>4, <1>5, <1>6, <1>7

\* A download of the new binary by the agent is launched.
LEMMA FetchKeeps ==
    ASSUME IInv, NEW a \in Agents, NEW type, Answer(a, type), type \notin UpMarks,
           UNCHANGED IO, NEW l, l = Launched(NewTask(a, "fetch", None)),
           Done(a, l, Begun(obj, l.started), toAgent[a])
    PROVE  IInv'
<1> DEFINE t == NewTask(a, "fetch", None)
           o == Begun(obj, Launched(t).started)
<1>1. TInv /\ obj \in [Agents -> Objs] /\ Ready(obj, a)
  BY DEF IInv, TInv, Answer
<1>2. t \in GoodTasks /\ t.agent = a /\ t.kind = "fetch"
  BY <1>1, NewTaskIs DEF Kinds
<1>3. Done(a, Launched(t), o, toAgent[a])
  OBVIOUS
<1> HIDE DEF t
<1>4. /\ Launched(t).started \in Seq(GoodTasks)
      /\ Starts(Launched(t).started, a) = {}
  <2>1. Launched(t).started \in Seq(GoodTasks)
    BY <1>1, <1>2, CoreTaskStarts
  <2>2. \A i \in 1..Len(Launched(t).started) : Launched(t).started[i] = t
    BY LaunchedStarts
  <2> QED  BY <1>2, <2>1, <2>2 DEF Starts
<1>5. /\ o \in [Agents -> Objs] /\ o[a].authenticated = obj[a].authenticated
      /\ o[a].agentUpdate = obj[a].agentUpdate
  BY <1>1, <1>4, BegunIs, BegunType
<1>6. \A b \in Agents \ {a} : o[b] = Begun(obj, Launched(t).started)[b]
  OBVIOUS
<1> HIDE DEF o
<1>7. t.kind # "native"
  BY <1>2
<1> QED  BY <1>1, <1>2, <1>3, <1>5, <1>6, <1>7, AnswerLaunches

\* The agent tells of its core.
LEMMA CoreInfoKeeps ==
    ASSUME IInv, NEW a \in Agents, CoreInfo(a)
    PROVE  IInv'
<1> DEFINE l == Launched(NewTask(a, "fetch", None))
<1>1. /\ Answer(a, "coreinfo") /\ UNCHANGED IO /\ "coreinfo" \notin UpMarks
      /\ obj \in [Agents -> Objs]
      /\ Done(a, l, Begun(obj, l.started), toAgent[a]) \/ Plain(a, obj, <<>>)
  BY DEF IInv, TInv, CoreInfo, UpMarks
<1>2. CASE Done(a, l, Begun(obj, l.started), toAgent[a])
  BY <1>1, <1>2, FetchKeeps
<1>3. CASE Plain(a, obj, <<>>)
  BY <1>1, <1>3, Empty, AnswerPlain
<1> QED  BY <1>1, <1>2, <1>3

\* The agent asks for an update.
LEMMA WantsUpdateKeeps ==
    ASSUME IInv, NEW a \in Agents, WantsUpdate(a)
    PROVE  IInv'
<1> DEFINE l == Launched(NewTask(a, "fetch", None))
<1>1. /\ Answer(a, "wantsupdate") /\ UNCHANGED IO /\ "wantsupdate" \notin UpMarks
      /\ obj \in [Agents -> Objs]
      /\ Done(a, l, Begun(obj, l.started), toAgent[a]) \/ Plain(a, obj, <<>>)
  BY DEF IInv, TInv, WantsUpdate, UpMarks
<1>2. CASE Done(a, l, Begun(obj, l.started), toAgent[a])
  BY <1>1, <1>2, FetchKeeps
<1>3. CASE Plain(a, obj, <<>>)
  BY <1>1, <1>3, Empty, AnswerPlain
<1> QED  BY <1>1, <1>2, <1>3

\* The agent has downloaded its new binary.
LEMMA DownloadedKeeps ==
    ASSUME IInv, NEW a \in Agents, Downloaded(a)
    PROVE  IInv'
<1> DEFINE id == obj[a].agentCoreUpdateTaskId
           l == Completed(Limiter, id, obj)
           o == [Begun(obj, l.started) EXCEPT ![a].agentCoreUpdateTaskId = None]
           x == <<>>
<1>1. /\ TInv /\ Answer(a, "downloaded") /\ UNCHANGED IO /\ "downloaded" \notin UpMarks
      /\ obj \in [Agents -> Objs] /\ toAgent[a] \in Seq(Msgs)
      /\ Done(a, l, o, toAgent[a]) \/ Plain(a, obj, <<>>)
  BY DEF IInv, TInv, Downloaded, UpMarks
<1>2. Sane(Limiter, obj, 0) /\ \A b \in Agents : Gives(Limiter, obj, b)
  BY <1>1, LimiterSane
<1>3. Sane(l, obj, 2) /\ \A b \in Agents : Gives(l, obj, b)
  <2>1. Sane(l, obj, 0 + 1)
    BY <1>2, CompletedSane
  <2>2. \A b \in Agents : Gives(l, obj, b)
    BY <1>2, CompletedGives
  <2> HIDE DEF l
  <2> QED  BY <2>1, <2>2 DEF Sane, Limiters
<1> HIDE DEF l
<1>4. l.started \in Seq(GoodTasks)
  BY <1>3 DEF Sane, Limiters
<1>5. /\ Begun(obj, l.started) \in [Agents -> Objs]
      /\ Begun(obj, l.started)[a].authenticated = obj[a].authenticated
  BY <1>1, <1>4, BegunIs, BegunType
<1>6. /\ o \in [Agents -> Objs] /\ o[a].authenticated = obj[a].authenticated
      /\ \A b \in Agents \ {a} : o[b] = Begun(obj, l.started)[b]
      /\ o[a].agentUpdate = Begun(obj, l.started)[a].agentUpdate
  BY <1>5 DEF Objs
<1>7. x \in Seq(Msgs) /\ Free(x, DownMarks) /\ toAgent[a] \o x = toAgent[a]
  BY <1>1, Empty
<1> HIDE DEF o, x
<1>8. CASE Done(a, l, o, toAgent[a])
  <2>1. Done(a, l, o, toAgent[a] \o x)
    BY <1>7, <1>8
  <2> QED  BY <1>1, <1>3, <1>6, <1>7, <2>1, AnswerKeeps
<1>9. CASE Plain(a, obj, <<>>)
  BY <1>1, <1>9, Empty, AnswerPlain
<1> QED  BY <1>1, <1>8, <1>9

-----------------------------------------------------------------------------
\* What a task that completes leaves.
LEMMA CompletedGivesAll ==
    ASSUME TInv, NEW t, NEW o
    PROVE  /\ Sane(Completed(Limiter, t, o), o, 1)
           /\ \A b : Gives(Completed(Limiter, t, o), o, b)
<1>1. Sane(Limiter, o, 0) /\ \A b : Gives(Limiter, o, b)
  BY LimiterSane
<1>2. Sane(Completed(Limiter, t, o), o, 0 + 1)
  BY <1>1, CompletedSane
<1>3. \A b : Gives(Completed(Limiter, t, o), o, b)
  BY <1>1, CompletedGives
<1> QED  BY <1>2, <1>3

\* A bound on the tasks that start may be larger.
LEMMA SaneMore ==
    ASSUME NEW l, NEW o, NEW k, k = 0 \/ k = 1, Sane(l, o, k)
    PROVE  Sane(l, o, 2)
<1>1. l.started \in Seq(GoodTasks)
  BY DEF Sane, Limiters
<1> QED  BY <1>1 DEF Sane

\* Nothing new is said.
NoWords == [b \in Agents |-> <<>>]

\* Tasks start that no connection waits for by itself.
LEMMA StartsKeep ==
    ASSUME IInv, NEW l, Sane(l, obj, 2), \A b \in Agents : Gives(l, obj, b), NEW sent,
           Step(l, Begun(obj, l.started), toAgent, sent), UNCHANGED <<IO, toServer, dev>>
    PROVE  IInv'
<1>1. /\ TInv /\ obj \in [Agents -> Objs] /\ toAgent \in [Agents -> Seq(Msgs)]
      /\ toServer \in [Agents -> Seq(Msgs)] /\ dev \in [Agents -> Devs]
      /\ reading \subseteq Agents /\ files \subseteq AllTasks /\ IsFiniteSet(files)
  BY DEF IInv, TInv, TasksAre
<1>2. Begun(obj, l.started) \in [Agents -> Objs]
  BY <1>1, BegunType DEF Sane, Limiters
<1>3. reading' = reading /\ files' = files /\ toServer' = toServer /\ dev' = dev
  BY DEF IO
<1>4. ASSUME NEW b \in Agents
      PROVE  Unmoved(b, l, obj, Begun(obj, l.started), toAgent, NoWords)
  <2>1. Beside(b, l, obj, Begun(obj, l.started), toAgent, NoWords)
    BY <1>3 DEF Beside, NoWords
  <2> QED  BY <2>1, UnmovedBeside
<1> DEFINE o == Begun(obj, l.started)
<1>5. \A b \in Agents \ {} : Unmoved(b, l, obj, o, toAgent, NoWords)
  BY <1>4
<1>6. o \in [Agents -> Objs] /\ Step(l, o, toAgent, sent)
  BY <1>2
<1> HIDE DEF o
<1>7. /\ reading' \subseteq Agents /\ files' \subseteq AllTasks /\ IsFiniteSet(files')
      /\ toServer' \in [Agents -> Seq(Msgs)] /\ dev' \in [Agents -> Devs]
  BY <1>1, <1>3
<1>8. TInv' /\ \A b \in Agents \ {} : Conn(b)'
  BY <1>1, <1>5, <1>6, <1>7, StepKeeps
<1> QED  BY <1>8 DEF IInv

\* A core has been sent.
LEMMA CoreSentKeeps ==
    ASSUME IInv, NEW t, CoreSent(t)
    PROVE  IInv'
<1> DEFINE l == Completed(Limiter, t, obj)
<1>1. /\ Step(l, Begun(obj, l.started), toAgent, {t})
      /\ UNCHANGED <<IO, toServer, dev>> /\ TInv
  BY DEF CoreSent, IInv
<1>2. Sane(l, obj, 2) /\ \A b \in Agents : Gives(l, obj, b)
  BY <1>1, CompletedGivesAll, SaneMore
<1> HIDE DEF l
<1> QED  BY <1>1, <1>2, StartsKeep

\* The limiter takes the slot of a task back.
LEMMA CleanKeeps ==
    ASSUME IInv, NEW t, Clean(t)
    PROVE  IInv'
<1> DEFINE l == Completed(Limiter, t, obj)
<1>1. /\ Step(l, Begun(obj, l.started), toAgent, {})
      /\ UNCHANGED <<IO, toServer, dev>> /\ TInv
  BY DEF Clean, IInv
<1>2. Sane(l, obj, 2) /\ \A b \in Agents : Gives(l, obj, b)
  BY <1>1, CompletedGivesAll, SaneMore
<1> HIDE DEF l
<1> QED  BY <1>1, <1>2, StartsKeep

\* The other connections go on by themselves, when connection a has done so.
LEMMA OwnKeeps ==
    ASSUME IInv, NEW a \in Agents, NEW l, NEW r, Sane(l, r, 2), NEW o \in [Agents -> Objs],
           NEW say \in [Agents -> Seq(Msgs)], NEW sent, Step(l, o, say, sent),
           reading' \subseteq Agents, files' \subseteq AllTasks, IsFiniteSet(files'),
           toServer' \in [Agents -> Seq(Msgs)], dev' \in [Agents -> Devs],
           \A b \in Agents \ {a} : Beside(b, l, r, o, say, NoWords),
           TInv' => Conn(a)'
    PROVE  IInv'
<1>1. \A b \in Agents \ {a} : Unmoved(b, l, r, o, say, NoWords)
  BY UnmovedBeside
<1>2. TInv' /\ \A b \in Agents \ {a} : Conn(b)'
  BY <1>1, StepKeeps
<1> QED  BY <1>2 DEF IInv

\* What a step leaves of connection a, of which no task is held.
LEMMA OwnStep ==
    ASSUME IInv, NEW a \in Agents, NEW l, NEW r, Sane(l, r, 2), Gives(l, r, a),
           HeldAt(pending, a) = {}, NEW o \in [Agents -> Objs],
           NEW say \in [Agents -> Seq(Msgs)], NEW sent, Step(l, o, say, sent)
    PROVE  /\ HeldAt(pending, a)' = {} /\ OpenOf(opening, a)' = OpenOf(opening, a)
           /\ Words(l.started, a) \in Seq(Msgs) /\ Free(Words(l.started, a), DownMarks)
           /\ toAgent'[a] = say[a] \o Words(l.started, a) /\ obj'[a] = o[a]
           /\ Starts(l.started, a) = {}
           /\ (\A i \in 1..Len(l.started) : l.started[i].agent # a) =>
                Words(l.started, a) = <<>>
<1>1. Leaves(l, o, say)
  BY StepIs
<1>2. HeldAt(l.pending, a) = {} /\ Starts(l.started, a) = {}
  BY DEF Gives
<1>3. l.started \in Seq(GoodTasks) /\ Len(l.started) <= 2
  BY DEF Sane, Limiters
<1>4. OpensFor(l.started, a) = {}
  BY <1>2, <1>3, OpensAre
<1>5. HeldAt(pending, a)' = {}
  BY <1>1, <1>2 DEF HeldAt, Leaves
<1>6. OpenOf(opening, a)' = OpenOf(opening, a)
  <2>1. OpenOf(opening, a)' = OpenOf(opening, a) \cup OpensFor(l.started, a)
    BY <1>1 DEF OpenOf, OpensFor, Leaves
  <2> QED  BY <1>4, <2>1
<1>7. /\ Words(l.started, a) \in Seq(Msgs) /\ Free(Words(l.started, a), DownMarks)
      /\ (\A i \in 1..Len(l.started) : l.started[i].agent # a) =>
            Words(l.started, a) = <<>>
  BY <1>2, <1>3, WordsAre
<1>8. toAgent'[a] = say[a] \o Words(l.started, a) /\ obj'[a] = o[a]
  BY <1>1 DEF Leaves
<1> QED  BY <1>2, <1>5, <1>6, <1>7, <1>8

-----------------------------------------------------------------------------
\* The limiter as it is.
LEMMA LimiterAsIs ==
    ASSUME TInv, NEW r
    PROVE  /\ Sane(Limiter, r, 2) /\ \A b : Gives(Limiter, r, b)
           /\ Limiter.started = <<>>
           /\ \A o \in [Agents -> Objs], b \in Agents : Begun(o, Limiter.started)[b] = o[b]
<1>1. Sane(Limiter, r, 0) /\ \A b : Gives(Limiter, r, b)
  BY LimiterSane
<1>2. Limiter.started = <<>>
  BY DEF Limiter
<1>3. \A o \in [Agents -> Objs], b \in Agents : Begun(o, Limiter.started)[b] = o[b]
  BY <1>2, BegunNone
<1> QED  BY <1>1, <1>2, <1>3, SaneMore

\* A user asks for a core.
LEMMA AsksForKeeps ==
    ASSUME IInv, NEW a \in Agents, NEW c \in UserCores, AsksFor(a, c)
    PROVE  IInv'
<1> DEFINE check == CASE c = "core" -> 0 [] c = "rcore" -> 1001
                      [] c = "tcore" -> 1011 [] OTHER -> 1000
           o == [obj EXCEPT ![a].agentCoreCheck = check]
           x == IF check = 1000 THEN <<Core(c)>> ELSE <<AskCore>>
           w == [b \in Agents |-> IF b = a THEN x ELSE <<>>]
           say == [toAgent EXCEPT ![a] = toAgent[a] \o x]
<1>1. /\ TInv /\ obj \in [Agents -> Objs] /\ toAgent \in [Agents -> Seq(Msgs)]
      /\ toServer \in [Agents -> Seq(Msgs)] /\ dev \in [Agents -> Devs]
      /\ reading \subseteq Agents /\ files \subseteq AllTasks /\ IsFiniteSet(files)
  BY DEF IInv, TInv, TasksAre
<1>2. /\ Ready(obj, a) /\ Plain(a, o, x) /\ reading' = reading /\ files' = files
      /\ toServer' = toServer /\ dev' = dev
  BY DEF AsksFor, IO
<1>3. Step(Limiter, o, say, {})
  BY <1>2 DEF Plain, Done, Sends
<1>4. /\ o \in [Agents -> Objs] /\ \A b \in Agents \ {a} : o[b] = obj[b]
      /\ o[a].authenticated = obj[a].authenticated /\ o[a].agentUpdate = obj[a].agentUpdate
  <2>1. check \in Nat
    OBVIOUS
  <2> HIDE DEF check
  <2> QED  BY <1>1, <2>1, FieldSet
<1>5. x \in Seq(Msgs) /\ Free(x, DownMarks)
  <2>1. c \in Cores
    BY Constants1
  <2>2. <<Core(c)>> \in Seq(Msgs) /\ Free(<<Core(c)>>, DownMarks)
    BY <2>1, OneFree, Messages DEF DownMarks
  <2>3. <<AskCore>> \in Seq(Msgs) /\ Free(<<AskCore>>, DownMarks)
    BY OneFree, Messages DEF DownMarks
  <2> HIDE DEF check
  <2> QED  BY <2>2, <2>3
<1> HIDE DEF o, x
<1>6. /\ Sane(Limiter, obj, 2) /\ \A b \in Agents : Gives(Limiter, obj, b)
      /\ \A b \in Agents : Begun(obj, Limiter.started)[b] = obj[b]
  BY <1>1, LimiterAsIs
<1>7. ASSUME NEW b \in Agents, b # a  PROVE Unmoved(b, Limiter, obj, o, say, w)
  <2>1. Beside(b, Limiter, obj, o, say, w)
    BY <1>1, <1>2, <1>4, <1>6, <1>7 DEF Beside
  <2> HIDE DEF w, say
  <2> QED  BY <1>6, <2>1, UnmovedBeside
<1>8. Unmoved(a, Limiter, obj, o, say, w)
  <2>1. w[a] = x /\ say[a] = toAgent[a] \o x
    BY <1>1
  <2>2. Passed(toServer[a], toServer'[a])
    BY <1>1, <1>2, PassedSame
  <2> HIDE DEF w, say
  <2> QED  BY <1>2, <1>4, <1>5, <1>6, <2>1, <2>2 DEF Unmoved
<1>9. say \in [Agents -> Seq(Msgs)]
  <2>1. toAgent[a] \o x \in Seq(Msgs)
    BY <1>1, <1>5
  <2> QED  BY <1>1, <2>1
<1> HIDE DEF w, say
<1>10. \A b \in Agents \ {} : Unmoved(b, Limiter, obj, o, say, w)
  BY <1>7, <1>8
<1>11. /\ reading' \subseteq Agents /\ files' \subseteq AllTasks /\ IsFiniteSet(files')
       /\ toServer' \in [Agents -> Seq(Msgs)] /\ dev' \in [Agents -> Devs]
  BY <1>1, <1>2
<1>12. TInv' /\ \A b \in Agents \ {} : Conn(b)'
  BY <1>3, <1>4, <1>6, <1>9, <1>10, <1>11, StepKeeps
<1> QED  BY <1>12 DEF IInv

\* The others, when connection a does what starts nothing.
LEMMA PlainBeside ==
    ASSUME TInv, NEW a \in Agents, NEW o, \A b \in Agents \ {a} : o[b] = obj[b],
           NEW say, \A b \in Agents \ {a} : say[b] = toAgent[b],
           \A b \in Agents \ {a} : toServer'[b] = toServer[b] /\ dev'[b].got = dev[b].got,
           \A b \in Agents \ {a} : b \in reading' <=> b \in reading
    PROVE  \A b \in Agents \ {a} : Beside(b, Limiter, obj, o, say, NoWords)
<1>1. /\ \A b \in Agents : Gives(Limiter, obj, b)
      /\ \A b \in Agents : Begun(obj, Limiter.started)[b] = obj[b]
  <2>1. obj \in [Agents -> Objs]
    BY DEF TInv
  <2> QED  BY <2>1, LimiterAsIs
<1> QED  BY <1>1 DEF Beside, NoWords

\* A connection is authenticated.
LEMMA ConnectKeeps ==
    ASSUME IInv, NEW a \in Agents, Connect(a)
    PROVE  IInv'
<1> DEFINE o == [obj EXCEPT ![a].authenticated = 2]
           x == IF UpdateMethod[a] # "unchecked" THEN <<AskHash>>
                ELSE IF a \in CoreAgents THEN <<AskCore>> ELSE <<>>
           say == [toAgent EXCEPT ![a] = toAgent[a] \o x]
<1>1. /\ TInv /\ obj \in [Agents -> Objs] /\ toAgent \in [Agents -> Seq(Msgs)]
      /\ toServer \in [Agents -> Seq(Msgs)] /\ dev \in [Agents -> Devs]
      /\ reading \subseteq Agents /\ files \subseteq AllTasks /\ IsFiniteSet(files)
  BY DEF IInv, TInv, TasksAre
<1>2. /\ obj[a].authenticated = 1 /\ Plain(a, o, x) /\ reading' = reading /\ files' = files
      /\ toServer' = toServer /\ dev' = dev
  BY DEF Connect, IO
<1>3. Step(Limiter, o, say, {})
  BY <1>2 DEF Plain, Done, Sends
<1>4. Before(a)
  BY <1>2 DEF IInv, Conn
<1>5. /\ o \in [Agents -> Objs] /\ \A b \in Agents \ {a} : o[b] = obj[b]
      /\ o[a].authenticated = 2 /\ o[a].agentUpdate = None
  BY <1>1, <1>4, ZenonT(40) DEF Objs, Before
<1>6. (x \in Seq(Msgs) /\ Ending(Blocks[a], x, dev[a].got)) \/ x = <<AskHash>>
  <2>1. <<AskCore>> \in Seq(Msgs) /\ Free(<<AskCore>>, DownMarks)
    BY OneFree, Messages DEF DownMarks
  <2> QED  BY <2>1, Empty DEF Ending
<1>7. Single(<<AskHash>>, DownMarks, AskHash) /\ <<AskHash>> \in Seq(Msgs)
  BY Messages DEF Single, SingleAt
<1> HIDE DEF o, x
<1>8. say \in [Agents -> Seq(Msgs)] /\ say[a] = x
  <2>1. x \in Seq(Msgs)
    BY <1>6, <1>7
  <2>2. toAgent[a] \o x = x
    BY <1>4, <2>1 DEF Before
  <2> QED  BY <1>1, <2>1, <2>2
<1>9. \A b \in Agents \ {a} : say[b] = toAgent[b]
  BY <1>1
<1> HIDE DEF say
<1>10. \A b \in Agents \ {a} : Beside(b, Limiter, obj, o, say, NoWords)
  BY <1>1, <1>2, <1>5, <1>9, PlainBeside
<1>11. Sane(Limiter, obj, 2) /\ Gives(Limiter, obj, a) /\ Limiter.started = <<>>
  BY <1>1, LimiterAsIs
<1>12. HeldAt(pending, a) = {}
  BY <1>4 DEF Before
<1>13. /\ HeldAt(pending, a)' = {} /\ OpenOf(opening, a)' = {}
       /\ toAgent'[a] = x \o Words(Limiter.started, a) /\ obj'[a] = o[a]
       /\ Words(Limiter.started, a) = <<>>
  <2>1. \A i \in 1..Len(Limiter.started) : Limiter.started[i].agent # a
    BY <1>11
  <2> QED  BY <1>1, <1>3, <1>4, <1>5, <1>8, <1>11, <1>12, <2>1, OwnStep DEF Before
<1>14. toAgent'[a] = x
  <2>1. x \in Seq(Msgs)
    BY <1>6, <1>7
  <2> QED  BY <1>13, <2>1
<1>15. Free(toServer'[a], UpMarks)
  BY <1>2, <1>4 DEF Before, Free
<1>16. Rests(Blocks[a], toAgent'[a], toServer'[a], dev'[a].got)
  BY <1>2, <1>6, <1>7, <1>14, <1>15 DEF Rests
<1>17. Conn(a)'
  <2>1. FlowOf(a)'
    BY <1>2, <1>4, <1>5, <1>13, <1>16 DEF FlowOf, Flow, Before
  <2> QED  BY <1>5, <1>13, <2>1 DEF Conn
<1> QED  BY <1>1, <1>2, <1>3, <1>5, <1>8, <1>10, <1>11, <1>17, OwnKeeps

-----------------------------------------------------------------------------
\* Where a connection is whose agent answers with the hash of its binary.
LEMMA HashTaken ==
    ASSUME NEW N, NEW u, NEW H, NEW O, NEW R, NEW s \in Seq(Msgs), NEW r \in Seq(Msgs), NEW g,
           Flow(N, u, H, O, R, s, r, g), r # <<>>, Head(r).type = "binaryhash"
    PROVE  /\ H = {} /\ O = {} /\ ~R /\ u = None /\ Free(s, DownMarks)
           /\ Free(Tail(r), UpMarks)
<1>1. ~Free(r, UpMarks)
  BY TailFree DEF UpMarks
<1>2. ~Single(r, UpMarks, Msg("ack"))
  BY TailSingle DEF UpMarks, Msg
<1>3. Single(r, UpMarks, Msg("binaryhash")) => Free(Tail(r), UpMarks)
  BY TailSingle DEF UpMarks
<1> QED  BY <1>1, <1>2, <1>3 DEF Flow, Rests, Blocked, Reads

\* Where a connection is whose agent acknowledges a block.
LEMMA AckTaken ==
    ASSUME NEW N, NEW u, NEW H, NEW O, NEW R, NEW s \in Seq(Msgs), NEW r \in Seq(Msgs), NEW g,
           Flow(N, u, H, O, R, s, r, g), r # <<>>, Head(r).type = "ack"
    PROVE  /\ H = {} /\ O = {} /\ ~R /\ Free(Tail(r), UpMarks)
           /\ \/ u = None /\ Ending(N, s, g)
              \/ u # None /\ u.ptr \in 1..N /\ g = UpTo(u.ptr) /\ Free(s, DownMarks)
<1>1. ~Free(r, UpMarks)
  BY TailFree DEF UpMarks
<1>2. ~Single(r, UpMarks, Msg("binaryhash"))
  BY TailSingle DEF UpMarks, Msg
<1>3. Single(r, UpMarks, Msg("ack")) => Free(Tail(r), UpMarks)
  BY TailSingle DEF UpMarks
<1> QED  BY <1>1, <1>2, <1>3 DEF Flow, Rests, Blocked, Reads

\* What an answer that is taken leaves of the others.
LEMMA AnswerBeside ==
    ASSUME IInv, NEW a \in Agents, NEW type, Answer(a, type)
    PROVE  /\ TInv /\ obj \in [Agents -> Objs] /\ toAgent \in [Agents -> Seq(Msgs)]
           /\ toServer \in [Agents -> Seq(Msgs)] /\ dev \in [Agents -> Devs]
           /\ reading \subseteq Agents /\ files \subseteq AllTasks /\ IsFiniteSet(files)
           /\ obj[a].authenticated = 2 /\ FlowOf(a) /\ toServer[a] # <<>>
           /\ Head(toServer[a]).type = type /\ toServer'[a] = Tail(toServer[a])
           /\ toServer' \in [Agents -> Seq(Msgs)] /\ dev' = dev
           /\ \A b \in Agents \ {a} : toServer'[b] = toServer[b]
<1>1. /\ TInv /\ obj \in [Agents -> Objs] /\ toAgent \in [Agents -> Seq(Msgs)]
      /\ toServer \in [Agents -> Seq(Msgs)] /\ dev \in [Agents -> Devs]
      /\ reading \subseteq Agents /\ files \subseteq AllTasks /\ IsFiniteSet(files)
  BY DEF IInv, TInv, TasksAre
<1>2. /\ obj[a].authenticated = 2 /\ toServer[a] # <<>> /\ Head(toServer[a]).type = type
      /\ toServer' = [toServer EXCEPT ![a] = Tail(@)] /\ dev' = dev
  BY DEF Answer, Ready
<1>3. FlowOf(a)
  BY <1>2 DEF IInv, Conn
<1>4. Tail(toServer[a]) \in Seq(Msgs)
  BY <1>1, <1>2, TailAt
<1> QED  BY <1>1, <1>2, <1>3, <1>4

\* A connection whose agent answers with its hash is at rest.
LEMMA AtHash ==
    ASSUME IInv, NEW a \in Agents, Answer(a, "binaryhash")
    PROVE  /\ HeldAt(pending, a) = {} /\ OpenOf(opening, a) = {} /\ a \notin reading
           /\ obj[a].agentUpdate = None /\ Free(toAgent[a], DownMarks)
           /\ Free(Tail(toServer[a]), UpMarks)
<1> DEFINE R == a \in reading
           u == obj[a].agentUpdate
           H == HeldAt(pending, a)
           O == OpenOf(opening, a)
           s == toAgent[a]
           r == toServer[a]
           g == dev[a].got
           N == Blocks[a]
<1>1. /\ r \in Seq(Msgs) /\ s \in Seq(Msgs) /\ r # <<>>
      /\ Head(r).type = "binaryhash" /\ FlowOf(a)
  BY AnswerBeside
<1>2. Flow(N, u, H, O, R, s, r, g)
  BY <1>1 DEF FlowOf
<1> HIDE DEF R, u, H, O, s, r, g, N
<1>3. H = {} /\ O = {} /\ ~R /\ u = None /\ Free(s, DownMarks) /\ Free(Tail(r), UpMarks)
  BY <1>1, <1>2, HashTaken
<1> QED  BY <1>3 DEF R, u, H, O, s, r, g, N

\* A connection whose agent acknowledges a block is at that block, or at rest.
LEMMA AtAck ==
    ASSUME IInv, NEW a \in Agents, Answer(a, "ack")
    PROVE  /\ HeldAt(pending, a) = {} /\ OpenOf(opening, a) = {} /\ a \notin reading
           /\ Free(Tail(toServer[a]), UpMarks)
           /\ \/ obj[a].agentUpdate = None /\ Ending(Blocks[a], toAgent[a], dev[a].got)
              \/ /\ obj[a].agentUpdate # None /\ obj[a].agentUpdate.ptr \in 1..Blocks[a]
                 /\ dev[a].got = UpTo(obj[a].agentUpdate.ptr) /\ Free(toAgent[a], DownMarks)
<1> DEFINE R == a \in reading
           u == obj[a].agentUpdate
           H == HeldAt(pending, a)
           O == OpenOf(opening, a)
           s == toAgent[a]
           r == toServer[a]
           g == dev[a].got
           N == Blocks[a]
<1>1. /\ r \in Seq(Msgs) /\ s \in Seq(Msgs) /\ r # <<>>
      /\ Head(r).type = "ack" /\ FlowOf(a)
  BY AnswerBeside
<1>2. Flow(N, u, H, O, R, s, r, g)
  BY <1>1 DEF FlowOf
<1> HIDE DEF R, u, H, O, s, r, g, N
<1>3. /\ H = {} /\ O = {} /\ ~R /\ Free(Tail(r), UpMarks)
      /\ \/ u = None /\ Ending(N, s, g)
         \/ u # None /\ u.ptr \in 1..N /\ g = UpTo(u.ptr) /\ Free(s, DownMarks)
  BY <1>1, <1>2, AckTaken
<1> QED  BY <1>3 DEF R, u, H, O, s, r, g, N

\* The end is said once, whatever else is.
LEMMA EndingStays ==
    ASSUME NEW N, NEW g, NEW s \in Seq(Msgs), NEW w \in Seq(Msgs), Ending(N, s, g),
           Free(w, DownMarks)
    PROVE  Ending(N, s \o w, g)
<1>1. Free(s, DownMarks) => Free(s \o w, DownMarks)
  BY FreeFree
<1>2. Single(s, DownMarks, End) => Single(s \o w, DownMarks, End)
  BY SingleFree
<1> QED  BY <1>1, <1>2 DEF Ending

\* The server takes the hash of a binary, or an acknowledgement of an update that is
\* over, and says x, which is of no account.
LEMMA RestingPlain ==
    ASSUME IInv, NEW a \in Agents, NEW type, Answer(a, type), reading' = reading,
           files' = files,
           HeldAt(pending, a) = {}, OpenOf(opening, a) = {}, a \notin reading,
           obj[a].agentUpdate = None, Free(Tail(toServer[a]), UpMarks),
           NEW o \in [Agents -> Objs], \A b \in Agents \ {a} : o[b] = obj[b],
           o[a].authenticated = obj[a].authenticated, o[a].agentUpdate = None,
           NEW x \in Seq(Msgs), Free(x, DownMarks), Plain(a, o, x),
           Ending(Blocks[a], toAgent[a], dev[a].got)
    PROVE  IInv'
<1> DEFINE say == [toAgent EXCEPT ![a] = toAgent[a] \o x]
           w == Words(Limiter.started, a)
<1>1. /\ TInv /\ obj \in [Agents -> Objs] /\ toAgent \in [Agents -> Seq(Msgs)]
      /\ dev \in [Agents -> Devs] /\ reading \subseteq Agents /\ files \subseteq AllTasks
      /\ IsFiniteSet(files) /\ obj[a].authenticated = 2
      /\ toServer'[a] = Tail(toServer[a]) /\ toServer' \in [Agents -> Seq(Msgs)]
      /\ dev' = dev /\ \A b \in Agents \ {a} : toServer'[b] = toServer[b]
  BY AnswerBeside
<1>2. Step(Limiter, o, say, {})
  BY DEF Plain, Done, Sends
<1>3. toAgent[a] \o x \in Seq(Msgs) /\ Ending(Blocks[a], toAgent[a] \o x, dev[a].got)
  <2>1. toAgent[a] \in Seq(Msgs)
    BY <1>1
  <2> QED  BY <2>1, EndingStays
<1>4. /\ say \in [Agents -> Seq(Msgs)] /\ say[a] = toAgent[a] \o x
      /\ \A b \in Agents \ {a} : say[b] = toAgent[b]
  BY <1>1, <1>3
<1> HIDE DEF say
<1>5. \A b \in Agents \ {a} : Beside(b, Limiter, obj, o, say, NoWords)
  BY <1>1, <1>4, PlainBeside
<1>6. Sane(Limiter, obj, 2) /\ Gives(Limiter, obj, a)
  BY <1>1, LimiterAsIs
<1>7. /\ HeldAt(pending, a)' = {} /\ OpenOf(opening, a)' = {}
      /\ w \in Seq(Msgs) /\ Free(w, DownMarks)
      /\ toAgent'[a] = say[a] \o w /\ obj'[a] = o[a]
  BY <1>2, <1>4, <1>6, OwnStep
<1> HIDE DEF w
<1>8. Ending(Blocks[a], toAgent'[a], dev'[a].got)
  <2>1. Ending(Blocks[a], (toAgent[a] \o x) \o w, dev[a].got)
    BY <1>3, <1>7, EndingStays
  <2>2. toAgent'[a] = (toAgent[a] \o x) \o w /\ dev'[a].got = dev[a].got
    BY <1>1, <1>4, <1>7
  <2> QED  BY <2>1, <2>2
<1>9. Rests(Blocks[a], toAgent'[a], toServer'[a], dev'[a].got)
  BY <1>1, <1>8 DEF Rests
<1>10. FlowOf(a)'
  BY <1>7, <1>9 DEF FlowOf, Flow
<1>11. Conn(a)'
  BY <1>1, <1>7, <1>10 DEF Conn
<1> QED  BY <1>1, <1>2, <1>4, <1>5, <1>6, <1>11, OwnKeeps

\* The native update of an agent is launched.
LEMMA NativeKeeps ==
    ASSUME IInv, NEW a \in Agents, Answer(a, "binaryhash"), UNCHANGED IO,
           NEW l, l = Launched(NewTask(a, "native", None)),
           Done(a, l, Begun(obj, l.started), toAgent[a])
    PROVE  IInv'
<1> DEFINE t == NewTask(a, "native", None)
           o == Begun(obj, l.started)
           w == Words(l.started, a)
           u == obj[a].agentUpdate
<1>1. /\ TInv /\ obj \in [Agents -> Objs] /\ toAgent \in [Agents -> Seq(Msgs)]
      /\ dev \in [Agents -> Devs] /\ reading \subseteq Agents /\ files \subseteq AllTasks
      /\ toServer \in [Agents -> Seq(Msgs)]
      /\ IsFiniteSet(files) /\ obj[a].authenticated = 2 /\ Ready(obj, a)
      /\ toServer'[a] = Tail(toServer[a]) /\ toServer' \in [Agents -> Seq(Msgs)]
      /\ dev' = dev /\ \A b \in Agents \ {a} : toServer'[b] = toServer[b]
  BY AnswerBeside DEF Ready
<1>2. /\ HeldAt(pending, a) = {} /\ OpenOf(opening, a) = {} /\ a \notin reading
      /\ obj[a].agentUpdate = None /\ Free(toAgent[a], DownMarks)
      /\ Free(Tail(toServer[a]), UpMarks)
  BY AtHash
<1>3. reading' = reading /\ files' = files
  BY DEF IO
<1>4. t \in GoodTasks /\ t.agent = a /\ t.kind = "native"
  BY <1>1, NewTaskIs DEF Kinds
<1> HIDE DEF t
<1>5. /\ Sane(l, obj, 1)
      /\ \A b \in Agents \ {a} : Gives(l, obj, b)
      /\ \/ HeldAt(l.pending, a) = {} /\ Alone(Starts(l.started, a))
         \/ Alone(HeldAt(l.pending, a)) /\ Starts(l.started, a) = {}
  <2>1. l = Launched(t)
    BY DEF t
  <2>2. Sane(Launched(t), obj, 1)
    BY <1>1, <1>4, LaunchedIs
  <2>3. \A b : ~(t.kind = "native" /\ t.agent = b) => Gives(Launched(t), obj, b)
    BY <1>1, <1>4, LaunchedIs
  <2>4. t.kind = "native" /\ HeldAt(pending, t.agent) = {}
    BY <1>2, <1>4
  <2>5. \/ /\ HeldAt(Launched(t).pending, t.agent) = {}
           /\ Alone(Starts(Launched(t).started, t.agent))
        \/ /\ Alone(HeldAt(Launched(t).pending, t.agent))
           /\ Starts(Launched(t).started, t.agent) = {}
    BY <1>1, <1>4, <2>4, LaunchedIs
  <2> QED  BY <1>4, <2>1, <2>2, <2>3, <2>5
<1>6. Sane(l, obj, 2)
  BY <1>5, SaneMore
<1>7. l.started \in Seq(GoodTasks) /\ Len(l.started) <= 2
  BY <1>6 DEF Sane, Limiters
<1>8. /\ o \in [Agents -> Objs] /\ o[a].authenticated = 2
      /\ Starts(l.started, a) = {} \/ a \in Disk => o[a].agentUpdate = None
      /\ Starts(l.started, a) # {} /\ a \notin Disk =>
           o[a].agentUpdate \in Updates /\ o[a].agentUpdate.ptr = 1
  <2>1. o \in [Agents -> Objs]
    BY <1>1, <1>7, BegunType
  <2>2. /\ o[a].authenticated = obj[a].authenticated
        /\ Starts(l.started, a) = {} \/ a \in Disk => o[a].agentUpdate = obj[a].agentUpdate
        /\ Starts(l.started, a) # {} /\ a \notin Disk =>
             o[a].agentUpdate \in Updates /\ o[a].agentUpdate.ptr = 1
    BY <1>1, <1>7, BegunIs
  <2> HIDE DEF o
  <2> QED  BY <1>1, <1>2, <2>1, <2>2
<1>9. Step(l, o, toAgent, {})
  <2>1. [toAgent EXCEPT ![a] = toAgent[a]] = toAgent
    BY <1>1
  <2> QED  BY <2>1 DEF Done
<1>10. \A b \in Agents \ {a} : Beside(b, l, obj, o, toAgent, NoWords)
  BY <1>1, <1>3, <1>5 DEF Beside, NoWords
<1> HIDE DEF o, w
<1>11. /\ HeldAt(pending, a)' = HeldAt(l.pending, a)
       /\ OpenOf(opening, a)' = OpensFor(l.started, a)
       /\ toAgent'[a] = toAgent[a] \o w /\ obj'[a] = o[a]
  <2>1. Leaves(l, o, toAgent)
    BY <1>9, StepIs
  <2>2. OpenOf(opening, a)' = OpenOf(opening, a) \cup OpensFor(l.started, a)
    BY <2>1 DEF OpenOf, OpensFor, Leaves
  <2>3. HeldAt(pending, a)' = HeldAt(l.pending, a)
    BY <2>1 DEF HeldAt, Leaves
  <2> QED  BY <1>2, <2>1, <2>2, <2>3 DEF Leaves, w
<1>12. /\ w \in Seq(Msgs)
       /\ Starts(l.started, a) = {} \/ a \in Disk => Free(w, DownMarks)
       /\ Alone(Starts(l.started, a)) /\ a \notin Disk => Pair(w, DownMarks, Start, Block(1))
  BY <1>7, WordsAre DEF w
<1>13. /\ Starts(l.started, a) = {} \/ a \notin Disk => OpensFor(l.started, a) = {}
       /\ Alone(Starts(l.started, a)) /\ a \in Disk => Alone(OpensFor(l.started, a))
  BY <1>7, OpensAre
<1>14. Free(toServer'[a], UpMarks) /\ Blocks[a] \in Nat \ {0} /\ a \notin reading'
  BY <1>1, <1>2, <1>3, Constants1
<1> DEFINE u1 == obj'[a].agentUpdate
           H1 == HeldAt(pending, a)'
           O1 == OpenOf(opening, a)'
           R1 == a \in reading'
           s1 == toAgent'[a]
           r1 == toServer'[a]
           g1 == dev'[a].got
<1>15. ASSUME HeldAt(l.pending, a) = {} /\ Alone(Starts(l.started, a)) /\ a \in Disk
       PROVE  FlowOf(a)'
  <2>1. Free(toAgent[a] \o w, DownMarks)
    BY <1>1, <1>2, <1>12, <1>15, FreeFree
  <2>2. /\ H1 = {} /\ Alone(O1) /\ ~R1 /\ u1 = None /\ Free(s1, DownMarks)
        /\ Free(r1, UpMarks)
    BY <1>8, <1>11, <1>13, <1>14, <1>15, <2>1
  <2> HIDE DEF u1, H1, O1, R1, s1, r1, g1
  <2>3. Flow(Blocks[a], u1, H1, O1, R1, s1, r1, g1)
    BY <2>2 DEF Flow
  <2> QED  BY <2>3 DEF FlowOf, u1, H1, O1, R1, s1, r1, g1
<1>16. ASSUME HeldAt(l.pending, a) = {} /\ Alone(Starts(l.started, a)) /\ a \notin Disk
       PROVE  FlowOf(a)'
  <2>1. Pair(toAgent[a] \o w, DownMarks, Start, Block(1))
    BY <1>1, <1>2, <1>12, <1>16, FreePair
  <2>2. o[a].agentUpdate # None /\ o[a].agentUpdate.ptr = 1 /\ OpensFor(l.started, a) = {}
    BY <1>8, <1>13, <1>16, NotAlone, Constants1
  <2>3. /\ H1 = {} /\ O1 = {} /\ ~R1 /\ u1 # None /\ u1.ptr = 1
        /\ Pair(s1, DownMarks, Start, Block(1)) /\ Free(r1, UpMarks)
    BY <1>11, <1>14, <1>16, <2>1, <2>2
  <2> HIDE DEF u1, H1, O1, R1, s1, r1, g1
  <2>4. Blocked(s1, r1, g1, u1.ptr) /\ u1.ptr \in 1..Blocks[a]
    BY <1>14, <2>3 DEF Blocked
  <2>5. Flow(Blocks[a], u1, H1, O1, R1, s1, r1, g1)
    BY <2>3, <2>4 DEF Flow
  <2> QED  BY <2>5 DEF FlowOf, u1, H1, O1, R1, s1, r1, g1
<1>17. ASSUME Alone(HeldAt(l.pending, a)) /\ Starts(l.started, a) = {}
       PROVE  FlowOf(a)'
  <2>1. Free(toAgent[a] \o w, DownMarks)
    BY <1>1, <1>2, <1>12, <1>17, FreeFree
  <2>2. /\ Alone(H1) /\ O1 = {} /\ ~R1 /\ u1 = None /\ Free(s1, DownMarks)
        /\ Free(r1, UpMarks)
    BY <1>8, <1>11, <1>13, <1>14, <1>17, <2>1
  <2> HIDE DEF u1, H1, O1, R1, s1, r1, g1
  <2>3. Flow(Blocks[a], u1, H1, O1, R1, s1, r1, g1)
    BY <2>2 DEF Flow
  <2> QED  BY <2>3 DEF FlowOf, u1, H1, O1, R1, s1, r1, g1
<1>18. Conn(a)'
  <2>1. FlowOf(a)'
    BY <1>5, <1>15, <1>16, <1>17
  <2>2. obj'[a].authenticated = 2
    BY <1>8, <1>11
  <2> QED  BY <2>1, <2>2 DEF Conn
<1>19. reading' \subseteq Agents /\ files' \subseteq AllTasks /\ IsFiniteSet(files')
       /\ dev' \in [Agents -> Devs]
  BY <1>1, <1>3
<1> QED  BY <1>1, <1>6, <1>8, <1>9, <1>10, <1>18, <1>19, OwnKeeps

\* The agent answers with the hash of its binary.
LEMMA BinaryHashKeeps ==
    ASSUME IInv, NEW a \in Agents, BinaryHash(a)
    PROVE  IInv'
<1> DEFINE l == Launched(NewTask(a, "native", None))
           o == [obj EXCEPT ![a].agentCoreUpdate = TRUE]
<1>1. /\ Answer(a, "binaryhash") /\ UNCHANGED IO
      /\ \/ UpdatesByCore(a)
         \/ Plain(a, obj, <<>>)
         \/ Plain(a, obj, <<AskCore>>)
         \/ Done(a, l, Begun(obj, l.started), toAgent[a])
  BY DEF BinaryHash
<1>2. /\ TInv /\ obj \in [Agents -> Objs] /\ toAgent \in [Agents -> Seq(Msgs)]
      /\ toServer \in [Agents -> Seq(Msgs)]
      /\ FlowOf(a) /\ toServer[a] # <<>> /\ Head(toServer[a]).type = "binaryhash"
      /\ reading' = reading /\ files' = files
  BY <1>1, AnswerBeside DEF IO
<1>3. /\ HeldAt(pending, a) = {} /\ OpenOf(opening, a) = {} /\ a \notin reading
      /\ obj[a].agentUpdate = None /\ Free(toAgent[a], DownMarks)
      /\ Free(Tail(toServer[a]), UpMarks)
  BY <1>1, AtHash
<1>4. Ending(Blocks[a], toAgent[a], dev[a].got)
  BY <1>3 DEF Ending
<1>5. /\ o \in [Agents -> Objs] /\ \A b \in Agents \ {a} : o[b] = obj[b]
      /\ o[a].authenticated = obj[a].authenticated /\ o[a].agentUpdate = None
  BY <1>2, <1>3, FieldSet
<1>6. /\ <<AskCore>> \in Seq(Msgs) /\ Free(<<AskCore>>, DownMarks)
      /\ <<Core("none"), AskCore>> \in Seq(Msgs)
      /\ Free(<<Core("none"), AskCore>>, DownMarks)
  <2>1. /\ Core("none") \in Msgs /\ Core("none").type = "core"
        /\ AskCore \in Msgs /\ AskCore.type = "askcore"
    BY Messages, Constants1
  <2> QED  BY <2>1 DEF Free, DownMarks
<1>7. CASE UpdatesByCore(a)
  <2>1. Plain(a, o, <<Core("none"), AskCore>>)
    BY <1>7 DEF UpdatesByCore
  <2> HIDE DEF o
  <2> QED  BY <1>1, <1>2, <1>3, <1>4, <1>5, <1>6, <2>1, RestingPlain
<1>8. CASE Plain(a, obj, <<>>)
  BY <1>1, <1>2, <1>3, <1>4, <1>8, Empty, RestingPlain
<1>9. CASE Plain(a, obj, <<AskCore>>)
  BY <1>1, <1>2, <1>3, <1>4, <1>6, <1>9, RestingPlain
<1>10. CASE Done(a, l, Begun(obj, l.started), toAgent[a])
  BY <1>1, <1>10, NativeKeeps
<1> QED  BY <1>1, <1>7, <1>8, <1>9, <1>10

-----------------------------------------------------------------------------
\* An update that is over stays so, when what is said is of no account.
LEMMA RestsStays ==
    ASSUME NEW N, NEW s \in Seq(Msgs), NEW r, NEW g, NEW w \in Seq(Msgs),
           Rests(N, s, r, g), Free(w, DownMarks)
    PROVE  Rests(N, s \o w, r, g)
<1>1. Free(s, DownMarks) => Free(s \o w, DownMarks)
  BY FreeFree
<1>2. \A m : Single(s, DownMarks, m) => Single(s \o w, DownMarks, m)
  BY SingleFree
<1>3. \A m, e : Pair(s, DownMarks, m, e) => Pair(s \o w, DownMarks, m, e)
  BY PairFree
<1>4. Ending(N, s, g) => Ending(N, s \o w, g)
  BY EndingStays
<1> HIDE DEF Rests
<1>5. \/ Free(r, UpMarks) /\ Ending(N, s, g)
      \/ Free(r, UpMarks) /\ (Single(s, DownMarks, Start) \/ Single(s, DownMarks, AskHash))
      \/ /\ Free(r, UpMarks)
         /\ \E k \in 1..(N + 1) : LastAt(N, k, g) /\ Pair(s, DownMarks, Block(k), End)
      \/ Single(r, UpMarks, Msg("binaryhash")) /\ Free(s, DownMarks)
      \/ Single(r, UpMarks, Msg("ack")) /\ Ending(N, s, g)
  BY DEF Rests
<1>6. \/ Free(r, UpMarks) /\ Ending(N, s \o w, g)
      \/ Free(r, UpMarks)
         /\ (Single(s \o w, DownMarks, Start) \/ Single(s \o w, DownMarks, AskHash))
      \/ /\ Free(r, UpMarks)
         /\ \E k \in 1..(N + 1) :
               LastAt(N, k, g) /\ Pair(s \o w, DownMarks, Block(k), End)
      \/ Single(r, UpMarks, Msg("binaryhash")) /\ Free(s \o w, DownMarks)
      \/ Single(r, UpMarks, Msg("ack")) /\ Ending(N, s \o w, g)
  BY <1>1, <1>2, <1>3, <1>4, <1>5
<1> QED  BY <1>6 DEF Rests

\* What is left of the others when connection a is served.
Others(a) ==
    /\ \A b \in Agents \ {a} :
          /\ toServer'[b] = toServer[b] /\ dev'[b].got = dev[b].got
          /\ b \in reading' <=> b \in reading
    /\ reading' \subseteq Agents /\ files' \subseteq AllTasks /\ IsFiniteSet(files')
    /\ toServer' \in [Agents -> Seq(Msgs)] /\ dev' \in [Agents -> Devs]

\* The update of connection a is over, and the end has been said.
LEMMA EndsKeeps ==
    ASSUME IInv, NEW a \in Agents, obj[a].authenticated = 2, obj[a].agentUpdate # None,
           HeldAt(pending, a) = {}, OpenOf(opening, a) = {}, a \notin reading',
           NEW say \in Seq(Msgs), Ends(a, obj, say), Others(a),
           Rests(Blocks[a], say, toServer'[a], dev'[a].got)
    PROVE  IInv'
<1> DEFINE l == Completed(Limiter, obj[a].agentUpdate.task, obj)
           o == [Begun(obj, l.started) EXCEPT ![a].agentUpdate = None]
           says == [toAgent EXCEPT ![a] = say]
           w == Words(l.started, a)
<1>1. TInv /\ obj \in [Agents -> Objs] /\ toAgent \in [Agents -> Seq(Msgs)]
  BY DEF IInv, TInv
<1>2. Sane(l, obj, 2) /\ \A b : Gives(l, obj, b)
  BY <1>1, CompletedGivesAll, SaneMore
<1>3. Step(l, o, says, {})
  BY DEF Ends, Done
<1> HIDE DEF l
<1>4. l.started \in Seq(GoodTasks)
  BY <1>2 DEF Sane, Limiters
<1>5. /\ Begun(obj, l.started) \in [Agents -> Objs]
      /\ Begun(obj, l.started)[a].authenticated = 2
  BY <1>1, <1>4, BegunIs, BegunType
<1>6. /\ o \in [Agents -> Objs] /\ o[a].authenticated = 2 /\ o[a].agentUpdate = None
      /\ \A b \in Agents \ {a} : o[b] = Begun(obj, l.started)[b]
  BY <1>5 DEF Objs
<1>7. /\ says \in [Agents -> Seq(Msgs)] /\ says[a] = say
      /\ \A b \in Agents \ {a} : says[b] = toAgent[b]
  BY <1>1
<1> HIDE DEF o, says
<1>8. \A b \in Agents \ {a} : Beside(b, l, obj, o, says, NoWords)
  BY <1>2, <1>6, <1>7 DEF Beside, NoWords, Others
<1>9. /\ HeldAt(pending, a)' = {} /\ OpenOf(opening, a)' = {}
      /\ w \in Seq(Msgs) /\ Free(w, DownMarks)
      /\ toAgent'[a] = say \o w /\ obj'[a] = o[a]
  BY <1>2, <1>3, <1>6, <1>7, OwnStep, ZenonT(40)
<1> HIDE DEF w
<1>10. Rests(Blocks[a], toAgent'[a], toServer'[a], dev'[a].got)
  <2> DEFINE r == toServer'[a]
             g == dev'[a].got
  <2> HIDE DEF r, g
  <2>1. Rests(Blocks[a], say, r, g)
    BY DEF r, g
  <2>2. Rests(Blocks[a], say \o w, r, g)
    BY <1>9, <2>1, RestsStays
  <2> QED  BY <1>9, <2>2 DEF r, g
<1>11. FlowOf(a)'
  BY <1>6, <1>9, <1>10 DEF FlowOf, Flow
<1>12. Conn(a)'
  BY <1>6, <1>9, <1>11 DEF Conn
<1> QED  BY <1>2, <1>3, <1>6, <1>7, <1>8, <1>12, OwnKeeps DEF Others

\* Connection a goes on, and nothing starts.
LEMMA PlainKeeps ==
    ASSUME IInv, NEW a \in Agents, obj[a].authenticated = 2,
           HeldAt(pending, a) = {}, OpenOf(opening, a) = {}, Others(a),
           NEW o \in [Agents -> Objs], \A b \in Agents \ {a} : o[b] = obj[b],
           o[a].authenticated = 2, NEW x \in Seq(Msgs), Plain(a, o, x),
           Flow(Blocks[a], o[a].agentUpdate, {}, {}, a \in reading', toAgent[a] \o x,
                toServer'[a], dev'[a].got)
    PROVE  IInv'
<1> DEFINE says == [toAgent EXCEPT ![a] = toAgent[a] \o x]
<1>1. TInv /\ obj \in [Agents -> Objs] /\ toAgent \in [Agents -> Seq(Msgs)]
  BY DEF IInv, TInv
<1>2. Sane(Limiter, obj, 2) /\ Gives(Limiter, obj, a) /\ Limiter.started = <<>>
  BY <1>1, LimiterAsIs
<1>3. Step(Limiter, o, says, {})
  BY DEF Plain, Done, Sends
<1>4. toAgent[a] \o x \in Seq(Msgs)
  BY <1>1
<1>5. /\ says \in [Agents -> Seq(Msgs)] /\ says[a] = toAgent[a] \o x
      /\ \A b \in Agents \ {a} : says[b] = toAgent[b]
  BY <1>1, <1>4
<1> HIDE DEF says
<1>6. \A b \in Agents \ {a} : Beside(b, Limiter, obj, o, says, NoWords)
  BY <1>1, <1>5, PlainBeside DEF Others
<1>7. /\ HeldAt(pending, a)' = {} /\ OpenOf(opening, a)' = {}
      /\ toAgent'[a] = says[a] \o Words(Limiter.started, a) /\ obj'[a] = o[a]
      /\ Words(Limiter.started, a) = <<>>
  <2>1. \A i \in 1..Len(Limiter.started) : Limiter.started[i].agent # a
    BY <1>2
  <2> QED  BY <1>2, <1>3, <1>5, <2>1, OwnStep
<1>8. toAgent'[a] = toAgent[a] \o x
  BY <1>4, <1>5, <1>7
<1>9. FlowOf(a)'
  BY <1>7, <1>8 DEF FlowOf
<1>10. Conn(a)'
  BY <1>7, <1>9 DEF Conn
<1> QED  BY <1>2, <1>3, <1>5, <1>6, <1>10, OwnKeeps DEF Others

-----------------------------------------------------------------------------
\* The answer of connection a that is taken leaves the others alone.
LEMMA AnswerOthers ==
    ASSUME IInv, NEW a \in Agents, NEW type, Answer(a, type), files' = files,
           reading' = reading \/ reading' = reading \cup {a}
    PROVE  Others(a)
<1>1. /\ dev \in [Agents -> Devs] /\ reading \subseteq Agents /\ files \subseteq AllTasks
      /\ IsFiniteSet(files) /\ toServer' \in [Agents -> Seq(Msgs)] /\ dev' = dev
      /\ \A b \in Agents \ {a} : toServer'[b] = toServer[b]
  BY AnswerBeside
<1> QED  BY <1>1 DEF Others

\* The last blocks and the end.
LEMMA LastWords ==
    ASSUME NEW N \in Nat \ {0}, NEW s \in Seq(Msgs), NEW r, NEW g, Free(s, DownMarks),
           Free(r, UpMarks)
    PROVE  /\ \A k \in 1..(N + 1) : LastAt(N, k, g) =>
                 Rests(N, s \o <<Block(k), End>>, r, g)
           /\ g = UpTo(N) => Rests(N, s \o <<End>>, r, g)
           /\ \A k \in Nat : <<Block(k), End>> \in Seq(Msgs) /\ <<Block(k)>> \in Seq(Msgs)
           /\ <<End>> \in Seq(Msgs)
<1>1. \A k \in Nat : Block(k) \in Msgs /\ Block(k).type = "block"
  BY Messages
<1>2. End \in Msgs /\ End.type = "end"
  BY Messages
<1>3. ASSUME NEW k \in Nat
      PROVE  <<Block(k), End>> \in Seq(Msgs) /\ <<Block(k)>> \in Seq(Msgs)
             /\ Pair(<<Block(k), End>>, DownMarks, Block(k), End)
  <2> DEFINE w == <<Block(k), End>>
  <2>1. w \in Seq(Msgs) /\ Len(w) = 2 /\ w[1] = Block(k) /\ w[2] = End /\ <<Block(k)>> \in Seq(Msgs)
    BY <1>1, <1>2
  <2> HIDE DEF w
  <2>2. PairAt(w, DownMarks, Block(k), End, 1, 2)
    BY <2>1 DEF PairAt
  <2>3. Pair(w, DownMarks, Block(k), End)
    BY <2>1, <2>2 DEF Pair
  <2> QED  BY <2>1, <2>3 DEF w
<1>4. <<End>> \in Seq(Msgs) /\ Single(<<End>>, DownMarks, End)
  BY <1>2 DEF Single, SingleAt
<1>5. ASSUME NEW k \in 1..(N + 1), LastAt(N, k, g)
      PROVE  Rests(N, s \o <<Block(k), End>>, r, g)
  <2>1. k \in Nat
    OBVIOUS
  <2>2. Pair(s \o <<Block(k), End>>, DownMarks, Block(k), End)
    BY <1>3, <2>1, FreePair
  <2> HIDE DEF LastAt
  <2> QED  BY <1>5, <2>2 DEF Rests
<1>6. ASSUME g = UpTo(N)  PROVE Rests(N, s \o <<End>>, r, g)
  <2>1. Single(s \o <<End>>, DownMarks, End)
    BY <1>4, FreeSingle
  <2> QED  BY <1>6, <2>1 DEF Rests, Ending
<1> QED  BY <1>3, <1>4, <1>5, <1>6

\* The next block is sent.
LEMMA NextBlockSent ==
    ASSUME NEW s \in Seq(Msgs), NEW r, NEW g, NEW k \in Nat, Free(r, UpMarks)
    PROVE  /\ Free(s, DownMarks) /\ g = UpTo(k - 1) => Blocked(s \o <<Block(k)>>, r, g, k)
           /\ k = 1 /\ Single(s, DownMarks, Start) => Blocked(s \o <<Block(k)>>, r, g, k)
<1>1. <<Block(k)>> \in Seq(Msgs) /\ Single(<<Block(k)>>, DownMarks, Block(k))
  <2>1. Block(k) \in Msgs
    BY Messages
  <2> QED  BY <2>1 DEF Single, SingleAt
<1>2. ASSUME Free(s, DownMarks), g = UpTo(k - 1)
      PROVE  Blocked(s \o <<Block(k)>>, r, g, k)
  <2>1. Single(s \o <<Block(k)>>, DownMarks, Block(k))
    BY <1>1, <1>2, FreeSingle
  <2> QED  BY <1>2, <2>1 DEF Blocked
<1>3. ASSUME k = 1, Single(s, DownMarks, Start)
      PROVE  Blocked(s \o <<Block(k)>>, r, g, k)
  <2>1. Pair(s \o <<Block(1)>>, DownMarks, Start, Block(1))
    BY <1>1, <1>3, SingleSingle
  <2> QED  BY <1>3, <2>1 DEF Blocked
<1> QED  BY <1>2, <1>3

\* The object whose update has sent a block.
LEMMA SentIs ==
    ASSUME TInv, NEW a \in Agents, obj[a].agentUpdate # None
    PROVE  /\ Sent(a) \in [Agents -> Objs] /\ \A b \in Agents \ {a} : Sent(a)[b] = obj[b]
           /\ Sent(a)[a].authenticated = obj[a].authenticated
           /\ Sent(a)[a].agentUpdate # None
           /\ Sent(a)[a].agentUpdate.ptr = obj[a].agentUpdate.ptr + 1
<1>1. obj \in [Agents -> Objs] /\ obj[a].agentUpdate \in Updates
  BY DEF TInv, Objs
<1>2. Sent(a) = [obj EXCEPT ![a].agentUpdate.ptr = obj[a].agentUpdate.ptr + 1]
  BY DEF Sent
<1> DEFINE u == [obj[a].agentUpdate EXCEPT !.ptr = obj[a].agentUpdate.ptr + 1]
<1>3. u \in Updates /\ u.ptr = obj[a].agentUpdate.ptr + 1
  BY <1>1 DEF Updates
<1>4. Sent(a) = [obj EXCEPT ![a] = [obj[a] EXCEPT !.agentUpdate = u]]
  BY <1>2
<1> HIDE DEF u
<1>5. u # None
  BY <1>3, Constants1
<1>6. Sent(a)[a] = [obj[a] EXCEPT !.agentUpdate = u] /\ obj[a] \in Objs
  BY <1>1, <1>4
<1>7. Sent(a)[a] \in Objs /\ Sent(a)[a].agentUpdate = u
      /\ Sent(a)[a].authenticated = obj[a].authenticated
  BY <1>3, <1>6 DEF Objs
<1>8. Sent(a) \in [Agents -> Objs] /\ \A b \in Agents \ {a} : Sent(a)[b] = obj[b]
  BY <1>1, <1>4, <1>6, <1>7
<1> QED  BY <1>3, <1>5, <1>7, <1>8

\* The agent acknowledges a block.
LEMMA BlockTakenKeeps ==
    ASSUME IInv, NEW a \in Agents, BlockTaken(a)
    PROVE  IInv'
<1> DEFINE N == Blocks[a]
           u == obj[a].agentUpdate
           s == toAgent[a]
           r == toServer'[a]
           g == dev[a].got
           R == a \in reading'
           k == NextBlock(a)
<1>1. /\ Answer(a, "ack") /\ files' = files /\ N \in Nat \ {0}
      /\ reading' = reading \/ reading' = reading \cup {a}
  BY Constants1 DEF BlockTaken
<1>2. /\ TInv /\ obj \in [Agents -> Objs] /\ s \in Seq(Msgs) /\ obj[a].authenticated = 2
      /\ dev' = dev /\ r = Tail(toServer[a]) /\ Others(a)
  BY <1>1, AnswerBeside, AnswerOthers
<1>3. /\ HeldAt(pending, a) = {} /\ OpenOf(opening, a) = {} /\ a \notin reading
      /\ Free(r, UpMarks)
      /\ \/ u = None /\ Ending(N, s, g)
         \/ u # None /\ u.ptr \in 1..N /\ g = UpTo(u.ptr) /\ Free(s, DownMarks)
  BY <1>1, <1>2, AtAck
<1>4. k = u.ptr + 1
  BY DEF NextBlock
<1>5. s \o <<>> = s
  BY <1>2
<1>6. CASE u = None
  <2>1. Plain(a, obj, <<>>) /\ reading' = reading /\ ~R
    BY <1>3, <1>6 DEF BlockTaken
  <2>2. Ending(N, s, g)
    BY <1>3, <1>6
  <2>3. Flow(N, u, {}, {}, R, s \o <<>>, r, g)
    <3> HIDE DEF N, u, s, r, g, R
    <3> QED  BY <1>3, <1>5, <1>6, <2>1, <2>2 DEF Flow, Rests
  <2> HIDE DEF N, u, s, r, R
  <2>4. Flow(N, obj[a].agentUpdate, {}, {}, a \in reading', s \o <<>>, r, dev'[a].got)
    BY <1>2, <2>3 DEF u, R
  <2> QED  BY <1>2, <1>3, <2>1, <2>4, Empty, PlainKeeps DEF N, u, s, r, R
<1>7. CASE u # None /\ a \in Disk
  <2>1. Plain(a, obj, <<>>) /\ R
    BY <1>7 DEF BlockTaken
  <2>2. u.ptr \in 1..N /\ g = UpTo(u.ptr) /\ Free(s, DownMarks)
    BY <1>3, <1>7
  <2>3. Flow(N, u, {}, {}, R, s \o <<>>, r, g)
    <3> HIDE DEF N, u, s, r, g, R
    <3> QED  BY <1>1, <1>3, <1>5, <1>7, <2>1, <2>2 DEF Flow, Reads
  <2> HIDE DEF N, u, s, r, R
  <2>4. Flow(N, obj[a].agentUpdate, {}, {}, a \in reading', s \o <<>>, r, dev'[a].got)
    BY <1>2, <2>3 DEF u, R
  <2> QED  BY <1>2, <1>3, <2>1, <2>4, Empty, PlainKeeps DEF N, u, s, r, R
<1>8. CASE u # None /\ a \notin Disk
  <2>1. /\ reading' = reading /\ ~R
        /\ k < N => Plain(a, Sent(a), <<Block(k)>>)
        /\ k = N => Ends(a, obj, s \o <<Block(N), End>>)
        /\ k > N => Ends(a, obj, s \o <<End>>)
    <3>1. IF k < N THEN Plain(a, Sent(a), <<Block(k)>>)
          ELSE Ends(a, obj, Sends(a, IF k = N THEN <<Block(N), End>> ELSE <<End>>))
      BY <1>8 DEF BlockTaken
    <3>2. k \in Nat
      BY <1>1, <1>3, <1>4, <1>8
    <3>3. reading' = reading
      BY <1>8 DEF BlockTaken
    <3> HIDE DEF k, N
    <3> QED  BY <1>1, <1>3, <3>1, <3>2, <3>3 DEF Sends
  <2>2. u.ptr \in 1..N /\ g = UpTo(u.ptr) /\ Free(s, DownMarks) /\ k \in 2..(N + 1)
    BY <1>1, <1>3, <1>4, <1>8
  <2> DEFINE g1 == dev'[a].got
  <2>3. g1 = g
    BY <1>2
  <2> HIDE DEF N, u, s, r, R, k, g, g1
  <2>4. CASE k < N
    <3>1. /\ Sent(a) \in [Agents -> Objs] /\ \A b \in Agents \ {a} : Sent(a)[b] = obj[b]
          /\ Sent(a)[a].authenticated = 2 /\ Sent(a)[a].agentUpdate # None
          /\ Sent(a)[a].agentUpdate.ptr = k
      BY <1>2, <1>4, <1>8, SentIs DEF u
    <3>2. g = UpTo(k - 1)
      <4>1. u.ptr = k - 1
        BY <1>4, <2>2
      <4> QED  BY <2>2, <4>1
    <3>3. k \in Nat /\ k \in 1..N
      BY <1>1, <2>2, <2>4
    <3>4. Blocked(s \o <<Block(k)>>, r, g, k)
      BY <1>2, <1>3, <2>2, <3>2, <3>3, NextBlockSent
    <3> DEFINE v == Sent(a)[a].agentUpdate
               x == <<Block(k)>>
    <3>5. Flow(N, v, {}, {}, R, s \o x, r, g1)
      <4>1. v # None /\ v.ptr = k
        BY <3>1
      <4> HIDE DEF v, x
      <4>2. Blocked(s \o x, r, g1, v.ptr) /\ v.ptr \in 1..N
        BY <2>3, <3>3, <3>4, <4>1 DEF x
      <4> QED  BY <2>1, <4>1, <4>2 DEF Flow
    <3>6. x \in Seq(Msgs)
      BY <3>3, Messages
    <3>7. Plain(a, Sent(a), x)
      BY <2>1, <2>4
    <3> HIDE DEF x
    <3> QED  BY <1>2, <1>3, <3>1, <3>5, <3>6, <3>7, PlainKeeps DEF N, s, r, R, g1
  <2>5. CASE k >= N
    <3> DEFINE say == IF k = N THEN s \o <<Block(N), End>> ELSE s \o <<End>>
    <3>1. Ends(a, obj, say)
      BY <1>1, <2>1, <2>2, <2>5
    <3>2. Rests(N, say, r, g)
      <4>1. CASE k = N
        <5>1. LastAt(N, N, g) /\ N \in 1..(N + 1)
          BY <1>1, <1>4, <2>2, <4>1 DEF LastAt
        <5> QED  BY <1>1, <1>2, <1>3, <2>2, <4>1, <5>1, LastWords
      <4>2. CASE k # N
        <5>1. u.ptr = N
          BY <1>1, <1>4, <2>2, <2>5, <4>2
        <5> QED  BY <1>1, <1>2, <1>3, <2>2, <4>2, <5>1, LastWords
      <4> QED  BY <4>1, <4>2
    <3>3. say \in Seq(Msgs)
      <4>1. <<Block(N), End>> \in Seq(Msgs) /\ <<End>> \in Seq(Msgs)
        BY <1>1, Messages
      <4> QED  BY <1>2, <4>1
    <3> HIDE DEF say
    <3>4. Rests(N, say, r, g1)
      BY <2>3, <3>2
    <3>5. a \notin reading' /\ u # None
      BY <1>8, <2>1 DEF R
    <3> QED  BY <1>2, <1>3, <3>1, <3>3, <3>4, <3>5, EndsKeeps DEF N, s, r, g1, u
  <2> QED  BY <1>1, <2>2, <2>4, <2>5
<1> QED  BY <1>6, <1>7, <1>8

-----------------------------------------------------------------------------
\* Where a connection is that waits for the file.
LEMMA AtRead ==
    ASSUME IInv, NEW a \in Agents, a \in reading, obj[a].authenticated = 2
    PROVE  /\ HeldAt(pending, a) = {} /\ OpenOf(opening, a) = {} /\ obj[a].agentUpdate # None
           /\ obj[a].agentUpdate.ptr \in 0..Blocks[a]
           /\ Reads(toAgent[a], toServer[a], dev[a].got, obj[a].agentUpdate.ptr)
<1> DEFINE R == a \in reading
           u == obj[a].agentUpdate
           H == HeldAt(pending, a)
           O == OpenOf(opening, a)
           s == toAgent[a]
           r == toServer[a]
           g == dev[a].got
           N == Blocks[a]
<1>1. FlowOf(a) /\ R
  BY DEF IInv, Conn
<1>2. Flow(N, u, H, O, R, s, r, g)
  BY <1>1 DEF FlowOf
<1> HIDE DEF R, u, H, O, s, r, g, N
<1>3. H = {} /\ O = {} /\ u # None /\ u.ptr \in 0..N /\ Reads(s, r, g, u.ptr)
  BY <1>1, <1>2 DEF Flow
<1> QED  BY <1>3 DEF u, H, O, s, r, g, N

\* A read of a connection that is over.
LEMMA LateReadKeeps ==
    ASSUME IInv, NEW a \in Agents, obj[a].authenticated # 2, a \in reading,
           Plain(a, obj, <<>>), reading' = reading \ {a}, files' = files,
           toServer' = toServer, dev' = dev
    PROVE  IInv'
<1> DEFINE say == [toAgent EXCEPT ![a] = toAgent[a] \o <<>>]
<1>1. /\ TInv /\ obj \in [Agents -> Objs] /\ toAgent \in [Agents -> Seq(Msgs)]
      /\ toServer \in [Agents -> Seq(Msgs)] /\ dev \in [Agents -> Devs]
      /\ reading \subseteq Agents /\ files \subseteq AllTasks /\ IsFiniteSet(files)
  BY DEF IInv, TInv, TasksAre
<1>2. obj[a].authenticated = -1 /\ After(a)
  BY <1>1 DEF IInv, Conn, Before, Objs
<1>3. Step(Limiter, obj, say, {})
  BY DEF Plain, Done, Sends
<1>4. say = toAgent
  BY <1>1
<1>5. Sane(Limiter, obj, 2) /\ Limiter.started = <<>>
  BY <1>1, LimiterAsIs
<1>6. \A b \in Agents \ {a} : Beside(b, Limiter, obj, obj, toAgent, NoWords)
  BY <1>1, PlainBeside
<1>7. obj' = obj /\ toAgent'[a] = toAgent[a] \o Words(Limiter.started, a)
  <2>1. Leaves(Limiter, obj, say)
    BY <1>3, StepIs
  <2> HIDE DEF say
  <2> QED  BY <1>4, <2>1 DEF Leaves
<1>8. Words(Limiter.started, a) = <<>>
  <2>1. \A i \in 1..Len(Limiter.started) : Limiter.started[i].agent # a
    BY <1>5
  <2>2. Limiter.started \in Seq(GoodTasks) /\ Len(Limiter.started) <= 2
    BY <1>5 DEF Sane, Limiters
  <2> QED  BY <2>1, <2>2, WordsAre
<1>9. Conn(a)'
  <2>1. toAgent'[a] = <<>>
    BY <1>2, <1>7, <1>8 DEF After
  <2> QED  BY <1>2, <1>7, <2>1 DEF Conn, After
<1>10. reading' \subseteq Agents
  BY <1>1
<1> HIDE DEF say
<1> QED  BY <1>1, <1>3, <1>4, <1>5, <1>6, <1>9, <1>10, OwnKeeps

\* A block has been read, or not.
LEMMA FileReadKeeps ==
    ASSUME IInv, NEW a \in Agents, FileRead(a)
    PROVE  IInv'
<1> DEFINE N == Blocks[a]
           u == obj[a].agentUpdate
           s == toAgent[a]
           r == toServer'[a]
           g == dev'[a].got
           R == a \in reading'
           k == NextBlock(a)
<1>1. /\ TInv /\ obj \in [Agents -> Objs] /\ toAgent \in [Agents -> Seq(Msgs)]
      /\ toServer \in [Agents -> Seq(Msgs)] /\ dev \in [Agents -> Devs]
      /\ reading \subseteq Agents /\ files \subseteq AllTasks /\ IsFiniteSet(files)
      /\ N \in Nat \ {0}
  BY Constants1 DEF IInv, TInv, TasksAre
<1>2. /\ a \in reading /\ reading' = reading \ {a} /\ toServer' = toServer /\ dev' = dev
      /\ u = None => Plain(a, obj, <<>>) /\ files' = files
      /\ u # None => \/ ReadFails(a)
                     \/ ~IsLast(a, k) /\ files' = files /\ Plain(a, Sent(a), <<Block(k)>>)
                     \/ /\ IsLast(a, k) /\ files' = files \ {u.task}
                        /\ Ends(a, obj, Sends(a, <<Block(k), End>>))
  BY DEF FileRead
<1>3. CASE obj[a].authenticated # 2
  <2>1. u = None
    BY <1>1, <1>3 DEF IInv, Conn, Before, After, Objs
  <2> QED  BY <1>2, <1>3, <2>1, LateReadKeeps
<1>4. CASE obj[a].authenticated = 2
  <2>1. /\ HeldAt(pending, a) = {} /\ OpenOf(opening, a) = {} /\ u # None
        /\ u.ptr \in 0..N /\ Reads(s, r, g, u.ptr)
    BY <1>2, <1>4, AtRead
  <2>2. /\ Free(r, UpMarks)
        /\ \/ u.ptr = 0 /\ Single(s, DownMarks, Start)
           \/ g = UpTo(u.ptr) /\ Free(s, DownMarks)
    BY <2>1 DEF Reads
  <2>3. k = u.ptr + 1 /\ s \in Seq(Msgs) /\ k \in 1..(N + 1)
    BY <1>1, <2>1 DEF NextBlock
  <2>4. ~R /\ a \notin reading'
    BY <1>2
  <2>5. files' = files \/ files' = files \ {u.task}
    BY <1>2, <2>1 DEF ReadFails
  <2>6. files' \subseteq AllTasks /\ IsFiniteSet(files')
    BY <1>1, <2>5, FS_Subset
  <2>7. Others(a)
    BY <1>1, <1>2, <2>6 DEF Others
  <2>8. CASE ReadFails(a)
    <3>1. Ends(a, obj, s)
      BY <2>8 DEF ReadFails
    <3>2. Rests(N, s, r, g)
      <4> HIDE DEF N, s, r, g, u
      <4> QED  BY <2>2 DEF Rests, Ending
    <3> HIDE DEF s
    <3> QED  BY <1>4, <2>1, <2>3, <2>4, <2>7, <3>1, <3>2, EndsKeeps
  <2>9. CASE ~IsLast(a, k) /\ Plain(a, Sent(a), <<Block(k)>>)
    <3>1. /\ Sent(a) \in [Agents -> Objs] /\ \A b \in Agents \ {a} : Sent(a)[b] = obj[b]
          /\ Sent(a)[a].authenticated = 2 /\ Sent(a)[a].agentUpdate # None
          /\ Sent(a)[a].agentUpdate.ptr = k
      BY <1>1, <1>4, <2>1, <2>3, SentIs
    <3>2. k \in 1..N /\ k \in Nat
      BY <1>1, <2>3, <2>9 DEF IsLast
    <3> DEFINE v == Sent(a)[a].agentUpdate
               x == <<Block(k)>>
    <3>3. x \in Seq(Msgs) /\ Plain(a, Sent(a), x)
      BY <2>9, <3>2, Messages
    <3>4. v # None /\ v.ptr = k
      BY <3>1
    <3> HIDE DEF N, u, s, r, g, R, k, v
    <3>5. Blocked(s \o x, r, g, k)
      <4>1. CASE u.ptr = 0 /\ Single(s, DownMarks, Start)
        BY <2>2, <2>3, <3>2, <4>1, NextBlockSent
      <4>2. CASE g = UpTo(u.ptr) /\ Free(s, DownMarks)
        <5>1. g = UpTo(k - 1)
          <6>1. u.ptr = k - 1
            BY <2>1, <2>3, <1>1
          <6> QED  BY <4>2, <6>1
        <5> QED  BY <2>2, <2>3, <3>2, <4>2, <5>1, NextBlockSent
      <4> QED  BY <2>2, <4>1, <4>2
    <3> HIDE DEF x
    <3>6. Flow(N, v, {}, {}, R, s \o x, r, g)
      BY <2>4, <3>2, <3>4, <3>5 DEF Flow
    <3> QED  BY <1>4, <2>1, <2>7, <3>1, <3>3, <3>6, PlainKeeps DEF N, s, r, g, R, v
  <2>10. CASE IsLast(a, k) /\ Ends(a, obj, Sends(a, <<Block(k), End>>))
    <3> DEFINE say == s \o <<Block(k), End>>
    <3>1. Ends(a, obj, say)
      BY <2>10 DEF Sends
    <3>2. k # 1 /\ k >= N
      BY <2>10 DEF IsLast
    <3> HIDE DEF N, u, s, r, g, R, k
    <3>3. g = UpTo(u.ptr) /\ Free(s, DownMarks)
      BY <2>2, <2>3, <3>2
    <3>4. LastAt(N, k, g)
      <4>1. CASE k = N
        <5>1. u.ptr = N - 1
          BY <1>1, <2>1, <2>3, <4>1
        <5> QED  BY <3>3, <4>1, <5>1 DEF LastAt
      <4>2. CASE k > N
        <5>1. u.ptr = N
          BY <1>1, <2>1, <2>3, <4>2
        <5> QED  BY <3>3, <4>2, <5>1 DEF LastAt
      <4> QED  BY <1>1, <2>3, <3>2, <4>1, <4>2
    <3>5. Rests(N, say, r, g) /\ say \in Seq(Msgs)
      <4>1. k \in Nat
        BY <2>3, <1>1
      <4>2. <<Block(k), End>> \in Seq(Msgs)
        BY <4>1, Messages
      <4>3. Rests(N, s \o <<Block(k), End>>, r, g)
        BY <1>1, <2>2, <2>3, <3>3, <3>4, LastWords
      <4> QED  BY <2>3, <4>2, <4>3
    <3> HIDE DEF say
    <3> QED  BY <1>4, <2>1, <2>4, <2>7, <3>1, <3>5, EndsKeeps DEF N, r, g, u
  <2> QED  BY <1>2, <2>1, <2>8, <2>9, <2>10
<1> QED  BY <1>3, <1>4

-----------------------------------------------------------------------------
\* What two tasks that complete leave, one after the other.
LEMMA TwiceCompleted ==
    ASSUME TInv, NEW l1, NEW o, NEW t,
           l1 = Limiter \/ \E u : l1 = Completed(Limiter, u, o)
    PROVE  /\ Sane(Completed(l1, t, o), o, 2)
           /\ \A b : Gives(Completed(l1, t, o), o, b)
<1>1. CASE l1 = Limiter
  BY <1>1, CompletedGivesAll, SaneMore
<1>2. ASSUME NEW u, l1 = Completed(Limiter, u, o)
      PROVE  /\ Sane(Completed(l1, t, o), o, 2)
             /\ \A b : Gives(Completed(l1, t, o), o, b)
  <2>1. Sane(l1, o, 1) /\ \A b : Gives(l1, o, b)
    BY <1>2, CompletedGivesAll
  <2>2. Sane(Completed(l1, t, o), o, 1 + 1)
    BY <2>1, CompletedSane
  <2>3. \A b : Gives(Completed(l1, t, o), o, b)
    BY <2>1, CompletedGives
  <2>4. 1 + 1 = 2
    OBVIOUS
  <2> QED  BY <2>2, <2>3, <2>4
<1> QED  BY <1>1, <1>2

\* Nothing starts and the objects are what they were.
LEMMA BegunSame ==
    ASSUME NEW o \in [Agents -> Objs], NEW q \in [Agents -> Objs], NEW s, NEW b \in Agents,
           o[b] = q[b]
    PROVE  Begun(o, s)[b] = Begun(q, s)[b]
  BY Zenon DEF Begun

\* A connection is closed; its tasks complete, and others start.
LEMMA CloseKeeps ==
    ASSUME IInv, NEW a \in Agents, Close(a)
    PROVE  IInv'
<1> DEFINE update == obj[a].agentUpdate
           over == [obj EXCEPT ![a].authenticated = -1]
           l1 == IF update = None THEN Limiter ELSE Completed(Limiter, update.task, over)
           l2 == Completed(l1, obj[a].agentCoreUpdateTaskId, over)
           o == [Begun(over, l2.started) EXCEPT ![a] = NewObj(-1)]
           say == [toAgent EXCEPT ![a] = <<>>]
<1>1. /\ TInv /\ obj \in [Agents -> Objs] /\ toAgent \in [Agents -> Seq(Msgs)]
      /\ toServer \in [Agents -> Seq(Msgs)] /\ dev \in [Agents -> Devs]
      /\ reading \subseteq Agents /\ files \subseteq AllTasks /\ IsFiniteSet(files)
  BY DEF IInv, TInv, TasksAre
<1>2. /\ Step(l2, o, say, {}) /\ toServer' = [toServer EXCEPT ![a] = <<>>]
      /\ files' = (IF update = None THEN files ELSE files \ {update.task})
      /\ dev' = [dev EXCEPT ![a] = NewAgent(a)] /\ reading' = reading
  BY DEF Close
<1>3. over \in [Agents -> Objs] /\ over[a].authenticated = -1
      /\ \A b \in Agents \ {a} : over[b] = obj[b]
  BY <1>1 DEF Objs
<1>4. Sane(l2, over, 2) /\ \A b : Gives(l2, over, b)
  <2>1. l1 = Limiter \/ \E u : l1 = Completed(Limiter, u, over)
    OBVIOUS
  <2> HIDE DEF l1, over
  <2> QED  BY <1>1, <2>1, TwiceCompleted
<1> HIDE DEF l1, l2, over, update
<1>5. l2.started \in Seq(GoodTasks) /\ Len(l2.started) <= 2
      /\ \A i \in 1..Len(l2.started) : l2.started[i].agent # a
  BY <1>3, <1>4 DEF Sane, Limiters, Ready
<1>6. Begun(over, l2.started) \in [Agents -> Objs]
      /\ \A b \in Agents \ {a} : Begun(over, l2.started)[b] = Begun(obj, l2.started)[b]
  <2>1. Begun(over, l2.started) \in [Agents -> Objs]
    BY <1>3, <1>5, BegunType
  <2>2. ASSUME NEW b \in Agents, b # a
        PROVE  Begun(over, l2.started)[b] = Begun(obj, l2.started)[b]
    <3>1. over[b] = obj[b]
      BY <1>3, <2>2
    <3> QED  BY <1>1, <1>3, <3>1, BegunSame
  <2> QED  BY <2>1, <2>2
<1>7. NewObj(-1) \in Objs
  BY DEF NewObj, Objs
<1>8. o \in [Agents -> Objs] /\ o[a] = NewObj(-1)
      /\ \A b \in Agents \ {a} : o[b] = Begun(obj, l2.started)[b]
  BY <1>6, <1>7
<1>9. say \in [Agents -> Seq(Msgs)] /\ say[a] = <<>>
      /\ \A b \in Agents \ {a} : say[b] = toAgent[b]
  BY <1>1
<1> HIDE DEF o, say
<1>10. /\ toServer' \in [Agents -> Seq(Msgs)] /\ dev' \in [Agents -> Devs]
       /\ \A b \in Agents \ {a} : toServer'[b] = toServer[b] /\ dev'[b].got = dev[b].got
       /\ files' \subseteq AllTasks /\ IsFiniteSet(files') /\ reading' \subseteq Agents
  <2>1. NewAgent(a) \in Devs
    BY Constants1 DEF NewAgent, Devs
  <2>2. files' \subseteq AllTasks /\ IsFiniteSet(files')
    BY <1>1, <1>2, FS_Subset
  <2> QED  BY <1>1, <1>2, <2>1, <2>2
<1>11. \A b \in Agents \ {a} : Beside(b, l2, over, o, say, NoWords)
  <2> SUFFICES ASSUME NEW b \in Agents \ {a}  PROVE Beside(b, l2, over, o, say, NoWords)
    OBVIOUS
  <2>1. Ready(over, b) <=> Ready(obj, b)
    BY <1>3 DEF Ready
  <2> QED  BY <1>2, <1>4, <1>8, <1>9, <1>10, <2>1 DEF Beside, NoWords
<1>12. obj'[a] = NewObj(-1) /\ toAgent'[a] = <<>>
  <2>1. Leaves(l2, o, say)
    BY <1>2, StepIs
  <2>2. Words(l2.started, a) = <<>>
    BY <1>5, WordsAre
  <2> QED  BY <1>8, <1>9, <2>1, <2>2 DEF Leaves
<1>13. Conn(a)'
  BY <1>12 DEF Conn, After, NewObj
<1> QED  BY <1>2, <1>4, <1>8, <1>9, <1>10, <1>11, <1>13, OwnKeeps

\* A connection of which nothing changes.
LEMMA ConnSame ==
    ASSUME NEW b \in Agents, Conn(b), obj'[b] = obj[b], pending' = pending,
           OpenOf(opening, b)' = OpenOf(opening, b), b \in reading' <=> b \in reading,
           toAgent'[b] = toAgent[b], toServer'[b] = toServer[b], dev'[b].got = dev[b].got
    PROVE  Conn(b)'
<1>1. HeldAt(pending, b)' = HeldAt(pending, b)
  BY DEF HeldAt
<1>2. FlowOf(b) => FlowOf(b)'
  BY <1>1 DEF FlowOf, Flow
<1>3. Before(b) => Before(b)'
  BY <1>1 DEF Before
<1>4. After(b) => After(b)'
  BY DEF After
<1> QED  BY <1>2, <1>3, <1>4 DEF Conn

\* The file of a native update has been opened, or not.
LEMMA FileOpenedKeeps ==
    ASSUME IInv, NEW t, FileOpened(t)
    PROVE  IInv'
<1> DEFINE a == t.agent
<1>1. /\ obj \in [Agents -> Objs] /\ toAgent \in [Agents -> Seq(Msgs)] /\ TInv /\ TasksAre
      /\ toServer \in [Agents -> Seq(Msgs)] /\ dev \in [Agents -> Devs]
      /\ reading \subseteq Agents /\ files \subseteq AllTasks /\ IsFiniteSet(files)
      /\ opening \subseteq AllTasks /\ IsFiniteSet(opening) /\ \A b \in Agents : Conn(b)
  BY DEF IInv, TInv, TasksAre
<1>2. /\ t \in opening /\ opening' = opening \ {t} /\ current' = current /\ pending' = pending
      /\ sending' = sending /\ toServer' = toServer /\ dev' = dev
      /\ files' = files \/ files' = files \cup {t}
      /\ \/ obj' = obj /\ toAgent' = toAgent /\ reading' = reading
         \/ /\ obj[a].authenticated = 2
            /\ obj' = [obj EXCEPT ![a].agentUpdate = [task |-> t, ptr |-> 0]]
            /\ toAgent' = [toAgent EXCEPT ![a] = toAgent[a] \o <<Core("none"), Start>>]
            /\ reading' = reading \cup {a}
  BY DEF FileOpened, Over, Ready
<1>3. a \in Agents /\ t \in AllTasks /\ t \in OpenOf(opening, a)
  BY <1>1, <1>2 DEF AllTasks, OpenOf
<1> DEFINE n == [task |-> t, ptr |-> 0]
           x == <<Core("none"), Start>>
<1>4. n \in Updates /\ n # None /\ n.ptr = 0
  BY <1>3, Constants1 DEF Updates
<1>5. x \in Seq(Msgs) /\ Single(x, DownMarks, Start)
  <2>1. /\ Core("none") \in Msgs /\ Core("none").type = "core"
        /\ Start \in Msgs /\ Start.type = "start"
    BY Messages, Constants1
  <2>2. x \in Seq(Msgs) /\ Len(x) = 2 /\ x[1].type = "core" /\ x[2] = Start
    BY <2>1
  <2> HIDE DEF x
  <2>3. SingleAt(x, DownMarks, Start, 2)
    BY <2>2 DEF SingleAt, DownMarks
  <2> QED  BY <2>2, <2>3 DEF Single
<1> HIDE DEF n, x
<1>6. \/ obj' = obj /\ toAgent' = toAgent /\ reading' = reading
      \/ /\ obj[a].authenticated = 2
         /\ obj' = [obj EXCEPT ![a].agentUpdate = n]
         /\ toAgent' = [toAgent EXCEPT ![a] = toAgent[a] \o x]
         /\ reading' = reading \cup {a}
  BY <1>2 DEF n, x
<1> HIDE DEF a
<1>7. TInv'
  <2>1. files' \subseteq AllTasks /\ IsFiniteSet(files')
    <3>1. IsFiniteSet(files \cup {t})
      BY <1>1, FS_AddElement
    <3> QED  BY <1>1, <1>2, <1>3, <3>1
  <2>2. opening' \subseteq AllTasks /\ IsFiniteSet(opening')
    BY <1>1, <1>2, FS_Subset
  <2>3. TasksAre'
    BY <1>1, <1>2, <2>1, <2>2 DEF TasksAre
  <2>4. obj' \in [Agents -> Objs]
    <3>1. [obj[a] EXCEPT !.agentUpdate = n] \in Objs
      <4>1. obj[a] \in Objs
        BY <1>1, <1>3 DEF a
      <4> QED  BY <1>4, <4>1 DEF Objs
    <3>2. [obj EXCEPT ![a].agentUpdate = n] \in [Agents -> Objs]
      BY <1>1, <3>1
    <3> QED  BY <1>1, <1>6, <3>2
  <2>5. toAgent' \in [Agents -> Seq(Msgs)]
    <3>1. toAgent[a] \o x \in Seq(Msgs)
      BY <1>1, <1>3, <1>5
    <3> QED  BY <1>1, <1>6, <3>1
  <2>6. reading' \subseteq Agents
    BY <1>1, <1>3, <1>6
  <2>7. \A u \in opening' : u.kind = "native"
    BY <1>1, <1>2 DEF TInv
  <2>8. PendingIs(pending')
    BY <1>1, <1>2 DEF TInv
  <2>9. toServer' \in [Agents -> Seq(Msgs)] /\ dev' \in [Agents -> Devs]
    BY <1>1, <1>2
  <2> QED  BY <2>3, <2>4, <2>5, <2>6, <2>7, <2>8, <2>9 DEF TInv
<1>8. ASSUME NEW b \in Agents, b # a  PROVE Conn(b)'
  <2>1. OpenOf(opening, b)' = OpenOf(opening, b)
    BY <1>2, <1>8 DEF OpenOf, a
  <2>2. /\ obj'[b] = obj[b] /\ toAgent'[b] = toAgent[b] /\ Conn(b)
        /\ b \in reading' <=> b \in reading
    BY <1>1, <1>6, <1>8
  <2> QED  BY <1>2, <2>1, <2>2, ConnSame
<1>9. CASE obj[a].authenticated = 1
  BY <1>1, <1>3, <1>9 DEF Conn, Before
<1>10. CASE obj[a].authenticated = -1
  <2>1. Conn(a)'
    BY <1>1, <1>3, <1>6, <1>10 DEF Conn, After
  <2> QED  BY <1>7, <1>8, <2>1 DEF IInv
<1>11. CASE obj[a].authenticated = 2
  <2> DEFINE R == a \in reading
             u == obj[a].agentUpdate
             H == HeldAt(pending, a)
             O == OpenOf(opening, a)
             s == toAgent[a]
             r == toServer[a]
             g == dev[a].got
             N == Blocks[a]
             R1 == a \in reading'
             u1 == obj'[a].agentUpdate
             H1 == HeldAt(pending, a)'
             O1 == OpenOf(opening, a)'
             s1 == toAgent'[a]
             r1 == toServer'[a]
             g1 == dev'[a].got
  <2>1. FlowOf(a) /\ O # {}
    BY <1>1, <1>3, <1>11 DEF Conn
  <2>2. Flow(N, u, H, O, R, s, r, g)
    BY <2>1 DEF FlowOf
  <2>3. H = {} /\ Alone(O) /\ ~R /\ u = None /\ Free(s, DownMarks) /\ Free(r, UpMarks)
    <3> HIDE DEF R, u, H, O, s, r, g, N
    <3> QED  BY <2>1, <2>2 DEF Flow
  <2>4. H1 = {} /\ O1 = {} /\ Free(r1, UpMarks)
    <3>1. H1 = H
      BY <1>2 DEF HeldAt
    <3>2. O1 = O \ {t}
      BY <1>2 DEF OpenOf
    <3>3. O = {t}
      <4> HIDE DEF O
      <4>1. t \in O
        BY <1>3 DEF O, a
      <4> QED  BY <2>3, <4>1 DEF Alone
    <3> QED  BY <1>2, <2>3, <3>1, <3>2, <3>3
  <2>5. \/ u1 = None /\ s1 = s /\ ~R1
        \/ u1 = n /\ s1 = s \o x /\ R1
    <3>1. a \in Agents
      BY <1>3 DEF a
    <3>2. [obj EXCEPT ![a].agentUpdate = n][a].agentUpdate = n
      BY <1>1, <3>1 DEF Objs
    <3>3. [toAgent EXCEPT ![a] = toAgent[a] \o x][a] = s \o x
      BY <1>1, <3>1
    <3>4. CASE obj' = obj /\ toAgent' = toAgent /\ reading' = reading
      BY <2>3, <3>4
    <3>5. CASE /\ obj' = [obj EXCEPT ![a].agentUpdate = n]
               /\ toAgent' = [toAgent EXCEPT ![a] = toAgent[a] \o x]
               /\ reading' = reading \cup {a}
      BY <3>2, <3>3, <3>5
    <3> QED  BY <1>6, <3>4, <3>5
  <2>6. s \in Seq(Msgs) /\ N \in Nat \ {0}
    BY <1>1, <1>3, Constants1 DEF a
  <2> HIDE DEF R, u, H, O, s, r, g, N, R1, u1, H1, O1, s1, r1, g1
  <2>7. Flow(N, u1, H1, O1, R1, s1, r1, g1)
    <3>1. CASE u1 = None /\ s1 = s /\ ~R1
      <4>1. Rests(N, s1, r1, g1)
        BY <2>3, <2>4, <3>1 DEF Rests, Ending
      <4> QED  BY <2>4, <3>1, <4>1 DEF Flow
    <3>2. CASE u1 = n /\ s1 = s \o x /\ R1
      <4>1. Single(s1, DownMarks, Start)
        BY <1>5, <2>3, <2>6, <3>2, FreeSingle
      <4>2. u1 # None /\ u1.ptr \in 0..N /\ Reads(s1, r1, g1, u1.ptr)
        BY <1>4, <2>4, <2>6, <3>2, <4>1 DEF Reads
      <4> QED  BY <2>4, <3>2, <4>2 DEF Flow
    <3> QED  BY <2>5, <3>1, <3>2
  <2>8. FlowOf(a)'
    BY <2>7 DEF FlowOf, N, R1, u1, H1, O1, s1, r1, g1
  <2>9. obj'[a].authenticated = 2
    BY <1>1, <1>3, <1>6, <1>11 DEF Objs
  <2>10. Conn(a)'
    BY <2>8, <2>9 DEF Conn
  <2> QED  BY <1>7, <1>8, <2>10 DEF IInv
<1>12. obj[a].authenticated \in {-1, 1, 2}
  BY <1>1, <1>3 DEF Objs, a
<1> QED  BY <1>9, <1>10, <1>11, <1>12

-----------------------------------------------------------------------------
\* What the agent answers, and what it has, by command m.
LEMMA ReplyIs ==
    ASSUME NEW a \in Agents, dev \in [Agents -> Devs], NEW m \in Msgs
    PROVE  /\ Reply(a, m) \in Seq(Msgs) /\ Obeys(a, dev[a], m) \in Devs
           /\ m.type \notin DownMarks =>
                Free(Reply(a, m), UpMarks) /\ Obeys(a, dev[a], m).got = dev[a].got
           /\ m = Start => Reply(a, m) = <<>> /\ Obeys(a, dev[a], m).got = <<>>
           /\ m = End => Reply(a, m) = <<>> /\ Obeys(a, dev[a], m).got = dev[a].got
           /\ m = AskHash => /\ Reply(a, m) = <<Msg("binaryhash")>>
                             /\ Obeys(a, dev[a], m).got = dev[a].got
           /\ m.type = "block" =>
                /\ Reply(a, m) = <<Msg("ack")>>
                /\ Obeys(a, dev[a], m).got =
                     IF m.nr <= Blocks[a] THEN Append(dev[a].got, m.nr) ELSE dev[a].got
<1> DEFINE d == dev[a]
<1>1. d \in Devs /\ m.nr \in Nat /\ (m.type = "core" => m.core \in Cores)
  BY DEF Msgs
<1> HIDE DEF d
<1>2. /\ AskHash.type = "askhash" /\ AskCore.type = "askcore" /\ CoreOk.type = "coreok"
      /\ Start.type = "start" /\ Fetch.type = "fetch" /\ End.type = "end"
  BY Messages
<1>3. /\ Msg("binaryhash") \in Msgs /\ Msg("ack") \in Msgs /\ Msg("coreinfo") \in Msgs
      /\ Msg("coreinfo").type = "coreinfo" /\ d.core \in Cores
      /\ \A c \in Cores : CoreHash(c) \in Msgs /\ CoreHash(c).type = "corehash"
  BY <1>1, Messages DEF Types, Devs
<1>4. Reply(a, m) \in Seq(Msgs) /\ (m.type \notin DownMarks => Free(Reply(a, m), UpMarks))
  <2> DEFINE x == Reply(a, m)
  <2>1. \/ m = AskHash /\ x = <<Msg("binaryhash")>>
        \/ m.type = "block" /\ x = <<Msg("ack")>>
        \/ x = <<CoreHash(d.core)>>
        \/ m.type = "core" /\ x = <<CoreHash(m.core)>>
        \/ x = <<Msg("coreinfo")>>
        \/ x = <<>>
    BY <1>2 DEF Reply, d
  <2> HIDE DEF x
  <2>2. ASSUME m = AskHash /\ x = <<Msg("binaryhash")>>
        PROVE  x \in Seq(Msgs) /\ (m.type \notin DownMarks => Free(x, UpMarks))
    BY <1>2, <1>3, <2>2 DEF DownMarks
  <2>3. ASSUME m.type = "block" /\ x = <<Msg("ack")>>
        PROVE  x \in Seq(Msgs) /\ (m.type \notin DownMarks => Free(x, UpMarks))
    BY <1>3, <2>3 DEF DownMarks
  <2>4. ASSUME x = <<CoreHash(d.core)>>
        PROVE  x \in Seq(Msgs) /\ (m.type \notin DownMarks => Free(x, UpMarks))
    BY <1>3, <2>4 DEF Free, UpMarks
  <2>5. ASSUME m.type = "core" /\ x = <<CoreHash(m.core)>>
        PROVE  x \in Seq(Msgs) /\ (m.type \notin DownMarks => Free(x, UpMarks))
    BY <1>1, <1>3, <2>5 DEF Free, UpMarks
  <2>6. ASSUME x = <<Msg("coreinfo")>>
        PROVE  x \in Seq(Msgs) /\ (m.type \notin DownMarks => Free(x, UpMarks))
    BY <1>3, <2>6 DEF Free, UpMarks
  <2>7. ASSUME x = <<>>
        PROVE  x \in Seq(Msgs) /\ (m.type \notin DownMarks => Free(x, UpMarks))
    BY <2>7 DEF Free
  <2>8. x \in Seq(Msgs) /\ (m.type \notin DownMarks => Free(x, UpMarks))
    BY <2>1, <2>2, <2>3, <2>4, <2>5, <2>6, <2>7
  <2> QED  BY <2>8 DEF x
<1>5. Obeys(a, d, m) \in Devs
  <2>1. [d EXCEPT !.got = Append(@, m.nr)] \in Devs
    <3>1. Append(d.got, m.nr) \in Seq(Nat)
      BY <1>1 DEF Devs
    <3> QED  BY <1>1, <3>1 DEF Devs
  <2>2. m.type = "core" => [d EXCEPT !.core = m.core] \in Devs
    BY <1>1 DEF Devs
  <2>3. [d EXCEPT !.got = <<>>] \in Devs
    <3>1. <<>> \in Seq(Nat)
      OBVIOUS
    <3> DEFINE e == <<>>
    <3>2. e \in Seq(Nat)
      BY <3>1
    <3> HIDE DEF e
    <3>3. [d EXCEPT !.got = e] \in Devs
      BY <1>1, <3>2 DEF Devs
    <3> QED  BY <3>3 DEF e
  <2>4. [d EXCEPT !.binary = "fetching"] \in Devs
    BY <1>1 DEF Devs
  <2>5. CASE m.type = "core"
    <3>1. m # Start /\ m.type # "block" /\ m # Fetch
      BY <1>2, <2>5
    <3> QED  BY <1>1, <2>2, <2>5, <3>1 DEF Obeys
  <2>6. CASE m = Start
    <3>1. m.type # "core" /\ m.type # "block" /\ m # Fetch
      BY <1>2, <2>6
    <3> QED  BY <1>1, <2>3, <2>6, <3>1, Zenon DEF Obeys
  <2>7. CASE m.type = "block"
    <3>1. m # Start /\ m.type # "core" /\ m # Fetch
      BY <1>2, <2>7
    <3> QED  BY <1>1, <2>1, <2>7, <3>1, Zenon DEF Obeys
  <2>8. CASE m = Fetch
    <3>1. m # Start /\ m.type # "core" /\ m.type # "block"
      BY <1>2, <2>8
    <3> QED  BY <1>1, <2>4, <2>8, <3>1, Zenon DEF Obeys
  <2>9. CASE m.type # "core" /\ m # Start /\ m.type # "block" /\ m # Fetch
    BY <1>1, <2>9, Zenon DEF Obeys
  <2> QED  BY <2>5, <2>6, <2>7, <2>8, <2>9
<1>6. m.type \notin DownMarks => Obeys(a, d, m).got = d.got
  <2>1. m.type \notin DownMarks => m # Start /\ m.type # "block"
    BY <1>2 DEF DownMarks
  <2>2. m.type \notin DownMarks =>
          \/ Obeys(a, d, m) = [d EXCEPT !.core = m.core]
          \/ Obeys(a, d, m) = [d EXCEPT !.binary = "fetching"]
          \/ Obeys(a, d, m) = d
    BY <2>1 DEF Obeys
  <2> QED  BY <1>1, <2>2 DEF Devs
<1>7. m = Start => Reply(a, m) = <<>> /\ Obeys(a, d, m).got = <<>>
  <2>1. ASSUME m = Start
        PROVE  m.type = "start" /\ m # AskHash /\ m # AskCore /\ m # CoreOk /\ m # Fetch
               /\ m.type # "core" /\ m.type # "block"
    BY <1>2, <2>1
  <2>2. m = Start => Reply(a, m) = <<>>
    BY <2>1 DEF Reply
  <2>3. m = Start => Obeys(a, d, m) = [d EXCEPT !.got = <<>>]
    BY <2>1, Zenon DEF Obeys
  <2> QED  BY <1>1, <2>2, <2>3 DEF Devs
<1>8. m = End => Reply(a, m) = <<>> /\ Obeys(a, d, m).got = d.got
  <2>1. ASSUME m = End
        PROVE  m.type = "end" /\ m # AskHash /\ m # AskCore /\ m # CoreOk /\ m # Start
               /\ m # Fetch
    BY <1>2, <2>1
  <2>2. m = End => Reply(a, m) = <<>>
    BY <2>1 DEF Reply
  <2>3. m = End => Obeys(a, d, m) = d
    BY <2>1 DEF Obeys
  <2> QED  BY <1>1, <2>2, <2>3
<1>9. m = AskHash => Reply(a, m) = <<Msg("binaryhash")>> /\ Obeys(a, d, m).got = d.got
  <2>1. ASSUME m = AskHash
        PROVE  m.type = "askhash" /\ m # Start /\ m # Fetch /\ m # AskCore /\ m # CoreOk
               /\ m.type # "core" /\ m.type # "block"
    BY <1>2, <2>1
  <2>2. m = AskHash => Reply(a, m) = <<Msg("binaryhash")>>
    BY <2>1, Zenon DEF Reply
  <2>3. m = AskHash => Obeys(a, d, m) = d
    BY <2>1 DEF Obeys
  <2> QED  BY <1>1, <2>2, <2>3
<1>10. m.type = "block" =>
          /\ Reply(a, m) = <<Msg("ack")>>
          /\ Obeys(a, d, m).got = IF m.nr <= Blocks[a] THEN Append(d.got, m.nr) ELSE d.got
  <2>1. ASSUME m.type = "block"
        PROVE  m # AskHash /\ m # AskCore /\ m # CoreOk /\ m # Start /\ m # Fetch
    BY <1>2, <2>1
  <2>2. m.type = "block" => Reply(a, m) = <<Msg("ack")>>
    BY <2>1 DEF Reply
  <2>3. m.type = "block" => Obeys(a, d, m) = IF m.nr <= Blocks[a]
                                            THEN [d EXCEPT !.got = Append(@, m.nr)] ELSE d
    BY <2>1 DEF Obeys
  <2> QED  BY <1>1, <2>2, <2>3 DEF Devs
<1> QED  BY <1>4, <1>5, <1>6, <1>7, <1>8, <1>9, <1>10 DEF d

\* One block more.
LEMMA UpToNext ==
    ASSUME NEW k \in Nat \ {0}
    PROVE  Append(UpTo(k - 1), k) = UpTo(k)
<1> DEFINE s == UpTo(k - 1)
<1>1. s \in Seq(Nat) /\ Len(s) = k - 1 /\ \A j \in 1..(k - 1) : s[j] = j
  BY DEF UpTo
<1> HIDE DEF s
<1>2. Append(s, k) = [j \in 1..k |-> j]
  <2> DEFINE w == Append(s, k)
  <2>1. w \in Seq(Nat) /\ Len(w) = k /\ \A j \in 1..k : w[j] = j
    BY <1>1
  <2> HIDE DEF w
  <2>2. w = [j \in 1..k |-> w[j]]
    BY <2>1
  <2>3. w = [j \in 1..k |-> j]
    BY <2>1, <2>2
  <2> QED  BY <2>3 DEF w
<1> QED  BY <1>2 DEF UpTo, s

-----------------------------------------------------------------------------
\* What agent a answers to m, and has then, as far as a native update goes.
Obeyed(N, m, rep, g, g1) ==
    /\ m.type \notin DownMarks => Free(rep, UpMarks) /\ g1 = g
    /\ m = Start => rep = <<>> /\ g1 = <<>>
    /\ m = End => rep = <<>> /\ g1 = g
    /\ m = AskHash => rep = <<Msg("binaryhash")>> /\ g1 = g
    /\ \A k \in Nat : m = Block(k) =>
          rep = <<Msg("ack")>> /\ g1 = IF k <= N THEN Append(g, k) ELSE g

\* The agent's end does that.
LEMMA AgentObeyed ==
    ASSUME NEW a \in Agents, dev \in [Agents -> Devs], NEW m \in Msgs
    PROVE  Obeyed(Blocks[a], m, Reply(a, m), dev[a].got, Obeys(a, dev[a], m).got)
<1>1. \A k \in Nat : m = Block(k) => m.type = "block" /\ m.nr = k
  BY Messages
<1>2. ASSUME NEW k \in Nat, m = Block(k)
      PROVE  /\ Reply(a, m) = <<Msg("ack")>>
             /\ Obeys(a, dev[a], m).got =
                  IF k <= Blocks[a] THEN Append(dev[a].got, k) ELSE dev[a].got
  BY <1>1, <1>2, ReplyIs
<1>3. /\ m.type \notin DownMarks =>
           Free(Reply(a, m), UpMarks) /\ Obeys(a, dev[a], m).got = dev[a].got
      /\ m = Start => Reply(a, m) = <<>> /\ Obeys(a, dev[a], m).got = <<>>
      /\ m = End => Reply(a, m) = <<>> /\ Obeys(a, dev[a], m).got = dev[a].got
      /\ m = AskHash => /\ Reply(a, m) = <<Msg("binaryhash")>>
                        /\ Obeys(a, dev[a], m).got = dev[a].got
  BY ReplyIs
<1> QED  BY <1>2, <1>3 DEF Obeyed

\* No blocks.
LEMMA UpToNone == UpTo(0) = <<>>
  BY DEF UpTo

\* The agent obeys a command that is of no account.
LEMMA FlowPasses ==
    ASSUME NEW N \in Nat, NEW u, NEW H, NEW O, NEW R, NEW s \in Seq(Msgs),
           NEW r \in Seq(Msgs), NEW g,
           Flow(N, u, H, O, R, s, r, g), s # <<>>, Head(s).type \notin DownMarks,
           NEW rep \in Seq(Msgs), Free(rep, UpMarks)
    PROVE  Flow(N, u, H, O, R, Tail(s), r \o rep, g)
<1> DEFINE s1 == Tail(s)
           r1 == r \o rep
<1>1. Free(s, DownMarks) => Free(s1, DownMarks)
  BY TailFree
<1>2. ASSUME NEW m \in {Start, AskHash, End}, Single(s, DownMarks, m)
      PROVE  Single(s1, DownMarks, m)
  BY <1>2, TailSingle, Messages DEF DownMarks
<1>3. ASSUME NEW k \in Nat, Single(s, DownMarks, Block(k))  PROVE Single(s1, DownMarks, Block(k))
  BY <1>3, TailSingle, Messages DEF DownMarks
<1>4. ASSUME NEW k \in Nat, Pair(s, DownMarks, Block(k), End)
      PROVE  Pair(s1, DownMarks, Block(k), End)
  BY <1>4, TailPair, Messages DEF DownMarks
<1>5. Pair(s, DownMarks, Start, Block(1)) => Pair(s1, DownMarks, Start, Block(1))
  BY TailPair, Messages DEF DownMarks
<1>6. Free(r, UpMarks) => Free(r1, UpMarks)
  BY FreeFree
<1>7. \A m : Single(r, UpMarks, m) => Single(r1, UpMarks, m)
  BY SingleFree
<1> HIDE DEF s1, r1
<1>8. Ending(N, s, g) => Ending(N, s1, g)
  BY <1>1, <1>2 DEF Ending
<1>9. ASSUME Rests(N, s, r, g)  PROVE Rests(N, s1, r1, g)
  <2>1. CASE Free(r, UpMarks) /\ Ending(N, s, g)
    BY <1>6, <1>8, <2>1 DEF Rests
  <2>2. CASE Free(r, UpMarks) /\ (Single(s, DownMarks, Start) \/ Single(s, DownMarks, AskHash))
    BY <1>2, <1>6, <2>2 DEF Rests
  <2>3. CASE /\ Free(r, UpMarks)
             /\ \E k \in 1..(N + 1) : LastAt(N, k, g) /\ Pair(s, DownMarks, Block(k), End)
    <3>1. PICK k \in 1..(N + 1) : LastAt(N, k, g) /\ Pair(s, DownMarks, Block(k), End)
      BY <2>3
    <3>2. Pair(s1, DownMarks, Block(k), End)
      BY <1>4, <3>1
    <3> QED  BY <1>6, <2>3, <3>1, <3>2 DEF Rests
  <2>4. CASE Single(r, UpMarks, Msg("binaryhash")) /\ Free(s, DownMarks)
    BY <1>1, <1>7, <2>4 DEF Rests
  <2>5. CASE Single(r, UpMarks, Msg("ack")) /\ Ending(N, s, g)
    BY <1>7, <1>8, <2>5 DEF Rests
  <2> QED  BY <1>9, <2>1, <2>2, <2>3, <2>4, <2>5 DEF Rests
<1>10. ASSUME NEW k \in Nat, Blocked(s, r, g, k)  PROVE Blocked(s1, r1, g, k)
  BY <1>1, <1>3, <1>5, <1>6, <1>7, <1>10 DEF Blocked
<1>11. ASSUME NEW k, Reads(s, r, g, k)  PROVE Reads(s1, r1, g, k)
  BY <1>1, <1>2, <1>6, <1>11 DEF Reads
<1>12. Flow(N, u, H, O, R, s1, r1, g)
  BY <1>1, <1>6, <1>9, <1>10, <1>11 DEF Flow
<1> QED  BY <1>12 DEF s1, r1

\* The agent obeys a command of a native update.
LEMMA FlowObeys ==
    ASSUME NEW N \in Nat \ {0}, NEW u, NEW H, NEW O, NEW R, NEW s \in Seq(Msgs),
           NEW r \in Seq(Msgs), NEW g, Flow(N, u, H, O, R, s, r, g), s # <<>>,
           Head(s).type \in DownMarks, NEW rep \in Seq(Msgs), NEW g1,
           Obeyed(N, Head(s), rep, g, g1)
    PROVE  Flow(N, u, H, O, R, Tail(s), r \o rep, g1)
<1> DEFINE s1 == Tail(s)
           r1 == r \o rep
           m == Head(s)
<1>1. ~Free(s, DownMarks)
  BY TailFree
<1>2. \A n : Single(s, DownMarks, n) => m = n /\ Free(s1, DownMarks)
  BY TailSingle
<1>3. \A n, e : Pair(s, DownMarks, n, e) => m = n /\ Single(s1, DownMarks, e)
  BY TailPair
<1>4. rep = <<>> => r1 = r
  OBVIOUS
<1>5. \A n : rep = <<n>> /\ n.type \in UpMarks /\ Free(r, UpMarks) => Single(r1, UpMarks, n)
  <2> SUFFICES ASSUME NEW n, rep = <<n>>, n.type \in UpMarks, Free(r, UpMarks)
               PROVE  Single(r1, UpMarks, n)
    OBVIOUS
  <2>1. Single(rep, UpMarks, n)
    BY DEF Single, SingleAt
  <2> QED  BY <2>1, FreeSingle
<1>6. Msg("ack").type \in UpMarks /\ Msg("binaryhash").type \in UpMarks
  BY DEF Msg, UpMarks
<1> HIDE DEF s1, r1, m
<1>7. Obeyed(N, m, rep, g, g1)
  BY DEF m
<1>8. m = Start => r1 = r /\ g1 = <<>>
  BY <1>4, <1>7 DEF Obeyed
<1>9. m = End => r1 = r /\ g1 = g
  BY <1>4, <1>7 DEF Obeyed
<1>10. m = AskHash /\ Free(r, UpMarks) => Single(r1, UpMarks, Msg("binaryhash"))
  BY <1>5, <1>6, <1>7 DEF Obeyed
<1>11. ASSUME NEW k \in Nat, m = Block(k), Free(r, UpMarks)
       PROVE  Single(r1, UpMarks, Msg("ack")) /\ g1 = IF k <= N THEN Append(g, k) ELSE g
  BY <1>5, <1>6, <1>7, <1>11 DEF Obeyed
<1>12. ASSUME Rests(N, s, r, g)  PROVE Rests(N, s1, r1, g1)
  <2>0. ASSUME Ending(N, s, g)  PROVE Free(s1, DownMarks) /\ r1 = r
    BY <1>1, <1>2, <1>9, <2>0 DEF Ending
  <2>1. CASE Free(r, UpMarks) /\ Ending(N, s, g)
    BY <2>0, <2>1 DEF Rests, Ending
  <2>2. CASE Free(r, UpMarks) /\ Single(s, DownMarks, Start)
    BY <1>2, <1>8, <2>2 DEF Rests, Ending
  <2>3. CASE Free(r, UpMarks) /\ Single(s, DownMarks, AskHash)
    BY <1>2, <1>10, <2>3 DEF Rests
  <2>4. CASE /\ Free(r, UpMarks)
             /\ \E k \in 1..(N + 1) : LastAt(N, k, g) /\ Pair(s, DownMarks, Block(k), End)
    <3>1. PICK k \in 1..(N + 1) : LastAt(N, k, g) /\ Pair(s, DownMarks, Block(k), End)
      BY <2>4
    <3>2. k \in Nat /\ m = Block(k) /\ Single(s1, DownMarks, End)
      BY <1>3, <3>1
    <3>3. Single(r1, UpMarks, Msg("ack")) /\ g1 = IF k <= N THEN Append(g, k) ELSE g
      BY <1>11, <2>4, <3>2
    <3>4. g1 = UpTo(N)
      <4>1. CASE k = N /\ g = UpTo(N - 1)
        <5>1. Append(UpTo(N - 1), N) = UpTo(N)
          BY UpToNext
        <5>2. g1 = Append(g, k)
          BY <3>3, <4>1
        <5> QED  BY <4>1, <5>1, <5>2
      <4>2. CASE k > N /\ g = UpTo(N)
        BY <3>2, <3>3, <4>2
      <4> QED  BY <3>1, <4>1, <4>2 DEF LastAt
    <3> QED  BY <3>2, <3>3, <3>4 DEF Rests, Ending
  <2>5. CASE Single(r, UpMarks, Msg("ack")) /\ Ending(N, s, g)
    BY <2>0, <2>5 DEF Rests, Ending
  <2> QED  BY <1>1, <1>12, <2>1, <2>2, <2>3, <2>4, <2>5 DEF Rests
<1>13. ASSUME NEW k \in 1..N, Blocked(s, r, g, k)  PROVE Blocked(s1, r1, g1, k)
  <2>1. CASE Free(r, UpMarks) /\ k = 1 /\ Pair(s, DownMarks, Start, Block(1))
    <3>1. g1 = UpTo(k - 1) /\ Single(s1, DownMarks, Block(k)) /\ Free(r1, UpMarks)
      BY <1>3, <1>8, <2>1, UpToNone
    <3> QED  BY <3>1 DEF Blocked
  <2>2. CASE Free(r, UpMarks) /\ g = UpTo(k - 1) /\ Single(s, DownMarks, Block(k))
    <3>1. k \in Nat \ {0} /\ m = Block(k) /\ Free(s1, DownMarks)
      BY <1>2, <2>2
    <3>2. Single(r1, UpMarks, Msg("ack")) /\ g1 = Append(g, k)
      BY <1>11, <2>2, <3>1
    <3>3. g1 = UpTo(k)
      BY <2>2, <3>1, <3>2, UpToNext
    <3> QED  BY <3>1, <3>2, <3>3 DEF Blocked
  <2> QED  BY <1>1, <1>13, <2>1, <2>2 DEF Blocked
<1>14. ASSUME NEW k, Reads(s, r, g, k)  PROVE Reads(s1, r1, g1, k)
  <2>1. Free(r, UpMarks) /\ k = 0 /\ Single(s, DownMarks, Start)
    BY <1>1, <1>14 DEF Reads
  <2>2. g1 = UpTo(k) /\ Free(s1, DownMarks) /\ Free(r1, UpMarks)
    BY <1>2, <1>8, <2>1, UpToNone
  <2> QED  BY <2>2 DEF Reads
<1>15. Flow(N, u, H, O, R, s1, r1, g1)
  BY <1>1, <1>12, <1>13, <1>14 DEF Flow
<1> QED  BY <1>15 DEF s1, r1

-----------------------------------------------------------------------------
\* The agent obeys a command.
LEMMA AgentObeysKeeps ==
    ASSUME IInv, NEW a \in Agents, AgentObeys(a)
    PROVE  IInv'
<1> DEFINE m == Head(toAgent[a])
           rep == Reply(a, m)
           d == Obeys(a, dev[a], m)
<1>1. /\ obj \in [Agents -> Objs] /\ toAgent \in [Agents -> Seq(Msgs)] /\ TInv /\ TasksAre
      /\ toServer \in [Agents -> Seq(Msgs)] /\ dev \in [Agents -> Devs]
      /\ \A b \in Agents : Conn(b)
  BY DEF IInv, TInv
<1>2. /\ toAgent[a] # <<>> /\ dev' = [dev EXCEPT ![a] = d]
      /\ toServer' = [toServer EXCEPT ![a] = toServer[a] \o rep]
      /\ toAgent' = [toAgent EXCEPT ![a] = Tail(toAgent[a])]
      /\ obj' = obj /\ current' = current /\ pending' = pending /\ opening' = opening
      /\ sending' = sending /\ reading' = reading /\ files' = files
  BY DEF AgentObeys, IO
<1>3. m \in Msgs /\ Tail(toAgent[a]) \in Seq(Msgs)
  BY <1>1, <1>2, TailAt
<1>4. rep \in Seq(Msgs) /\ d \in Devs
  BY <1>1, <1>3, ReplyIs
<1>5. Obeyed(Blocks[a], m, rep, dev[a].got, d.got)
  BY <1>1, <1>3, AgentObeyed
<1>6. m.type \notin DownMarks => Free(rep, UpMarks) /\ d.got = dev[a].got
  BY <1>5 DEF Obeyed
<1> HIDE DEF m, rep, d
<1>7. TInv'
  <2>1. dev' \in [Agents -> Devs]
    BY <1>1, <1>2, <1>4
  <2>2. toAgent' \in [Agents -> Seq(Msgs)]
    BY <1>1, <1>2, <1>3
  <2>3. toServer' \in [Agents -> Seq(Msgs)]
    <3>1. toServer[a] \o rep \in Seq(Msgs)
      BY <1>1, <1>4
    <3> QED  BY <1>1, <1>2, <3>1
  <2>4. TasksAre'
    BY <1>1, <1>2 DEF TasksAre
  <2>5. PendingIs(pending') /\ (\A t \in opening' : t.kind = "native") /\ reading' \subseteq Agents
    BY <1>1, <1>2 DEF TInv
  <2> QED  BY <1>1, <1>2, <2>1, <2>2, <2>3, <2>4, <2>5 DEF TInv
<1>8. ASSUME NEW b \in Agents, b # a  PROVE Conn(b)'
  <2>1. OpenOf(opening, b)' = OpenOf(opening, b)
    BY <1>2 DEF OpenOf
  <2>2. /\ obj'[b] = obj[b] /\ toAgent'[b] = toAgent[b] /\ Conn(b)
        /\ toServer'[b] = toServer[b] /\ dev'[b].got = dev[b].got
        /\ b \in reading' <=> b \in reading
    BY <1>1, <1>2, <1>8
  <2> QED  BY <1>2, <2>1, <2>2, ConnSame
<1>9. obj[a].authenticated = 2
  <2>1. obj[a].authenticated \in {-1, 1, 2} /\ Conn(a)
    BY <1>1 DEF Objs
  <2> QED  BY <1>2, <2>1 DEF Conn, Before, After
<1>10. FlowOf(a)'
  <2> DEFINE R == a \in reading
             u == obj[a].agentUpdate
             H == HeldAt(pending, a)
             O == OpenOf(opening, a)
             s == toAgent[a]
             r == toServer[a]
             g == dev[a].got
             N == Blocks[a]
             g1 == d.got
  <2>1. Flow(N, u, H, O, R, s, r, g)
    BY <1>1, <1>9 DEF Conn, FlowOf
  <2>2. s \in Seq(Msgs) /\ r \in Seq(Msgs) /\ N \in Nat \ {0} /\ s # <<>>
    BY <1>1, <1>2, Constants1
  <2>3. Obeyed(N, m, rep, g, g1) /\ m = Head(s)
    BY <1>5 DEF m
  <2>4. m.type \notin DownMarks => Free(rep, UpMarks) /\ g1 = g
    BY <1>6
  <2> HIDE DEF R, u, H, O, s, r, g, N, g1
  <2>5. Flow(N, u, H, O, R, Tail(s), r \o rep, g1)
    <3>1. CASE m.type \in DownMarks
      BY <1>4, <2>1, <2>2, <2>3, <3>1, FlowObeys
    <3>2. CASE m.type \notin DownMarks
      <4>1. Flow(N, u, H, O, R, Tail(s), r \o rep, g)
        BY <1>4, <2>1, <2>2, <2>3, <2>4, <3>2, FlowPasses
      <4> QED  BY <2>4, <3>2, <4>1
    <3> QED  BY <3>1, <3>2
  <2>6. HeldAt(pending, a)' = H /\ OpenOf(opening, a)' = O /\ (a \in reading' <=> R)
        /\ obj'[a].agentUpdate = u
    BY <1>2 DEF HeldAt, OpenOf, H, O, R, u
  <2>7. toAgent'[a] = Tail(s) /\ toServer'[a] = r \o rep /\ dev'[a].got = g1
    BY <1>1, <1>2 DEF s, r, g1
  <2> DEFINE s1 == toAgent'[a]
             r1 == toServer'[a]
             g2 == dev'[a].got
             R1 == a \in reading'
             u1 == obj'[a].agentUpdate
             H1 == HeldAt(pending, a)'
             O1 == OpenOf(opening, a)'
  <2>8. s1 = Tail(s) /\ r1 = r \o rep /\ g2 = g1 /\ (R1 <=> R) /\ u1 = u /\ H1 = H /\ O1 = O
    BY <2>6, <2>7
  <2> HIDE DEF s1, r1, g2, R1, u1, H1, O1
  <2>9. Flow(N, u1, H1, O1, R1, s1, r1, g2)
    BY <2>5, <2>8 DEF Flow
  <2> QED  BY <2>9 DEF FlowOf, N, s1, r1, g2, R1, u1, H1, O1
<1>11. Conn(a)'
  BY <1>2, <1>9, <1>10 DEF Conn
<1> QED  BY <1>7, <1>8, <1>11 DEF IInv

\* The agent says something of no account, of its own accord.
LEMMA SaysKeep ==
    ASSUME IInv, NEW a \in Agents, NEW type \in Types \ {"core"}, type \notin UpMarks,
           AgentSays(a, type), dev' \in [Agents -> Devs],
           \A b \in Agents : dev'[b].got = dev[b].got
    PROVE  IInv'
<1> DEFINE x == <<Msg(type)>>
<1>1. /\ obj \in [Agents -> Objs] /\ toAgent \in [Agents -> Seq(Msgs)] /\ TInv /\ TasksAre
      /\ toServer \in [Agents -> Seq(Msgs)] /\ dev \in [Agents -> Devs]
      /\ \A b \in Agents : Conn(b)
  BY DEF IInv, TInv
<1>2. Msg(type) \in Msgs /\ Msg(type).type = type
  BY Messages
<1>3. x \in Seq(Msgs) /\ Free(x, UpMarks)
  BY <1>2 DEF Free
<1>4. /\ Ready(obj, a) /\ toServer' = [toServer EXCEPT ![a] = toServer[a] \o x]
      /\ toAgent' = toAgent
      /\ obj' = obj /\ current' = current /\ pending' = pending /\ opening' = opening
      /\ sending' = sending /\ reading' = reading /\ files' = files
  <2>1. Append(toServer[a], Msg(type)) = toServer[a] \o x
    BY <1>1, <1>2
  <2>2. toServer' = [toServer EXCEPT ![a] = Append(toServer[a], Msg(type))]
    BY DEF AgentSays
  <2> HIDE DEF x
  <2> QED  BY <2>1, <2>2 DEF AgentSays, IO
<1> HIDE DEF x
<1>5. toServer' \in [Agents -> Seq(Msgs)] /\ toServer'[a] = toServer[a] \o x
      /\ \A b \in Agents \ {a} : toServer'[b] = toServer[b]
  <2>1. toServer[a] \o x \in Seq(Msgs)
    BY <1>1, <1>3
  <2> QED  BY <1>1, <1>4, <2>1
<1>6. TInv'
  <2>1. TasksAre'
    BY <1>1, <1>4 DEF TasksAre
  <2>2. PendingIs(pending') /\ (\A t \in opening' : t.kind = "native") /\ reading' \subseteq Agents
    BY <1>1, <1>4 DEF TInv
  <2> QED  BY <1>1, <1>4, <1>5, <2>1, <2>2 DEF TInv
<1>7. \A b \in Agents : OpenOf(opening, b)' = OpenOf(opening, b)
  BY <1>4 DEF OpenOf
<1>8. ASSUME NEW b \in Agents, b # a  PROVE Conn(b)'
  <2>1. /\ obj'[b] = obj[b] /\ toAgent'[b] = toAgent[b] /\ Conn(b)
        /\ toServer'[b] = toServer[b] /\ dev'[b].got = dev[b].got
        /\ b \in reading' <=> b \in reading
    BY <1>1, <1>4, <1>5, <1>8
  <2> QED  BY <1>4, <1>7, <2>1, ConnSame
<1>9. FlowOf(a)'
  <2> DEFINE R == a \in reading
             u == obj[a].agentUpdate
             H == HeldAt(pending, a)
             O == OpenOf(opening, a)
             s == toAgent[a]
             r == toServer[a]
             g == dev[a].got
             N == Blocks[a]
  <2>1. Flow(N, u, H, O, R, s, r, g)
    BY <1>1, <1>4 DEF Conn, FlowOf, Ready
  <2>2. s \in Seq(Msgs) /\ r \in Seq(Msgs)
    BY <1>1
  <2> HIDE DEF R, u, H, O, s, r, g, N
  <2>3. Passed(r, r \o x)
    <3>1. Free(r, UpMarks) => Free(r \o x, UpMarks)
      BY <1>3, <2>2, FreeFree
    <3>2. \A m : Single(r, UpMarks, m) => Single(r \o x, UpMarks, m)
      BY <1>3, <2>2, SingleFree
    <3>3. r \o x \in Seq(Msgs)
      BY <1>3, <2>2
    <3> QED  BY <3>1, <3>2, <3>3 DEF Passed
  <2>4. Flow(N, u, H, O, R, s, r \o x, g)
    <3>1. /\ Free(r, UpMarks) => Free(r \o x, UpMarks)
          /\ Single(r, UpMarks, Msg("binaryhash")) => Single(r \o x, UpMarks, Msg("binaryhash"))
          /\ Single(r, UpMarks, Msg("ack")) => Single(r \o x, UpMarks, Msg("ack"))
      BY <2>3 DEF Passed
    <3> DEFINE r1 == r \o x
    <3> HIDE DEF r1
    <3>2. /\ Free(r, UpMarks) => Free(r1, UpMarks)
          /\ Single(r, UpMarks, Msg("binaryhash")) => Single(r1, UpMarks, Msg("binaryhash"))
          /\ Single(r, UpMarks, Msg("ack")) => Single(r1, UpMarks, Msg("ack"))
      BY <3>1 DEF r1
    <3>3. Rests(N, s, r, g) => Rests(N, s, r1, g)
      BY <3>2 DEF Rests
    <3>4. \A k : Blocked(s, r, g, k) => Blocked(s, r1, g, k)
      BY <3>2 DEF Blocked
    <3>5. \A k : Reads(s, r, g, k) => Reads(s, r1, g, k)
      BY <3>2 DEF Reads
    <3>6. Flow(N, u, H, O, R, s, r1, g)
      BY <2>1, <3>2, <3>3, <3>4, <3>5 DEF Flow
    <3> QED  BY <3>6 DEF r1
  <2> DEFINE s1 == toAgent'[a]
             r1 == toServer'[a]
             g1 == dev'[a].got
             R1 == a \in reading'
             u1 == obj'[a].agentUpdate
             H1 == HeldAt(pending, a)'
             O1 == OpenOf(opening, a)'
  <2>5. s1 = s /\ r1 = r \o x /\ g1 = g /\ (R1 <=> R) /\ u1 = u /\ H1 = H /\ O1 = O
    <3>1. H1 = H
      BY <1>4 DEF HeldAt, H
    <3>2. r1 = r \o x
      BY <1>5 DEF r
    <3>3. s1 = s /\ (R1 <=> R) /\ u1 = u
      BY <1>4 DEF s, R, u
    <3>4. g1 = g /\ O1 = O
      BY <1>7 DEF g, O
    <3> QED  BY <3>1, <3>2, <3>3, <3>4
  <2> HIDE DEF s1, r1, g1, R1, u1, H1, O1
  <2>6. Flow(N, u1, H1, O1, R1, s1, r1, g1)
    BY <2>4, <2>5 DEF Flow
  <2> QED  BY <2>6 DEF FlowOf, N, s1, r1, g1, R1, u1, H1, O1
<1>10. Conn(a)'
  BY <1>4, <1>9 DEF Conn, Ready
<1> QED  BY <1>6, <1>8, <1>10 DEF IInv

-----------------------------------------------------------------------------
\* A user asks the agent to update.
LEMMA UserUpdatesKeeps ==
    ASSUME IInv, NEW a \in Agents, UserUpdates(a)
    PROVE  IInv'
<1>1. AgentSays(a, "wantsupdate") /\ dev' = dev /\ dev \in [Agents -> Devs]
  BY DEF UserUpdates, IInv, TInv
<1>2. "wantsupdate" \in Types \ {"core"} /\ "wantsupdate" \notin UpMarks
  BY DEF Types, UpMarks
<1> QED  BY <1>1, <1>2, SaysKeep

\* The agent downloads its new binary.
LEMMA AgentDownloadsKeeps ==
    ASSUME IInv, NEW a \in Agents, AgentDownloads(a)
    PROVE  IInv'
<1>1. dev \in [Agents -> Devs] /\ TInv /\ \A b \in Agents : Conn(b)
  BY DEF IInv, TInv
<1>2. ASSUME NEW v \in {"fetched", "failed"}, dev' = [dev EXCEPT ![a].binary = v]
      PROVE  dev' \in [Agents -> Devs] /\ \A b \in Agents : dev'[b].got = dev[b].got
  BY <1>1, <1>2 DEF Devs
<1>3. CASE dev' = [dev EXCEPT ![a].binary = "fetched"] /\ AgentSays(a, "downloaded")
  <2>1. "downloaded" \in Types \ {"core"} /\ "downloaded" \notin UpMarks
    BY DEF Types, UpMarks
  <2> QED  BY <1>2, <1>3, <2>1, SaysKeep
<1>4. CASE /\ dev' = [dev EXCEPT ![a].binary = "failed"]
           /\ UNCHANGED <<obj, current, pending, opening, sending, IO, toAgent, toServer>>
  <2>1. /\ obj' = obj /\ current' = current /\ pending' = pending /\ opening' = opening
        /\ sending' = sending /\ reading' = reading /\ files' = files
        /\ toAgent' = toAgent /\ toServer' = toServer
    BY <1>4 DEF IO
  <2>2. dev' \in [Agents -> Devs] /\ \A b \in Agents : dev'[b].got = dev[b].got
    BY <1>2, <1>4
  <2>3. TInv'
    <3>1. TasksAre'
      BY <1>1, <2>1 DEF TInv, TasksAre
    <3> QED  BY <1>1, <2>1, <2>2, <3>1 DEF TInv
  <2>4. ASSUME NEW b \in Agents  PROVE Conn(b)'
    <3>1. OpenOf(opening, b)' = OpenOf(opening, b)
      BY <2>1 DEF OpenOf
    <3> QED  BY <1>1, <2>1, <2>2, <3>1, ConnSame
  <2> QED  BY <2>3, <2>4 DEF IInv
<1> QED  BY <1>3, <1>4 DEF AgentDownloads

\* The invariant holds at first,
LEMMA InitIInv == Init => IInv
<1> SUFFICES ASSUME Init  PROVE IInv
  OBVIOUS
<1>1. NewObj(1) \in Objs
  BY DEF NewObj, Objs
<1>2. ASSUME NEW a \in Agents  PROVE NewAgent(a) \in Devs
  BY Constants1 DEF NewAgent, Devs
<1>3. TInv
  <2>1. TasksAre
    BY FS_EmptySet DEF TasksAre, Init
  <2>2. PendingIs(pending)
    BY DEF PendingIs, Init
  <2>3. toAgent \in [Agents -> Seq(Msgs)] /\ toServer \in [Agents -> Seq(Msgs)]
    BY DEF Init
  <2>4. dev \in [Agents -> Devs] /\ obj \in [Agents -> Objs]
    BY <1>1, <1>2 DEF Init
  <2> QED  BY <2>1, <2>2, <2>3, <2>4 DEF TInv, Init
<1>4. ASSUME NEW a \in Agents  PROVE Conn(a)
  <2>1. obj[a].authenticated = 1 /\ obj[a].agentUpdate = None
    BY DEF Init, NewObj
  <2>2. HeldAt(pending, a) = {}
    BY DEF Init, HeldAt
  <2>3. OpenOf(opening, a) = {}
    BY DEF Init, OpenOf
  <2>4. Before(a)
    BY <2>1, <2>2, <2>3 DEF Before, Init
  <2> QED  BY <2>1, <2>4 DEF Conn
<1> QED  BY <1>3, <1>4 DEF IInv

\* every step keeps it,
LEMMA NextIInv ==
    ASSUME IInv, Next
    PROVE  IInv'
<1>1. ASSUME NEW a \in Agents, Connect(a)  PROVE IInv'
  BY <1>1, ConnectKeeps
<1>2. ASSUME NEW a \in Agents, BinaryHash(a)  PROVE IInv'
  BY <1>2, BinaryHashKeeps
<1>3. ASSUME NEW a \in Agents, HashOfCore(a)  PROVE IInv'
  BY <1>3, HashOfCoreKeeps
<1>4. ASSUME NEW a \in Agents, BlockTaken(a)  PROVE IInv'
  BY <1>4, BlockTakenKeeps
<1>5. ASSUME NEW a \in Agents, FileRead(a)  PROVE IInv'
  BY <1>5, FileReadKeeps
<1>6. ASSUME NEW a \in Agents, CoreInfo(a)  PROVE IInv'
  BY <1>6, CoreInfoKeeps
<1>7. ASSUME NEW a \in Agents, WantsUpdate(a)  PROVE IInv'
  BY <1>7, WantsUpdateKeeps
<1>8. ASSUME NEW a \in Agents, Downloaded(a)  PROVE IInv'
  BY <1>8, DownloadedKeeps
<1>9. ASSUME NEW a \in Agents, Close(a)  PROVE IInv'
  BY <1>9, CloseKeeps
<1>10. ASSUME NEW a \in Agents, AgentObeys(a)  PROVE IInv'
  BY <1>10, AgentObeysKeeps
<1>11. ASSUME NEW a \in Agents, AgentDownloads(a)  PROVE IInv'
  BY <1>11, AgentDownloadsKeeps
<1>12. ASSUME NEW a \in Agents, UserUpdates(a)  PROVE IInv'
  BY <1>12, UserUpdatesKeeps
<1>13. ASSUME NEW a \in Agents, NEW c \in UserCores, AsksFor(a, c)  PROVE IInv'
  BY <1>13, AsksForKeeps
<1>14. ASSUME NEW t, FileOpened(t)  PROVE IInv'
  BY <1>14, FileOpenedKeeps
<1>15. ASSUME NEW t, CoreSent(t)  PROVE IInv'
  BY <1>15, CoreSentKeeps
<1>16. ASSUME NEW t, Clean(t)  PROVE IInv'
  BY <1>16, CleanKeeps
<1> QED
  BY <1>1, <1>2, <1>3, <1>4, <1>5, <1>6, <1>7, <1>8, <1>9, <1>10, <1>11, <1>12, <1>13,
     <1>14, <1>15, <1>16, Zenon DEF Next

\* so does a step that changes nothing,
LEMMA StutterIInv ==
    ASSUME IInv, UNCHANGED vars
    PROVE  IInv'
<1>1. /\ obj' = obj /\ current' = current /\ pending' = pending /\ opening' = opening
      /\ sending' = sending /\ reading' = reading /\ files' = files
      /\ toAgent' = toAgent /\ toServer' = toServer /\ dev' = dev
  BY DEF vars
<1>2. TInv /\ \A b \in Agents : Conn(b)
  BY DEF IInv
<1>3. TInv'
  <2>1. TasksAre'
    BY <1>1, <1>2 DEF TInv, TasksAre
  <2> QED  BY <1>1, <1>2, <2>1 DEF TInv
<1>4. ASSUME NEW b \in Agents  PROVE Conn(b)'
  <2>1. OpenOf(opening, b)' = OpenOf(opening, b)
    BY <1>1 DEF OpenOf
  <2> QED  BY <1>1, <1>2, <2>1, ConnSame
<1> QED  BY <1>3, <1>4 DEF IInv

\* and so it holds for ever.
THEOREM Inductive == Spec => []IInv
<1>1. IInv /\ [Next]_vars => IInv'
  BY NextIInv, StutterIInv
<1> QED  BY InitIInv, <1>1, PTL DEF Spec

\* Every variable keeps its type, whatever connects, closes, is read or is launched.
THEOREM TypesAreKept == Spec => []TypeOK
<1>1. IInv => TypeOK
  BY IInvTypeOK
<1> QED  BY Inductive, <1>1, PTL

\* A connection that is closed is given no update, no task and no command any
\* more, though the tasks that wait for it, and the callbacks of its file, come later.
THEOREM NothingStartsAfterClose == Spec => []NothingAfterClose
<1>1. IInv => NothingAfterClose
  BY IInvNothingAfterClose
<1> QED  BY Inductive, <1>1, PTL

\* One thing at a time is under way of a native update, a block, its
\* acknowledgement or a read; and an agent that is told the end has every block of
\* its new binary, once and in order, whatever the task limiter held, started or
\* took back meanwhile.
THEOREM UpdateStaysSound == Spec => []UpdateIsSound
<1>1. IInv => UpdateIsSound
  BY IInvUpdateIsSound
<1> QED  BY Inductive, <1>1, PTL

-----------------------------------------------------------------------------
(***************************************************************************)
(* The sessions, for every set of connections and devices, every choice of *)
(* temporary and recovery agents and every limit: the inductive invariant, *)
(* the safety invariants that follow from it, and that AgentSession        *)
(* implements AgentPresence.                                               *)
(***************************************************************************)

\* How far a connection is agrees with what it received: it is verified by
\* commands 1 and 2, completes with all three, is pending from then until its
\* answer, and what was closed is never open again.
Progress ==
    \A a \in Agents :
        /\ auth[a] = 1 => {1, 2} \subseteq received[a]
        /\ auth[a] = 2 => received[a] = Commands
        /\ a \in awaited => received[a] = Commands /\ auth[a] \in {-1, 1}
        /\ lookup[a] # "none" => a \in awaited
        /\ auth[a] # 0 => socket[a] # "new"
        /\ auth[a] = -1 => socket[a] \in {"mute", "closed"}

\* A recovery agent is never in service, nor on its way to it.
NoRecovery ==
    /\ awaited \cap Recovery = {}
    /\ \A n \in Nodes : wsagents[n] \notin Recovery

SessionIInv == SessionTypeOK /\ ListedIsReady /\ ConnIsListed /\ ReadyIsListed /\ Progress
            /\ NoRecovery

-----------------------------------------------------------------------------
\* The facts about the constants, and the parts of the invariant, that every
\* step needs.
LEMMA SessionInvParts ==
    ASSUME SessionIInv
    PROVE  /\ NodeOf \in [Agents -> Nodes] /\ None \notin Agents
           /\ socket \in [Agents -> Sockets]
           /\ received \in [Agents -> SUBSET Commands]
           /\ keyed \subseteq Agents
           /\ auth \in [Agents -> {-1, 0, 1, 2}]
           /\ awaited \subseteq Agents
           /\ lookup \in [Agents -> Lookups]
           /\ wsagents \in [Nodes -> Agents \cup {None}]
           /\ conn \in [Nodes -> BOOLEAN]
           /\ devices \subseteq Nodes
  BY AgentAssumption DEF SessionIInv, SessionTypeOK

\* The initial state satisfies the invariant.
THEOREM SessionInitInv == SessionInit => SessionIInv
  BY AgentAssumption
  DEF SessionInit, SessionIInv, SessionTypeOK, ListedIsReady, ConnIsListed, ReadyIsListed, Progress,
      NoRecovery, Sockets, Lookups, Commands

-----------------------------------------------------------------------------
\* The connections that are closed along with a are of a's device, and
\* whatever is in service of another device is not among them.
LEMMA VictimsOfDevice ==
    ASSUME SessionIInv, NEW a \in Agents
    PROVE  /\ a \in Victims(a, wsagents[NodeOf[a]])
           /\ \A c \in Victims(a, wsagents[NodeOf[a]]) :
                 /\ c \in Agents /\ NodeOf[c] = NodeOf[a]
                 /\ c = a \/ c = wsagents[NodeOf[a]]
  BY SessionInvParts DEF Victims, SessionIInv, ListedIsReady

\* obj.close keeps the invariant, whichever connections it closes.
LEMMA CloseKeepsInv ==
    ASSUME SessionIInv, NEW a \in Agents, CloseAgent(a, "closed"),
           socket[a] \in {"open", "mute"}, devices' \subseteq Nodes
    PROVE  SessionIInv'
<1> DEFINE n == NodeOf[a]
           victims == Victims(a, wsagents[n])
<1>1. /\ a \in victims
      /\ \A c \in victims : /\ c \in Agents /\ NodeOf[c] = n
                            /\ c = a \/ c = wsagents[n]
  BY VictimsOfDevice
<1>2. /\ socket' = [c \in Agents |-> IF c \in victims THEN "closed"
                                     ELSE socket[c]]
      /\ auth' = [c \in Agents |-> IF c \in victims THEN -1 ELSE auth[c]]
      /\ wsagents' = [wsagents EXCEPT ![n] =
                         IF wsagents[n] \in victims THEN None ELSE @]
      /\ conn' = [conn EXCEPT ![n] = @ /\ ~(wsagents[n] \in victims)]
      /\ UNCHANGED <<received, keyed, awaited, lookup>>
  BY <1>1 DEF CloseAgent, EndsService
<1> HIDE DEF victims
<1>3. SessionTypeOK'
  BY <1>2, SessionInvParts DEF SessionTypeOK, Sockets
<1>4. ListedIsReady'
  BY <1>1, <1>2, SessionInvParts DEF SessionIInv, ListedIsReady
<1>5. ConnIsListed'
  <2>1. ASSUME NEW m \in Nodes PROVE conn'[m] <=> wsagents'[m] # None
    <3>1. conn[m] <=> wsagents[m] # None
      BY DEF SessionIInv, ConnIsListed
    <3>2. CASE m # n
      BY <1>2, <3>1, <3>2, SessionInvParts
    <3>3. CASE m = n /\ wsagents[n] \in victims
      BY <1>2, <3>3, SessionInvParts
    <3>4. CASE m = n /\ ~(wsagents[n] \in victims)
      BY <1>2, <3>1, <3>4, SessionInvParts
    <3> QED BY <3>2, <3>3, <3>4
  <2> QED BY <2>1 DEF ConnIsListed
<1>6. ReadyIsListed'
  BY <1>1, <1>2, SessionInvParts DEF SessionIInv, ReadyIsListed
<1>7. Progress'
  BY <1>1, <1>2, SessionInvParts DEF SessionIInv, Progress
<1>8. NoRecovery'
  BY <1>2, SessionInvParts, AgentAssumption DEF SessionIInv, NoRecovery
<1> QED BY <1>3, <1>4, <1>5, <1>6, <1>7, <1>8 DEF SessionIInv

\* A connection that waits for the database is not the one in service.
LEMMA WaitingIsNotListed ==
    ASSUME SessionIInv, NEW a \in Agents, lookup[a] # "none"
    PROVE  /\ a \in awaited /\ a \notin Recovery /\ received[a] = Commands
           /\ auth[a] # 2 /\ \A n \in Nodes : wsagents[n] # a
  BY SessionInvParts DEF SessionIInv, Progress, NoRecovery, ListedIsReady

\* What EnterService does, in terms of the connection it replaces and of
\* whether the new connection is closed along with it.
LEMMA EnterEffect ==
    ASSUME SessionIInv, NEW a \in Agents, NEW known \in SUBSET Nodes,
           EnterService(a, known), lookup[a] # "none"
    PROVE  LET n == NodeOf[a]
               old == wsagents[n]
               removed == old # None /\ Removes(old)
           IN  /\ old # a
               /\ wsagents' = [wsagents EXCEPT ![n] =
                                 IF removed THEN None ELSE a]
               /\ conn' = [conn EXCEPT ![n] = ~removed]
               /\ socket' = [c \in Agents |->
                     IF c = old THEN "mute"
                     ELSE IF c = a /\ removed THEN "closed" ELSE socket[c]]
               /\ auth' = [c \in Agents |-> IF c = a THEN 2
                                            ELSE IF c = old THEN -1 ELSE auth[c]]
               /\ devices' \subseteq Nodes
               /\ awaited' = awaited \ {a}
               /\ lookup' = [lookup EXCEPT ![a] = "none"]
               /\ UNCHANGED <<received, keyed>>
<1> DEFINE n == NodeOf[a]
           old == wsagents[n]
           removed == old # None /\ Removes(old)
           victims == IF old = None THEN {} ELSE Victims(old, a)
<1>1. old # a /\ n \in Nodes /\ a # None
  BY WaitingIsNotListed, SessionInvParts
<1>2. a \in victims <=> removed
  BY <1>1 DEF Victims
<1>3. /\ wsagents' = [wsagents EXCEPT ![n] = IF a \in victims THEN None ELSE a]
      /\ conn' = [conn EXCEPT ![n] = a \notin victims]
      /\ socket' = [c \in Agents |->
                      CASE c = old -> "mute"
                        [] c = a /\ a \in victims -> "closed"
                        [] OTHER -> socket[c]]
      /\ auth' = [c \in Agents |->
                    CASE c = a -> 2
                      [] c = old -> -1
                      [] OTHER -> auth[c]]
      /\ devices' = IF old = None THEN known ELSE Kept(old, known)
      /\ awaited' = awaited \ {a}
      /\ lookup' = [lookup EXCEPT ![a] = "none"]
      /\ UNCHANGED <<received, keyed>>
  BY DEF EnterService, ShownAfter, AuthOfReplaced
<1>4. devices' \subseteq Nodes
  BY <1>3 DEF Kept
<1> HIDE DEF victims
<1>5. /\ wsagents' = [wsagents EXCEPT ![n] = IF removed THEN None ELSE a]
      /\ conn' = [conn EXCEPT ![n] = ~removed]
  BY <1>2, <1>3
<1>6. socket' = [c \in Agents |->
                    IF c = old THEN "mute"
                    ELSE IF c = a /\ removed THEN "closed" ELSE socket[c]]
  BY <1>1, <1>2, <1>3
<1>7. auth' = [c \in Agents |-> IF c = a THEN 2
                                ELSE IF c = old THEN -1 ELSE auth[c]]
  BY <1>1, <1>3
<1> QED BY <1>1, <1>3, <1>4, <1>5, <1>6, <1>7

\* completeAgentConnection3 keeps the invariant, also when it closes the very
\* connection that it marks ready.
LEMMA EnterKeepsInv ==
    ASSUME SessionIInv, NEW a \in Agents, NEW known \in SUBSET Nodes,
           EnterService(a, known), lookup[a] # "none", socket[a] = "open"
    PROVE  SessionIInv'
<1> DEFINE n == NodeOf[a]
           old == wsagents[n]
           removed == old # None /\ Removes(old)
<1>1. /\ old # a
      /\ wsagents' = [wsagents EXCEPT ![n] = IF removed THEN None ELSE a]
      /\ conn' = [conn EXCEPT ![n] = ~removed]
      /\ socket' = [c \in Agents |->
                      IF c = old THEN "mute"
                      ELSE IF c = a /\ removed THEN "closed" ELSE socket[c]]
      /\ auth' = [c \in Agents |-> IF c = a THEN 2
                                   ELSE IF c = old THEN -1 ELSE auth[c]]
      /\ devices' \subseteq Nodes
      /\ awaited' = awaited \ {a}
      /\ lookup' = [lookup EXCEPT ![a] = "none"]
      /\ UNCHANGED <<received, keyed>>
  BY EnterEffect
<1>2. /\ a \in awaited /\ a \notin Recovery /\ received[a] = Commands
      /\ \A m \in Nodes : wsagents[m] # a
  BY WaitingIsNotListed
<1> HIDE DEF removed
<1>3. SessionTypeOK'
  BY <1>1, SessionInvParts DEF SessionTypeOK, Sockets, Lookups
<1>4. ListedIsReady'
  BY <1>1, <1>2, SessionInvParts DEF SessionIInv, ListedIsReady
<1>5. ConnIsListed'
  <2>1. ASSUME NEW m \in Nodes PROVE conn'[m] <=> wsagents'[m] # None
    <3>1. conn[m] <=> wsagents[m] # None
      BY DEF SessionIInv, ConnIsListed
    <3>2. CASE m # n
      BY <1>1, <3>1, <3>2, SessionInvParts
    <3>3. CASE m = n /\ removed
      BY <1>1, <3>3, SessionInvParts
    <3>4. CASE m = n /\ ~removed
      BY <1>1, <3>4, SessionInvParts
    <3> QED BY <3>2, <3>3, <3>4
  <2> QED BY <2>1 DEF ConnIsListed
<1>6. ReadyIsListed'
  BY <1>1, <1>2, SessionInvParts DEF SessionIInv, ReadyIsListed
<1>7. Progress'
  BY <1>1, <1>2, SessionInvParts DEF SessionIInv, Progress
<1>8. NoRecovery'
  BY <1>1, <1>2, SessionInvParts, AgentAssumption DEF SessionIInv, NoRecovery
<1> QED BY <1>3, <1>4, <1>5, <1>6, <1>7, <1>8 DEF SessionIInv

\* An answer of the database that only moves its lookup on keeps the invariant.
LEMMA LookupKeepsInv ==
    ASSUME SessionIInv, NEW a \in Agents, NEW l \in Lookups, lookup[a] # "none",
           Stops(a, l)
    PROVE  SessionIInv'
<1>1. /\ lookup' = [lookup EXCEPT ![a] = l]
      /\ UNCHANGED <<socket, received, keyed, auth, awaited, wsagents, conn,
                     devices>>
  BY DEF Stops
<1>2. a \in awaited
  BY WaitingIsNotListed
<1>3. SessionTypeOK'
  BY <1>1, SessionInvParts DEF SessionTypeOK
<1>4. Progress'
  BY <1>1, <1>2, SessionInvParts DEF SessionIInv, Progress
<1>5. ListedIsReady' /\ ConnIsListed' /\ ReadyIsListed' /\ NoRecovery'
  BY <1>1 DEF SessionIInv, ListedIsReady, ConnIsListed, ReadyIsListed, NoRecovery
<1> QED BY <1>3, <1>4, <1>5 DEF SessionIInv

\* A command never reaches a connection that is pending or ready; it can make
\* a recovery agent ready, and no other.
LEMMA CommandEffect ==
    ASSUME SessionIInv, NEW a \in Agents, NEW k \in Commands, Command(a, k)
    PROVE  /\ socket[a] = "open" /\ auth[a] \in {0, 1} /\ a \notin awaited
           /\ received' = [received EXCEPT ![a] = @ \cup {k}]
           /\ keyed' \subseteq Agents
           /\ \/ /\ auth' \in {auth, [auth EXCEPT ![a] = 1]}
                 /\ auth'[a] = 1 => {1, 2} \subseteq received'[a]
                 /\ UNCHANGED <<awaited, lookup>>
              \/ /\ a \in Recovery /\ received'[a] = Commands
                 /\ auth' = [auth EXCEPT ![a] = 2]
                 /\ UNCHANGED <<awaited, lookup>>
              \/ /\ a \notin Recovery /\ received'[a] = Commands
                 /\ auth' = [auth EXCEPT ![a] = 1]
                 /\ awaited' = awaited \cup {a}
                 /\ \E l \in Lookups : lookup' = [lookup EXCEPT ![a] = l]
           /\ UNCHANGED <<socket, wsagents, conn, devices>>
<1>1. /\ socket[a] = "open" /\ k \notin received[a]
      /\ received' = [received EXCEPT ![a] = @ \cup {k}]
      /\ UNCHANGED <<socket, wsagents, conn, devices>>
  BY DEF Command
<1>2. /\ received'[a] = received[a] \cup {k}
      /\ received[a] # Commands
  BY <1>1, SessionInvParts
<1>3. auth[a] \in {0, 1} /\ a \notin awaited
  BY <1>1, <1>2, SessionInvParts DEF SessionIInv, Progress
<1>4. PICK valid \in BOOLEAN :
        LET signed == Signed(k, received'[a], valid)
            verified == signed \/ auth[a] = 1
        IN  /\ keyed' = IF signed THEN keyed \cup {a} ELSE keyed
            /\ IF verified /\ Completes(k, received'[a]) /\ a \notin awaited
               THEN Complete(a)
               ELSE /\ auth' = [auth EXCEPT ![a] = IF signed THEN 1 ELSE @]
                    /\ UNCHANGED <<awaited, lookup>>
  BY DEF Command
<1> DEFINE signed == Signed(k, received'[a], valid)
<1>5. keyed' \subseteq Agents
  BY <1>4, SessionInvParts
<1>6. (signed \/ auth[a] = 1) => {1, 2} \subseteq received'[a]
  BY <1>2, SessionInvParts DEF Signed, SessionIInv, Progress
<1>7. CASE (signed \/ auth[a] = 1) /\ Completes(k, received'[a])
  <2>1. received'[a] = Commands
    BY <1>2, <1>6, <1>7, SessionInvParts DEF Completes, Commands
  <2>2. Complete(a)
    BY <1>3, <1>4, <1>7
  <2>3. CASE a \in Recovery
    BY <1>1, <1>3, <1>5, <2>1, <2>2, <2>3 DEF Complete
  <2>4. CASE a \notin Recovery
    <3>1. /\ auth' = [auth EXCEPT ![a] = 1]
          /\ awaited' = awaited \cup {a}
          /\ \E l \in Lookups : lookup' = [lookup EXCEPT ![a] = l]
      BY <2>2, <2>4 DEF Complete, Lookups
    <3> QED BY <1>1, <1>3, <1>5, <2>1, <2>4, <3>1
  <2> QED BY <2>3, <2>4
<1>8. CASE ~((signed \/ auth[a] = 1) /\ Completes(k, received'[a]))
  <2>1. /\ auth' = [auth EXCEPT ![a] = IF signed THEN 1 ELSE @]
        /\ UNCHANGED <<awaited, lookup>>
    BY <1>4, <1>8
  <2>2. auth' \in {auth, [auth EXCEPT ![a] = 1]}
    BY <2>1, SessionInvParts
  <2>3. auth'[a] = 1 => {1, 2} \subseteq received'[a]
    BY <1>6, <2>1, SessionInvParts
  <2> QED BY <1>1, <1>3, <1>5, <2>1, <2>2, <2>3
<1> QED BY <1>7, <1>8

\* The commands of an agent keep the invariant.
LEMMA CommandKeepsInv ==
    ASSUME SessionIInv, NEW a \in Agents, NEW k \in Commands, Command(a, k)
    PROVE  SessionIInv'
<1>1. /\ socket[a] = "open" /\ auth[a] \in {0, 1} /\ a \notin awaited
      /\ received' = [received EXCEPT ![a] = @ \cup {k}]
      /\ keyed' \subseteq Agents
      /\ \/ /\ auth' \in {auth, [auth EXCEPT ![a] = 1]}
            /\ auth'[a] = 1 => {1, 2} \subseteq received'[a]
            /\ UNCHANGED <<awaited, lookup>>
         \/ /\ a \in Recovery /\ received'[a] = Commands
            /\ auth' = [auth EXCEPT ![a] = 2]
            /\ UNCHANGED <<awaited, lookup>>
         \/ /\ a \notin Recovery /\ received'[a] = Commands
            /\ auth' = [auth EXCEPT ![a] = 1]
            /\ awaited' = awaited \cup {a}
            /\ \E l \in Lookups : lookup' = [lookup EXCEPT ![a] = l]
      /\ UNCHANGED <<socket, wsagents, conn, devices>>
  BY CommandEffect
<1>2. SessionTypeOK'
  BY <1>1, SessionInvParts DEF SessionTypeOK, Commands
<1>3. \A n \in Nodes : wsagents[n] # a
  BY <1>1, SessionInvParts DEF SessionIInv, ListedIsReady
<1>4. ListedIsReady'
  BY <1>1, <1>3, SessionInvParts DEF SessionIInv, ListedIsReady
<1>5. ConnIsListed'
  BY <1>1 DEF SessionIInv, ConnIsListed
<1>6. ReadyIsListed'
  BY <1>1, SessionInvParts DEF SessionIInv, ReadyIsListed
<1>7. Progress'
  BY <1>1, SessionInvParts DEF SessionIInv, Progress, Commands
<1>8. NoRecovery'
  BY <1>1, SessionInvParts DEF SessionIInv, NoRecovery
<1> QED BY <1>2, <1>4, <1>5, <1>6, <1>7, <1>8 DEF SessionIInv

\* Creating a device leaves the agent held or puts it in service.
LEMMA CreateSplits ==
    ASSUME SessionIInv, NEW a \in Agents, Create(a)
    PROVE  \/ Stops(a, "held")
           \/ \E known \in SUBSET Nodes : EnterService(a, known)
  BY SessionInvParts DEF Create, NoGroup

\* The callback of db.Get only moves the lookup on, or it puts an agent in
\* service that is still there.
LEMMA NodeAnswerSplits ==
    ASSUME SessionIInv, NEW a \in Agents, NodeAnswer(a)
    PROVE  /\ lookup[a] # "none"
           /\ \/ \E l \in Lookups : Stops(a, l)
              \/ /\ socket[a] = "open"
                 /\ \E known \in SUBSET Nodes : EnterService(a, known)
<1>1. lookup[a] # "none"
  BY DEF NodeAnswer
<1>2. CASE Gone(a)
  <2>1. Stops(a, "none")
    BY <1>2 DEF NodeAnswer
  <2> QED BY <1>1, <2>1 DEF Lookups
<1>3. CASE ~Gone(a)
  <2>1. socket[a] = "open"
    BY <1>3 DEF Gone
  <2>2. \/ NoGroup(a) \/ Create(a) \/ Counts(a)
        \/ \E known \in SUBSET Nodes : EnterService(a, known)
    <3>1. \/ NoGroup(a)
          \/ \E changed \in BOOLEAN :
                EnterService(a, IF changed THEN devices \cup {NodeOf[a]}
                                ELSE devices)
          \/ Create(a)
          \/ Counts(a)
      BY <1>3 DEF NodeAnswer
    <3> QED BY <3>1, SessionInvParts
  <2>3. CASE NoGroup(a) \/ Counts(a)
    BY <1>1, <2>3 DEF NoGroup, Counts, Lookups
  <2>4. CASE Create(a)
    BY <1>1, <2>1, <2>4, CreateSplits DEF Lookups
  <2> QED BY <1>1, <2>1, <2>2, <2>3, <2>4
<1> QED BY <1>2, <1>3

\* The same of the callback of isMaxType.
LEMMA CountAnswerSplits ==
    ASSUME SessionIInv, NEW a \in Agents, CountAnswer(a)
    PROVE  /\ lookup[a] # "none"
           /\ \/ \E l \in Lookups : Stops(a, l)
              \/ /\ socket[a] = "open"
                 /\ \E known \in SUBSET Nodes : EnterService(a, known)
<1>1. lookup[a] \in {"under", "over"}
  BY DEF CountAnswer
<1>2. CASE lookup[a] = "over"
  <2>1. Stops(a, "held")
    BY <1>2 DEF CountAnswer
  <2> QED BY <1>1, <2>1 DEF Lookups
<1>3. CASE lookup[a] = "under" /\ socket[a] # "open"
  <2>1. Stops(a, "none")
    BY <1>3 DEF CountAnswer
  <2> QED BY <1>1, <2>1 DEF Lookups
<1>4. CASE lookup[a] = "under" /\ socket[a] = "open"
  <2>1. Create(a)
    BY <1>4 DEF CountAnswer
  <2> QED BY <1>1, <1>4, <2>1, CreateSplits DEF Lookups
<1> QED BY <1>1, <1>2, <1>3, <1>4

\* The devices that are left when a connection closes are devices.
LEMMA KeptDevices ==
    ASSUME SessionIInv, NEW a \in Agents
    PROVE  Kept(a, devices) \subseteq Nodes
  BY SessionInvParts DEF Kept

\* A connection that opens, or one that closes unheard, keeps the invariant.
LEMMA SocketKeepsInv ==
    ASSUME SessionIInv, NEW a \in Agents, SocketOpened(a) \/ MuteCloses(a)
    PROVE  SessionIInv'
<1>1. /\ \/ socket[a] = "new" /\ socket' = [socket EXCEPT ![a] = "open"]
         \/ socket[a] = "mute" /\ socket' = [socket EXCEPT ![a] = "closed"]
      /\ UNCHANGED <<received, keyed, auth, awaited, lookup, wsagents, conn,
                     devices>>
  BY DEF SocketOpened, MuteCloses
<1>2. SessionTypeOK'
  BY <1>1, SessionInvParts DEF SessionTypeOK, Sockets
<1>3. ListedIsReady' /\ ReadyIsListed' /\ Progress'
  BY <1>1, SessionInvParts DEF SessionIInv, ListedIsReady, ReadyIsListed, Progress
<1>4. ConnIsListed' /\ NoRecovery'
  BY <1>1 DEF SessionIInv, ConnIsListed, NoRecovery
<1> QED BY <1>2, <1>3, <1>4 DEF SessionIInv

\* Removing a device closes the connection in service, if there is one.
LEMMA RemoveKeepsInv ==
    ASSUME SessionIInv, NEW n \in Nodes, RemoveDevice(n)
    PROVE  SessionIInv'
<1>1. devices' \subseteq Nodes
  BY SessionInvParts DEF RemoveDevice
<1>2. CASE conn[n]
  <2>1. /\ wsagents[n] \in Agents /\ socket[wsagents[n]] = "open"
    BY <1>2, SessionInvParts DEF SessionIInv, ConnIsListed, ListedIsReady
  <2>2. CloseAgent(wsagents[n], "closed")
    BY <1>2 DEF RemoveDevice
  <2> QED BY <1>1, <2>1, <2>2, CloseKeepsInv
<1>3. CASE ~conn[n]
  <2>1. UNCHANGED <<socket, received, keyed, auth, awaited, lookup, wsagents,
                    conn>>
    BY <1>3 DEF RemoveDevice
  <2>2. SessionTypeOK'
    BY <1>1, <2>1 DEF SessionIInv, SessionTypeOK
  <2> QED BY <2>1, <2>2 DEF SessionIInv, ListedIsReady, ConnIsListed, ReadyIsListed,
                           Progress, NoRecovery
<1> QED BY <1>2, <1>3

\* Every step keeps the invariant.
THEOREM SessionNextInv == SessionIInv /\ [SessionNext]_sessionVars => SessionIInv'
<1> SUFFICES ASSUME SessionIInv, [SessionNext]_sessionVars PROVE SessionIInv'
  OBVIOUS
<1>1. CASE UNCHANGED sessionVars
  BY <1>1 DEF sessionVars, SessionIInv, SessionTypeOK, ListedIsReady, ConnIsListed, ReadyIsListed,
              Progress, NoRecovery
<1>2. ASSUME NEW a \in Agents, SocketOpened(a) \/ MuteCloses(a) PROVE SessionIInv'
  BY <1>2, SocketKeepsInv
<1>3. ASSUME NEW a \in Agents, NEW k \in Commands, Command(a, k) PROVE SessionIInv'
  BY <1>3, CommandKeepsInv
<1>4. ASSUME NEW a \in Agents, DbRead(a) \/ CountRead(a) PROVE SessionIInv'
  <2>1. lookup[a] # "none" /\ \E l \in Lookups : Stops(a, l)
    BY <1>4 DEF DbRead, CountRead, Stops, Lookups
  <2> QED BY <2>1, LookupKeepsInv
<1>5. ASSUME NEW a \in Agents, NodeAnswer(a) \/ CountAnswer(a) PROVE SessionIInv'
  <2>1. /\ lookup[a] # "none"
        /\ \/ \E l \in Lookups : Stops(a, l)
           \/ /\ socket[a] = "open"
              /\ \E known \in SUBSET Nodes : EnterService(a, known)
    BY <1>5, NodeAnswerSplits, CountAnswerSplits
  <2> QED BY <2>1, LookupKeepsInv, EnterKeepsInv
<1>6. ASSUME NEW a \in Agents, SocketClosed(a) \/ MuteIsIdle(a) PROVE SessionIInv'
  <2>1. /\ CloseAgent(a, "closed") /\ socket[a] \in {"open", "mute"}
        /\ devices' \subseteq Nodes
    BY <1>6, KeptDevices DEF SocketClosed, MuteIsIdle
  <2> QED BY <2>1, CloseKeepsInv
<1>7. ASSUME NEW n \in Nodes, RemoveDevice(n) PROVE SessionIInv'
  BY <1>7, RemoveKeepsInv
<1> QED BY <1>1, <1>2, <1>3, <1>4, <1>5, <1>6, <1>7 DEF SessionNext

\* The inductive invariant holds in every reachable state.
THEOREM SessionInvariance == SessionSpec => []SessionIInv
  BY SessionInitInv, SessionNextInv, PTL DEF SessionSpec

\* Every variable of the agent server keeps its type.
THEOREM SessionTypeCorrect == SessionSpec => []SessionTypeOK
<1>1. SessionIInv => SessionTypeOK
  BY DEF SessionIInv
<1> QED BY <1>1, SessionInvariance, PTL

\* Commands are sent to a device only through a connection that is open,
\* authenticated as that device and ready.
THEOREM ServiceIsReady == SessionSpec => []ListedIsReady
<1>1. SessionIInv => ListedIsReady
  BY DEF SessionIInv
<1> QED BY <1>1, SessionInvariance, PTL

\* A device is shown with an agent exactly while it has a connection in
\* service, through every replacement and removal.
THEOREM ShownIsServed == SessionSpec => []ConnIsListed
<1>1. SessionIInv => ConnIsListed
  BY DEF SessionIInv
<1> QED BY <1>1, SessionInvariance, PTL

\* A connection that was replaced or closed does not take itself for ready.
THEOREM ReplacedIsOver == SessionSpec => []ReadyIsListed
<1>1. SessionIInv => ReadyIsListed
  BY DEF SessionIInv
<1> QED BY <1>1, SessionInvariance, PTL

-----------------------------------------------------------------------------
(* AgentSession implements AgentPresence.                                   *)

Serving == {a \in Agents \ Recovery : auth[a] = 2 /\ Open(a)}
Past == {a \in Agents : auth[a] = -1 \/ socket[a] \in {"mute", "closed"}}
Online == {n \in Nodes : conn[n]}

\* The connections in service, as the mapping reads them, are those listed.
LEMMA ServingIsListed ==
    ASSUME SessionIInv
    PROVE  \A a \in Agents : a \in Serving <=> wsagents[NodeOf[a]] = a
  BY SessionInvParts DEF Serving, Open, SessionIInv, ListedIsReady, ReadyIsListed, NoRecovery

\* The close of a connection ends it and what it takes along, in the abstract.
LEMMA CloseMaps ==
    ASSUME SessionIInv, NEW a \in Agents, CloseAgent(a, "closed"),
           socket[a] \in {"open", "mute"}
    PROVE  Presence!Next
<1> DEFINE n == NodeOf[a]
           victims == Victims(a, wsagents[n])
           ended == victims \ Past
<1>1. /\ a \in victims
      /\ \A c \in victims : /\ c \in Agents /\ NodeOf[c] = n
                            /\ c = a \/ c = wsagents[n]
  BY VictimsOfDevice
<1>2. /\ socket' = [c \in Agents |-> IF c \in victims THEN "closed"
                                     ELSE socket[c]]
      /\ auth' = [c \in Agents |-> IF c \in victims THEN -1 ELSE auth[c]]
      /\ conn' = [conn EXCEPT ![n] = @ /\ ~(wsagents[n] \in victims)]
  BY <1>1 DEF CloseAgent, EndsService
<1> HIDE DEF victims
<1>3. ended \cap Past = {} /\ ended \in SUBSET {c \in Agents : NodeOf[c] = n}
  BY <1>1
<1>4. Past' = Past \cup ended
  BY <1>1, <1>2, SessionInvParts DEF Past
<1>5. Serving' = Serving \ ended
  BY <1>1, <1>2, SessionInvParts DEF Serving, Open, Past
<1>6. wsagents[n] \in victims <=> ended \cap Serving # {}
  <2>1. Serving \cap Past = {}
    BY DEF Serving, Past, Open
  <2>2. ASSUME wsagents[n] \in victims PROVE ended \cap Serving # {}
    <3>1. wsagents[n] \in Agents /\ NodeOf[wsagents[n]] = n
      BY <1>1, <2>2
    <3>2. wsagents[n] \in Serving
      BY <3>1, ServingIsListed
    <3> QED BY <2>1, <2>2, <3>2
  <2>3. ASSUME ended \cap Serving # {} PROVE wsagents[n] \in victims
    <3>1. PICK c \in ended : c \in Serving
      BY <2>3
    <3>2. c \in victims /\ c \in Agents /\ NodeOf[c] = n
      BY <1>1, <3>1
    <3> QED BY <3>1, <3>2, ServingIsListed
  <2> QED BY <2>2, <2>3
<1>7. Online' = IF ended \cap Serving # {} THEN Online \ {n} ELSE Online
  BY <1>2, <1>6, SessionInvParts DEF Online
<1>8. n \in {NodeOf[c] : c \in Agents}
  OBVIOUS
<1> HIDE DEF ended
<1>9. PICK m \in {NodeOf[c] : c \in Agents},
           e \in SUBSET {c \in Agents : NodeOf[c] = n} : m = n /\ e = ended
  BY <1>3, <1>8
<1>10. Presence!End(m, e)
  BY <1>3, <1>4, <1>5, <1>7, <1>9 DEF Presence!End, Serving, Past, Online
<1> QED BY <1>9, <1>10 DEF Presence!Next

\* Coming into service is the abstract Serve, or an end of both connections
\* when the old one takes the new one along.
LEMMA EnterMaps ==
    ASSUME SessionIInv, NEW a \in Agents, NEW known \in SUBSET Nodes,
           EnterService(a, known), lookup[a] # "none", socket[a] = "open"
    PROVE  Presence!Next
<1> DEFINE n == NodeOf[a]
           old == wsagents[n]
           removed == old # None /\ Removes(old)
           peers == {b \in Serving : NodeOf[b] = NodeOf[a]}
<1>1. /\ old # a
      /\ conn' = [conn EXCEPT ![n] = ~removed]
      /\ socket' = [c \in Agents |->
                      IF c = old THEN "mute"
                      ELSE IF c = a /\ removed THEN "closed" ELSE socket[c]]
      /\ auth' = [c \in Agents |-> IF c = a THEN 2
                                   ELSE IF c = old THEN -1 ELSE auth[c]]
  BY EnterEffect
<1>2. a \notin Recovery /\ auth[a] # 2
  BY WaitingIsNotListed
<1>3. a \notin Serving \cup Past
  BY <1>2, SessionInvParts DEF SessionIInv, Progress, Serving, Past
<1>4. peers = {old} \ {None}
  <2>1. ASSUME NEW b \in peers PROVE b \in {old} \ {None}
    <3>1. b \in Agents /\ NodeOf[b] = n /\ b \in Serving
      BY DEF Serving
    <3> QED BY <3>1, ServingIsListed, SessionInvParts
  <2>2. ASSUME old # None PROVE old \in peers
    <3>1. old \in Agents /\ NodeOf[old] = n
      BY <2>2, SessionInvParts DEF SessionIInv, ListedIsReady
    <3> QED BY <3>1, ServingIsListed
  <2> QED BY <2>1, <2>2
<1>5. peers \subseteq Agents /\ peers \cap Past = {}
  BY DEF Serving, Past, Open
<1> HIDE DEF removed, peers
<1>6. CASE ~removed
  <2>1. Serving' = (Serving \ peers) \cup {a}
    BY <1>1, <1>2, <1>4, <1>6, SessionInvParts DEF Serving, Open
  <2>2. Past' = Past \cup peers
    BY <1>1, <1>3, <1>4, <1>6, SessionInvParts DEF Past
  <2>3. Online' = Online \cup {n}
    BY <1>1, <1>6, SessionInvParts DEF Online
  <2>4. Presence!Serve(a)
    BY <1>3, <2>1, <2>2, <2>3
    DEF Presence!Serve, Presence!Peers, Serving, Past, Online, peers
  <2> QED BY <2>4 DEF Presence!Next
<1>7. CASE removed
  <2> DEFINE ended == {old, a}
  <2>1. old \in Agents /\ NodeOf[old] = n /\ old \in peers
    BY <1>4, <1>7, SessionInvParts DEF removed, SessionIInv, ListedIsReady
  <2>2. Serving' = Serving \ ended
    BY <1>1, <1>2, <1>7, <2>1, SessionInvParts DEF Serving, Open
  <2>3. Past' = Past \cup ended
    BY <1>1, <1>7, <2>1, SessionInvParts DEF Past
  <2>4. ended \cap Serving # {} /\ ended \cap Past = {}
    BY <1>3, <1>5, <2>1 DEF peers
  <2>5. Online' = Online \ {n}
    BY <1>1, <1>7, SessionInvParts DEF Online
  <2>6. /\ ended \in SUBSET {c \in Agents : NodeOf[c] = n}
        /\ n \in {NodeOf[c] : c \in Agents}
    BY <2>1
  <2> HIDE DEF ended
  <2>7. PICK m \in {NodeOf[c] : c \in Agents},
             e \in SUBSET {c \in Agents : NodeOf[c] = n} : m = n /\ e = ended
    BY <2>6
  <2>8. Presence!End(m, e)
    BY <2>2, <2>3, <2>4, <2>5, <2>7 DEF Presence!End, Serving, Past, Online
  <2> QED BY <2>7, <2>8 DEF Presence!Next
<1> QED BY <1>6, <1>7

\* What leaves the mapped state alone is a stutter of AgentPresence.
LEMMA Stutters ==
    ASSUME Serving' = Serving, Past' = Past, Online' = Online
    PROVE  UNCHANGED Presence!presence
  BY DEF Presence!presence, Serving, Past, Online

\* Every step of AgentSession is a step of AgentPresence or a stutter.
THEOREM StepMaps ==
    SessionIInv /\ [SessionNext]_sessionVars => Presence!Next \/ UNCHANGED Presence!presence
<1> SUFFICES ASSUME SessionIInv, [SessionNext]_sessionVars
             PROVE  Presence!Next \/ UNCHANGED Presence!presence
  OBVIOUS
<1>1. ASSUME UNCHANGED <<socket, auth, conn>>
      PROVE  UNCHANGED Presence!presence
  BY <1>1, Stutters DEF Serving, Past, Online, Open
<1>2. CASE UNCHANGED sessionVars
  BY <1>1, <1>2 DEF sessionVars
<1>3. ASSUME NEW a \in Agents, SocketOpened(a) \/ MuteCloses(a)
      PROVE  UNCHANGED Presence!presence
  <2>1. /\ \/ socket[a] = "new" /\ socket' = [socket EXCEPT ![a] = "open"]
           \/ socket[a] = "mute" /\ socket' = [socket EXCEPT ![a] = "closed"]
        /\ UNCHANGED <<auth, conn>>
    BY <1>3 DEF SocketOpened, MuteCloses
  <2>2. Serving' = Serving /\ Past' = Past /\ Online' = Online
    BY <2>1, SessionInvParts DEF Serving, Past, Online, Open, SessionIInv, Progress
  <2> QED BY <2>2, Stutters
<1>4. ASSUME NEW a \in Agents, NEW k \in Commands, Command(a, k)
      PROVE  UNCHANGED Presence!presence
  <2>1. /\ auth[a] \in {0, 1} /\ UNCHANGED <<socket, conn>>
        /\ \/ auth' \in {auth, [auth EXCEPT ![a] = 1]}
           \/ a \in Recovery /\ auth' = [auth EXCEPT ![a] = 2]
    BY <1>4, CommandEffect
  <2>2. Serving' = Serving /\ Past' = Past /\ Online' = Online
    BY <2>1, SessionInvParts DEF Serving, Past, Online, Open
  <2> QED BY <2>2, Stutters
<1>5. ASSUME NEW a \in Agents, DbRead(a) \/ CountRead(a)
      PROVE  UNCHANGED Presence!presence
  BY <1>1, <1>5 DEF DbRead, CountRead
<1>6. ASSUME NEW a \in Agents, NodeAnswer(a) \/ CountAnswer(a)
      PROVE  Presence!Next \/ UNCHANGED Presence!presence
  <2>1. /\ lookup[a] # "none"
        /\ \/ \E l \in Lookups : Stops(a, l)
           \/ /\ socket[a] = "open"
              /\ \E known \in SUBSET Nodes : EnterService(a, known)
    BY <1>6, NodeAnswerSplits, CountAnswerSplits
  <2>2. ASSUME NEW l \in Lookups, Stops(a, l)
        PROVE  UNCHANGED Presence!presence
    BY <1>1, <2>2 DEF Stops
  <2> QED BY <2>1, <2>2, EnterMaps
<1>7. ASSUME NEW a \in Agents, SocketClosed(a) \/ MuteIsIdle(a) PROVE Presence!Next
  <2>1. CloseAgent(a, "closed") /\ socket[a] \in {"open", "mute"}
    BY <1>7 DEF SocketClosed, MuteIsIdle
  <2> QED BY <2>1, CloseMaps
<1>8. ASSUME NEW n \in Nodes, RemoveDevice(n)
      PROVE  Presence!Next \/ UNCHANGED Presence!presence
  <2>1. CASE conn[n]
    <3>1. wsagents[n] \in Agents /\ socket[wsagents[n]] = "open"
      BY <2>1, SessionInvParts DEF SessionIInv, ConnIsListed, ListedIsReady
    <3>2. CloseAgent(wsagents[n], "closed")
      BY <1>8, <2>1 DEF RemoveDevice
    <3> QED BY <3>1, <3>2, CloseMaps
  <2>2. CASE ~conn[n]
    BY <1>1, <1>8, <2>2 DEF RemoveDevice
  <2> QED BY <2>1, <2>2
<1> QED BY <1>2, <1>3, <1>4, <1>5, <1>6, <1>7, <1>8 DEF SessionNext

\* The agent server keeps the promise of AgentPresence.
THEOREM PresenceIsKept == SessionSpec => PresenceSpec
<1>1. SessionInit => Presence!Init
  BY DEF SessionInit, Presence!Init, Open
<1>2. SessionIInv /\ [SessionNext]_sessionVars => [Presence!Next]_Presence!presence
  BY StepMaps
<1> QED BY <1>1, <1>2, SessionInvariance, PTL DEF SessionSpec, PresenceSpec, Presence!Spec
=============================================================================
