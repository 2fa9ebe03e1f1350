------------------------- MODULE TaskLimiterProofs -------------------------
(***************************************************************************)
(* The task limiter's bookkeeping and its order, for any set of tasks, any *)
(* limits and any durations.                                               *)
(***************************************************************************)
EXTENDS TaskLimiter, FiniteSetTheorems, SequenceTheorems, TLAPS

\* HoldBound is not inductive: a task's remaining time must be compared with
\* the time to the next run of clean.
Aged == \A id \in Ids : current[id].left >= timer - CleaningInterval

IInv == TypeOK /\ SlotAccounting /\ TimerArmed /\ Aged

-----------------------------------------------------------------------------
\* The held tasks, in the order they are taken, form a sequence of tasks, and
\* taking some of them leaves queues of tasks.
LEMMA QueueTypes ==
    ASSUME TypeOK, NEW k \in Nat
    PROVE  /\ Waiting \in Seq(Tasks)
           /\ AfterTaking(k) \in [Priority -> Seq(Tasks)]
<1>1. /\ pending[0] \in Seq(Tasks)
      /\ pending[1] \in Seq(Tasks)
      /\ pending[2] \in Seq(Tasks)
  BY DEF TypeOK, Priority
<1>2. Waiting \in Seq(Tasks)
  BY <1>1 DEF Waiting
<1>3. ASSUME NEW s \in Seq(Tasks), NEW n \in Int
      PROVE  Rest(s, n) \in Seq(Tasks)
  BY DEF Rest
<1>4. /\ Rest(pending[0], k) \in Seq(Tasks)
      /\ Rest(pending[1], k - Len(pending[0])) \in Seq(Tasks)
      /\ Rest(pending[2], k - Len(pending[0]) - Len(pending[1])) \in Seq(Tasks)
  <2>1. k \in Int /\ Len(pending[0]) \in Int /\ Len(pending[1]) \in Int
    BY <1>1
  <2>2. /\ k - Len(pending[0]) \in Int
        /\ k - Len(pending[0]) - Len(pending[1]) \in Int
    BY <2>1
  <2> QED BY <1>1, <1>3, <2>1, <2>2
<1> QED BY <1>2, <1>4 DEF AfterTaking, Priority

\* The tasks that keep their slot are finitely many, and one more task taken
\* is at most one more keeper.
LEMMA KeepersCount ==
    ASSUME NEW k \in Nat
    PROVE  /\ IsFiniteSet(Keepers(k))
           /\ Cardinality(Keepers(k)) \in Nat
           /\ k > 0 => Cardinality(Keepers(k)) <= Cardinality(Keepers(k - 1)) + 1
<1>1. ASSUME NEW j \in Nat
      PROVE  IsFiniteSet(Keepers(j)) /\ Cardinality(Keepers(j)) \in Nat
  <2>1. IsFiniteSet(1..j) /\ Keepers(j) \in SUBSET (1..j)
    BY FS_Interval DEF Keepers
  <2>2. IsFiniteSet(Keepers(j))
    BY <2>1, FS_Subset
  <2> QED BY <2>2, FS_CardinalityType
<1>2. CASE k > 0
  <2>1. Keepers(k) \subseteq Keepers(k - 1) \cup {k}
    BY <1>2 DEF Keepers
  <2>2. /\ IsFiniteSet(Keepers(k - 1) \cup {k})
        /\ Cardinality(Keepers(k - 1) \cup {k}) <= Cardinality(Keepers(k - 1)) + 1
    BY <1>1, <1>2, FS_AddElement
  <2>3. Cardinality(Keepers(k)) <= Cardinality(Keepers(k - 1) \cup {k})
    BY <2>1, <2>2, FS_Subset
  <2>4. Cardinality(Keepers(k)) \in Nat /\ Cardinality(Keepers(k - 1)) \in Nat
    BY <1>1, <1>2
  <2>5. Cardinality(Keepers(k - 1) \cup {k}) \in Nat
    BY <2>2, FS_CardinalityType
  <2> QED BY <1>1, <2>2, <2>3, <2>4, <2>5
<1> QED BY <1>1, <1>2

\* The ids given to a set of positions are as many as the positions.
LEMMA FreshIds ==
    ASSUME NEW K \in SUBSET Nat, IsFiniteSet(K), NEW fresh \in Nat
    PROVE  /\ IsFiniteSet({fresh + i - 1 : i \in K})
           /\ Cardinality({fresh + i - 1 : i \in K}) = Cardinality(K)
<1> DEFINE new == {fresh + i - 1 : i \in K}
           f == [i \in K |-> fresh + i - 1]
<1>1. f \in [K -> new] /\ \A y \in new : \E x \in K : f[x] = y
  OBVIOUS
<1>2. \A x, y \in K : f[x] = f[y] => x = y
  OBVIOUS
<1>3. f \in Bijection(K, new)
  BY <1>1, <1>2 DEF Bijection, Injection, Surjection, IsInjective
<1> QED BY <1>3, FS_Bijection DEF ExistsBijection

\* Taking every held task leaves no task held.
LEMMA EverythingTaken ==
    ASSUME TypeOK, pending' = AfterTaking(Len(Waiting))
    PROVE  Waiting' = <<>>
<1>1. /\ pending[0] \in Seq(Tasks)
      /\ pending[1] \in Seq(Tasks)
      /\ pending[2] \in Seq(Tasks)
  BY DEF TypeOK, Priority
<1>2. Len(Waiting) = Len(pending[0]) + Len(pending[1]) + Len(pending[2])
  BY <1>1 DEF Waiting
<1>3. ASSUME NEW s \in Seq(Tasks), NEW n \in Int, n >= Len(s)
      PROVE  Rest(s, n) = <<>>
  BY <1>3, SubSeqEmpty DEF Rest
<1>4. /\ Len(pending[0]) \in Nat /\ Len(pending[1]) \in Nat
      /\ Len(pending[2]) \in Nat
  BY <1>1
<1>5. /\ Rest(pending[0], Len(Waiting)) = <<>>
      /\ Rest(pending[1], Len(Waiting) - Len(pending[0])) = <<>>
      /\ Rest(pending[2], Len(Waiting) - Len(pending[0]) - Len(pending[1]))
            = <<>>
  <2>1. ASSUME NEW a \in Nat, NEW b \in Nat, NEW c \in Nat, NEW n,
               n = a + b + c
        PROVE  /\ n \in Int /\ n >= a
               /\ n - a \in Int /\ n - a >= b
               /\ n - a - b \in Int /\ n - a - b >= c
    BY <2>1
  <2>2. /\ Len(Waiting) \in Int /\ Len(Waiting) >= Len(pending[0])
        /\ Len(Waiting) - Len(pending[0]) \in Int
        /\ Len(Waiting) - Len(pending[0]) >= Len(pending[1])
        /\ Len(Waiting) - Len(pending[0]) - Len(pending[1]) \in Int
        /\ Len(Waiting) - Len(pending[0]) - Len(pending[1]) >= Len(pending[2])
    BY <1>2, <1>4, <2>1
  <2> QED BY <1>1, <1>3, <2>2
<1>6. pending'[0] = <<>> /\ pending'[1] = <<>> /\ pending'[2] = <<>>
  <2>1. /\ pending'[0] = Rest(pending[0], Len(Waiting))
        /\ pending'[1] = Rest(pending[1], Len(Waiting) - Len(pending[0]))
        /\ pending'[2] =
             Rest(pending[2], Len(Waiting) - Len(pending[0]) - Len(pending[1]))
    BY DEF AfterTaking, Priority
  <2> QED BY <1>5, <2>1
<1> QED BY <1>6 DEF Waiting

\* The books of completed balance: what it keeps and starts is counted, typed
\* and watched by the timer, and it stops only at the limit or with no task
\* held.
LEMMA ReleaseBooks ==
    ASSUME TypeOK, NEW kept \in SUBSET Ids,
           NEW cnt, cnt = Cardinality(kept),
           NEW fresh \in Nat, fresh >= nextTaskId,
           NEW busyTimer, NEW idleTimer,
           Release(kept, cnt, fresh, busyTimer, idleTimer)
    PROVE  /\ nextTaskId' \in Nat
           /\ Ids' \subseteq 0..(nextTaskId' - 1)
           /\ current' \in [Ids' -> [task : Tasks, left : Int]]
           /\ currentCount' \in Nat
           /\ currentCount' = Cardinality(Ids')
           /\ pending' \in [Priority -> Seq(Tasks)]
           /\ timer' \in {busyTimer, idleTimer}
           /\ Ids' # {} => timer' = busyTimer
           /\ \A id \in Ids' : \/ id \in kept /\ current'[id] = current[id]
                               \/ current'[id].left = MaxTaskTime
           /\ currentCount' > cnt => maxTasks # NaN /\ currentCount' <= maxTasks
           /\ ~Free(currentCount') \/ Waiting' = <<>>
<1>1. PICK k \in 0..Len(Waiting) :
        /\ LoopEnds(cnt, k)
        /\ \A j \in 0..(k - 1) : ~LoopEnds(cnt, j)
        /\ current' =
              [id \in kept \cup {fresh + i - 1 : i \in Keepers(k)} |->
                 IF id \in {fresh + i - 1 : i \in Keepers(k)}
                 THEN [task |-> Waiting[id - fresh + 1], left |-> MaxTaskTime]
                 ELSE current[id]]
        /\ currentCount' = cnt + Cardinality(Keepers(k))
        /\ nextTaskId' = fresh + k
        /\ pending' = AfterTaking(k)
        /\ timer' = IF /\ cnt + Cardinality(Keepers(k)) = 0
                       /\ k = Len(Waiting)
                    THEN idleTimer ELSE busyTimer
  BY DEF Release
<1> DEFINE new == {fresh + i - 1 : i \in Keepers(k)}
<1>2. /\ Waiting \in Seq(Tasks)
      /\ Len(Waiting) \in Nat
      /\ k \in Nat
      /\ nextTaskId \in Nat
      /\ maxTasks \in Nat \cup {NaN}
  <2>1. Waiting \in Seq(Tasks)
    BY QueueTypes, 0 \in Nat
  <2> QED BY <2>1 DEF TypeOK
<1>3. /\ pending' \in [Priority -> Seq(Tasks)]
      /\ Keepers(k) \subseteq 1..k
      /\ IsFiniteSet(Keepers(k))
      /\ Cardinality(Keepers(k)) \in Nat
  BY <1>1, <1>2, QueueTypes, KeepersCount DEF Keepers
<1>4. /\ IsFiniteSet(kept)
      /\ cnt \in Nat
      /\ kept \subseteq 0..(nextTaskId - 1)
  <2>1. kept \in SUBSET (0..(nextTaskId - 1)) /\ IsFiniteSet(0..(nextTaskId - 1))
    <3>1. nextTaskId - 1 \in Int /\ 0 \in Int
      BY <1>2
    <3>2. IsFiniteSet(0..(nextTaskId - 1))
      BY <3>1, FS_Interval
    <3>3. kept \in SUBSET (0..(nextTaskId - 1))
      BY DEF TypeOK, Ids
    <3> QED BY <3>2, <3>3
  <2>2. IsFiniteSet(kept)
    BY <2>1, FS_Subset
  <2> QED BY <2>1, <2>2, FS_CardinalityType
<1>5. /\ IsFiniteSet(new)
      /\ Cardinality(new) = Cardinality(Keepers(k))
      /\ new \subseteq fresh..(fresh + k - 1)
  <2>1. Keepers(k) \in SUBSET Nat
    BY <1>3
  <2>2. new \subseteq fresh..(fresh + k - 1)
    BY <1>2, <1>3
  <2> QED BY <1>3, <2>1, <2>2, FreshIds
<1>6. Ids' = kept \cup new
  BY <1>1 DEF Ids
<1>7. currentCount' = Cardinality(Ids')
  <2>1. kept \cap new = {}
    <3>1. \A id \in kept : id \in Int /\ id < nextTaskId
      BY <1>2, <1>4
    <3>2. \A id \in new : id \in Int /\ id >= nextTaskId
      BY <1>2, <1>5
    <3> HIDE DEF new
    <3> QED BY <1>2, <3>1, <3>2
  <2>2. Cardinality(kept \cup new) = cnt + Cardinality(new)
    <3>1. Cardinality(kept \cup new)
            = Cardinality(kept) + Cardinality(new) - Cardinality(kept \cap new)
      BY <1>4, <1>5, FS_Union
    <3>2. Cardinality(kept \cap new) = 0
      BY <2>1, FS_EmptySet
    <3> HIDE DEF new
    <3> QED BY <1>3, <1>4, <1>5, <3>1, <3>2
  <2> QED BY <1>1, <1>5, <1>6, <2>2
<1>8. current' \in [Ids' -> [task : Tasks, left : Int]]
  <2>1. \A id \in new : Waiting[id - fresh + 1] \in Tasks
    BY <1>1, <1>2, <1>3
  <2>2. \A id \in kept : current[id] \in [task : Tasks, left : Int]
    BY DEF TypeOK, Ids
  <2>3. MaxTaskTime \in Int
    BY TimeAssumption
  <2> QED BY <1>1, <1>6, <2>1, <2>2, <2>3
<1>9. \A id \in Ids' : \/ id \in kept /\ current'[id] = current[id]
                       \/ current'[id].left = MaxTaskTime
  BY <1>1, <1>6
<1>10. Ids' # {} => timer' = busyTimer
  <2>1. HAVE Ids' # {}
  <2>2. currentCount' # 0
    BY <1>4, <1>5, <1>6, <1>7, <2>1, FS_EmptySet, FS_Union
  <2> QED BY <1>1, <2>2
<1>11. currentCount' > cnt => maxTasks # NaN /\ currentCount' <= maxTasks
  <2>1. HAVE currentCount' > cnt
  <2>2. k > 0
    <3>1. k = 0 => Keepers(k) = {}
      BY <1>3
    <3>2. k = 0 => currentCount' = cnt + 0
      BY <1>1, <3>1, FS_EmptySet
    <3> QED BY <1>2, <1>4, <2>1, <3>2
  <2>3. ~LoopEnds(cnt, k - 1) /\ k - 1 \in Nat
    BY <1>1, <1>2, <2>2
  <2>4. Cardinality(Keepers(k)) <= Cardinality(Keepers(k - 1)) + 1
    BY <1>2, <2>2, KeepersCount
  <2>5. Cardinality(Keepers(k - 1)) \in Nat
    BY <2>3, KeepersCount
  <2>6. maxTasks # NaN /\ cnt + Cardinality(Keepers(k - 1)) < maxTasks
    BY <2>3 DEF LoopEnds, Free
  <2> QED BY <1>1, <1>2, <1>3, <1>4, <2>4, <2>5, <2>6
<1>12. ~Free(currentCount') \/ Waiting' = <<>>
  <2>1. CASE ~Free(cnt + Cardinality(Keepers(k)))
    BY <1>1, <2>1
  <2>2. CASE k = Len(Waiting)
    BY <1>1, <2>2, EverythingTaken DEF Waiting
  <2> QED BY <1>1, <2>1, <2>2 DEF LoopEnds
<1>13. /\ nextTaskId' \in Nat
       /\ Ids' \subseteq 0..(nextTaskId' - 1)
       /\ currentCount' \in Nat
       /\ timer' \in {busyTimer, idleTimer}
  <2>1. nextTaskId' \in Nat /\ currentCount' \in Nat
    BY <1>1, <1>2, <1>3, <1>4
  <2>2. timer' \in {busyTimer, idleTimer}
    BY <1>1
  <2>3. fresh..(fresh + k - 1) \subseteq 0..(nextTaskId' - 1)
    BY <1>1, <1>2
  <2>4. 0..(nextTaskId - 1) \subseteq 0..(nextTaskId' - 1)
    BY <1>1, <1>2
  <2> HIDE DEF new
  <2> QED BY <1>4, <1>5, <1>6, <2>1, <2>2, <2>3, <2>4
<1> QED BY <1>3, <1>7, <1>8, <1>9, <1>10, <1>11, <1>12, <1>13

\* Removing ids from current lowers the count by their number.
LEMMA Removing ==
    ASSUME TypeOK, SlotAccounting, NEW gone \in SUBSET Ids
    PROVE  /\ IsFiniteSet(Ids)
           /\ Cardinality(gone) \in Nat
           /\ currentCount - Cardinality(gone) = Cardinality(Ids \ gone)
<1>1. IsFiniteSet(Ids)
  <2>1. nextTaskId - 1 \in Int /\ 0 \in Int /\ Ids \in SUBSET (0..(nextTaskId - 1))
    BY DEF TypeOK
  <2> QED BY <2>1, FS_Interval, FS_Subset
<1>2. IsFiniteSet(gone) /\ Cardinality(gone) \in Nat
  BY <1>1, FS_Subset, FS_CardinalityType
<1>3. Ids \cap gone = gone
  OBVIOUS
<1> QED BY <1>1, <1>2, <1>3, FS_Difference DEF SlotAccounting

-----------------------------------------------------------------------------
LEMMA InitIInv == Init => IInv
<1> SUFFICES ASSUME Init PROVE IInv
  OBVIOUS
<1>1. Ids = {} /\ Cardinality(Ids) = 0
  BY FS_EmptySet DEF Init, Ids
<1> QED BY <1>1, LimitAssumption, TimeAssumption
        DEF Init, IInv, TypeOK, SlotAccounting, TimerArmed, Aged, NoTimer,
            Priority

\* A step that leaves current in the books of completed keeps the invariant.
LEMMA ReleaseIInv ==
    ASSUME IInv, NEW kept \in SUBSET Ids,
           NEW cnt, cnt = Cardinality(kept),
           NEW fresh \in Nat, fresh >= nextTaskId,
           NEW busyTimer \in 0..CleaningInterval,
           NEW idleTimer \in {NoTimer} \cup 0..CleaningInterval,
           \A id \in kept : current[id].left >= busyTimer - CleaningInterval,
           Release(kept, cnt, fresh, busyTimer, idleTimer),
           maxTasks' = maxTasks, launched' \subseteq Tasks, instant' = instant
    PROVE  IInv'
<1>1. TypeOK
  BY DEF IInv
<1>2. TypeOK'
  <2>1. timer' \in {NoTimer} \cup 0..CleaningInterval
    BY <1>1, ReleaseBooks
  <2> QED BY <1>1, <2>1, ReleaseBooks DEF TypeOK
<1>3. SlotAccounting'
  BY <1>1, ReleaseBooks DEF SlotAccounting
<1>4. Ids' # {} => timer' = busyTimer
  BY <1>1, ReleaseBooks
<1>5. TimerArmed'
  BY <1>4, TimeAssumption DEF TimerArmed, NoTimer
<1>6. Aged'
  <2> SUFFICES ASSUME NEW id \in Ids'
               PROVE  current'[id].left >= timer' - CleaningInterval
    BY DEF Aged
  <2>1. timer' = busyTimer
    BY <1>4
  <2>2. \/ id \in kept /\ current'[id] = current[id]
        \/ current'[id].left = MaxTaskTime
    BY <1>1, ReleaseBooks
  <2> QED BY <2>1, <2>2, TimeAssumption
<1> QED BY <1>2, <1>3, <1>5, <1>6 DEF IInv

LEMMA NextIInv == IInv /\ [Next]_vars => IInv'
<1> SUFFICES ASSUME IInv, [Next]_vars PROVE IInv'
  OBVIOUS
<1> USE TimeAssumption
<1>0. /\ TypeOK /\ SlotAccounting /\ TimerArmed /\ Aged
      /\ nextTaskId \in Nat
      /\ CleaningInterval \in Nat \ {0}
      /\ IsFiniteSet(Ids)
      /\ currentCount = Cardinality(Ids)
  BY Removing DEF IInv, TypeOK, SlotAccounting
<1>1. ASSUME NEW t \in Tasks, LaunchNow(t)
      PROVE  IInv'
  <2> USE <1>1 DEF LaunchNow
  <2>1. Ids' = Ids \cup {nextTaskId} /\ nextTaskId \notin Ids
    BY <1>0 DEF Ids, TypeOK
  <2>2. SlotAccounting'
    BY <1>0, <2>1, FS_AddElement DEF SlotAccounting
  <2>3. StartedTimer \in 0..CleaningInterval
    BY <1>0 DEF StartedTimer, TypeOK, NoTimer
  <2>4. TypeOK'
    <3>1. current' \in [Ids' -> [task : Tasks, left : Int]]
      BY <1>0, <2>1 DEF TypeOK, Ids
    <3>2. Ids' \subseteq 0..(nextTaskId' - 1) /\ nextTaskId' \in Nat
      BY <1>0, <2>1 DEF TypeOK
    <3> QED BY <1>0, <2>3, <3>1, <3>2 DEF TypeOK
  <2>5. TimerArmed'
    BY <2>3 DEF TimerArmed, NoTimer
  <2>6. Aged'
    <3> SUFFICES ASSUME NEW id \in Ids'
                 PROVE  current'[id].left >= timer' - CleaningInterval
      BY DEF Aged
    <3>1. CASE id = nextTaskId
      BY <1>0, <2>1, <2>3, <3>1
    <3>2. CASE id \in Ids
      <4>1. current'[id] = current[id] /\ timer' = timer
        BY <1>0, <2>1, <3>2 DEF StartedTimer, TimerArmed
      <4> QED BY <1>0, <3>2, <4>1 DEF Aged
    <3> QED BY <2>1, <3>1, <3>2
  <2> QED BY <2>2, <2>4, <2>5, <2>6 DEF IInv
<1>2. ASSUME NEW t \in Tasks, LaunchInstant(t)
      PROVE  IInv'
  <2>1. /\ StartedTimer \in 0..CleaningInterval
        /\ CleaningInterval \in 0..CleaningInterval
        /\ nextTaskId + 1 \in Nat /\ nextTaskId + 1 >= nextTaskId
    BY <1>0 DEF StartedTimer, TypeOK, NoTimer
  <2>2. \A id \in Ids : current[id].left >= StartedTimer - CleaningInterval
    BY <1>0 DEF StartedTimer, TimerArmed, Aged
  <2>3. /\ Release(Ids, currentCount, nextTaskId + 1, StartedTimer,
                   CleaningInterval)
        /\ maxTasks' = maxTasks /\ instant' = instant
        /\ launched' \subseteq Tasks
    BY <1>0, <1>2 DEF LaunchInstant, TypeOK
  <2> QED BY <1>0, <2>1, <2>2, <2>3, ReleaseIInv
<1>3. ASSUME NEW t \in Tasks, NEW pri \in Priority, Hold(t, pri)
      PROVE  IInv'
  <2>1. pending' \in [Priority -> Seq(Tasks)] /\ launched' \subseteq Tasks
    BY <1>0, <1>3 DEF Hold, TypeOK
  <2> QED BY <1>0, <1>3, <2>1
          DEF Hold, IInv, TypeOK, SlotAccounting, TimerArmed, Aged, Ids
<1>4. ASSUME NEW id \in Ids, Completed(id)
      PROVE  IInv'
  <2>1. timer \in 0..CleaningInterval
    BY <1>0 DEF TypeOK, TimerArmed
  <2>2. currentCount - 1 = Cardinality(Ids \ {id})
    BY <1>0, FS_RemoveElement
  <2>3. /\ Release(Ids \ {id}, currentCount - 1, nextTaskId, timer, NoTimer)
        /\ maxTasks' = maxTasks /\ instant' = instant
        /\ launched' \subseteq Tasks
    BY <1>0, <1>4 DEF Completed, TypeOK
  <2>4. \A i \in Ids \ {id} : current[i].left >= timer - CleaningInterval
    BY <1>0 DEF Aged
  <2> QED BY <1>0, <2>1, <2>2, <2>3, <2>4, ReleaseIInv
<1>5. CASE Clean
  <2>1. CASE Overdue = {}
    <3>1. \A id \in Ids : current[id].left \in Int /\ current[id].left >= 0
      BY <1>0, <2>1 DEF Overdue, TypeOK
    <3> QED BY <1>0, <1>5, <2>1, <3>1
            DEF Clean, IInv, TypeOK, SlotAccounting, TimerArmed, Aged, Ids,
                NoTimer
  <2>2. CASE Overdue # {}
    <3>1. /\ Overdue \in SUBSET Ids
          /\ currentCount - Cardinality(Overdue) = Cardinality(Ids \ Overdue)
      BY <1>0, Removing DEF Overdue
    <3>2. /\ Release(Ids \ Overdue, currentCount - Cardinality(Overdue),
                     nextTaskId, CleaningInterval, NoTimer)
          /\ maxTasks' = maxTasks /\ instant' = instant
          /\ launched' \subseteq Tasks
      BY <1>0, <1>5, <2>2 DEF Clean, TypeOK
    <3>3. \A id \in Ids \ Overdue :
             current[id].left >= CleaningInterval - CleaningInterval
      BY <1>0 DEF Overdue, TypeOK
    <3> QED BY <1>0, <3>1, <3>2, <3>3, ReleaseIInv
  <2> QED BY <2>1, <2>2
<1>6. CASE Tick
  <2> USE <1>6 DEF Tick
  <2>1. Ids' = Ids
    BY DEF Ids
  <2>2. \A id \in Ids : /\ current[id] \in [task : Tasks, left : Int]
                        /\ current'[id] = [current[id] EXCEPT !.left = @ - 1]
    BY <1>0 DEF TypeOK
  <2>3. \A id \in Ids : /\ current'[id] \in [task : Tasks, left : Int]
                        /\ current'[id].left = current[id].left - 1
    BY <2>2
  <2>4. timer \in 0..CleaningInterval
    BY <1>0 DEF TypeOK, NoTimer
  <2>5. TypeOK'
    <3>1. current' \in [Ids' -> [task : Tasks, left : Int]]
      BY <2>1, <2>3
    <3>2. timer' \in {NoTimer} \cup 0..CleaningInterval
      BY <2>4
    <3> QED BY <1>0, <2>1, <3>1, <3>2 DEF TypeOK
  <2>6. Aged'
    BY <1>0, <2>1, <2>2, <2>3, <2>4 DEF Aged
  <2> QED BY <1>0, <2>1, <2>4, <2>5, <2>6
          DEF IInv, SlotAccounting, TimerArmed, NoTimer
<1>7. ASSUME NEW t \in Tasks, BecomeInstant(t)
      PROVE  IInv'
  BY <1>0, <1>7 DEF BecomeInstant, IInv, TypeOK, SlotAccounting, TimerArmed,
                    Aged, Ids
<1>8. ASSUME NEW n \in ConsoleArgs, SetMaxTasks(n)
      PROVE  IInv'
  BY <1>0, <1>8, LimitAssumption
     DEF SetMaxTasks, Refused, IInv, TypeOK, SlotAccounting, TimerArmed, Aged, Ids
<1>9. CASE UNCHANGED vars
  BY <1>0, <1>9 DEF vars, IInv, TypeOK, SlotAccounting, TimerArmed, Aged, Ids
<1> QED BY <1>1, <1>2, <1>3, <1>4, <1>5, <1>6, <1>7, <1>8, <1>9 DEF Next

\* The inductive invariant of the task limiter: its count matches its table,
\* its timer watches every running task, and time is accounted for.
THEOREM Invariance == Spec => []IInv
<1> QED BY InitIInv, NextIInv, PTL DEF Spec

\* The variables always have their types.
THEOREM TypeCorrect == Spec => []TypeOK
<1>1. IInv => TypeOK
  BY DEF IInv
<1> QED BY <1>1, Invariance, PTL

\* The code's own count of running tasks never drifts from the table of tasks,
\* through nested completions, expiries and late reports.
THEOREM SlotsAccounted == Spec => []SlotAccounting
<1>1. IInv => SlotAccounting
  BY DEF IInv
<1> QED BY <1>1, Invariance, PTL

\* No task holds its slot for more than CleaningInterval past its deadline.
THEOREM SlotsExpire == Spec => []HoldBound
<1>1. IInv => HoldBound
  <2> SUFFICES ASSUME IInv, NEW id \in Ids
               PROVE  current[id].left >= -CleaningInterval
    BY DEF HoldBound
  <2>1. timer \in 0..CleaningInterval
    BY DEF IInv, TypeOK, TimerArmed
  <2>2. current[id].left \in Int
    BY DEF IInv, TypeOK
  <2>3. current[id].left >= timer - CleaningInterval
    BY DEF IInv, Aged
  <2> QED BY <2>1, <2>2, <2>3, TimeAssumption
<1> QED BY <1>1, Invariance, PTL

-----------------------------------------------------------------------------
\* The slots taken grow only up to the limit, whatever the console sets it to.
THEOREM LimitIsRespected == Spec => LimitRespected
<1> DEFINE AtMostLimit == maxTasks # NaN /\ currentCount' <= maxTasks
<1>1. ASSUME IInv, [Next]_vars
      PROVE  currentCount' > currentCount => AtMostLimit
  <2>0. /\ TypeOK /\ SlotAccounting
        /\ currentCount \in Nat /\ maxTasks \in Nat \cup {NaN} /\ nextTaskId \in Nat
        /\ currentCount = Cardinality(Ids) /\ IsFiniteSet(Ids)
    BY <1>1, Removing DEF IInv, TypeOK, SlotAccounting
  <2>1. ASSUME NEW t \in Tasks, LaunchNow(t)
        PROVE  AtMostLimit
    BY <2>0, <2>1 DEF LaunchNow, Free
  <2>2. ASSUME NEW t \in Tasks, LaunchInstant(t)
        PROVE  currentCount' > currentCount => AtMostLimit
    <3>1. Release(Ids, currentCount, nextTaskId + 1, StartedTimer,
                  CleaningInterval)
      BY <2>2 DEF LaunchInstant
    <3>2. nextTaskId + 1 \in Nat /\ nextTaskId + 1 >= nextTaskId
      BY <2>0
    <3> QED BY <2>0, <3>1, <3>2, ReleaseBooks
  <2>3. ASSUME NEW id \in Ids, Completed(id)
        PROVE  currentCount' > currentCount => AtMostLimit
    <3>1. Release(Ids \ {id}, currentCount - 1, nextTaskId, timer, NoTimer)
      BY <2>3 DEF Completed
    <3>2. currentCount - 1 = Cardinality(Ids \ {id})
      BY <2>0, FS_RemoveElement
    <3>3. currentCount' > currentCount - 1 => AtMostLimit
      BY <2>0, <3>1, <3>2, ReleaseBooks
    <3>4. currentCount' \in Nat
      BY <2>0, <3>1, <3>2, ReleaseBooks
    <3> QED BY <2>0, <3>3, <3>4
  <2>4. ASSUME Clean, Overdue # {}
        PROVE  currentCount' > currentCount => AtMostLimit
    <3>1. Release(Ids \ Overdue, currentCount - Cardinality(Overdue),
                  nextTaskId, CleaningInterval, NoTimer)
      BY <2>4 DEF Clean
    <3>2. /\ currentCount - Cardinality(Overdue) = Cardinality(Ids \ Overdue)
          /\ Cardinality(Overdue) \in Nat
      BY <2>0, Removing DEF Overdue
    <3>3. /\ currentCount' > currentCount - Cardinality(Overdue)
                => AtMostLimit
          /\ currentCount' \in Nat
      BY <2>0, <3>1, <3>2, ReleaseBooks
    <3> QED BY <2>0, <3>2, <3>3
  <2>5. ASSUME \/ Clean /\ Overdue = {}
               \/ \E t \in Tasks, p \in Priority : Hold(t, p)
               \/ Tick
               \/ \E t \in Tasks : BecomeInstant(t)
               \/ \E n \in ConsoleArgs : SetMaxTasks(n)
               \/ UNCHANGED vars
        PROVE  ~(currentCount' > currentCount)
    BY <2>0, <2>5 DEF Clean, Hold, Tick, BecomeInstant, SetMaxTasks, vars
  <2> QED BY <1>1, <2>1, <2>2, <2>3, <2>4, <2>5 DEF Next
<1> QED BY <1>1, Invariance, PTL DEF Spec, LimitRespected

\* A freed slot is never left idle while a task is held.
THEOREM FreedSlotsAreUsed == Spec => WorkConserving
<1>1. ASSUME IInv, [Next]_vars
      PROVE  ~(Ids \subseteq Ids') => ~Free(currentCount)' \/ Waiting' = <<>>
  <2>0. /\ TypeOK /\ SlotAccounting
        /\ nextTaskId \in Nat
        /\ currentCount = Cardinality(Ids) /\ IsFiniteSet(Ids)
    BY <1>1, Removing DEF IInv, TypeOK, SlotAccounting
  <2>1. ASSUME NEW t \in Tasks, LaunchInstant(t)
        PROVE  ~Free(currentCount)' \/ Waiting' = <<>>
    <3>1. Release(Ids, currentCount, nextTaskId + 1, StartedTimer,
                  CleaningInterval)
      BY <2>1 DEF LaunchInstant
    <3>2. nextTaskId + 1 \in Nat /\ nextTaskId + 1 >= nextTaskId
      BY <2>0
    <3>3. ~Free(currentCount') \/ Waiting' = <<>>
      BY <2>0, <3>1, <3>2, ReleaseBooks
    <3>4. maxTasks' = maxTasks
      BY <2>1 DEF LaunchInstant
    <3> QED BY <3>3, <3>4 DEF Free
  <2>2. ASSUME NEW id \in Ids, Completed(id)
        PROVE  ~Free(currentCount)' \/ Waiting' = <<>>
    <3>1. Release(Ids \ {id}, currentCount - 1, nextTaskId, timer, NoTimer)
      BY <2>2 DEF Completed
    <3>2. currentCount - 1 = Cardinality(Ids \ {id})
      BY <2>0, FS_RemoveElement
    <3>3. ~Free(currentCount') \/ Waiting' = <<>>
      BY <2>0, <3>1, <3>2, ReleaseBooks
    <3>4. maxTasks' = maxTasks
      BY <2>2 DEF Completed
    <3> QED BY <3>3, <3>4 DEF Free
  <2>3. ASSUME Clean, Overdue # {}
        PROVE  ~Free(currentCount)' \/ Waiting' = <<>>
    <3>1. Release(Ids \ Overdue, currentCount - Cardinality(Overdue),
                  nextTaskId, CleaningInterval, NoTimer)
      BY <2>3 DEF Clean
    <3>2. currentCount - Cardinality(Overdue) = Cardinality(Ids \ Overdue)
      BY <2>0, Removing DEF Overdue
    <3>3. ~Free(currentCount') \/ Waiting' = <<>>
      BY <2>0, <3>1, <3>2, ReleaseBooks
    <3>4. maxTasks' = maxTasks
      BY <2>3 DEF Clean
    <3> QED BY <3>3, <3>4 DEF Free
  <2>4. ASSUME \/ Clean /\ Overdue = {}
               \/ \E t \in Tasks : LaunchNow(t)
               \/ \E t \in Tasks, p \in Priority : Hold(t, p)
               \/ Tick
               \/ \E t \in Tasks : BecomeInstant(t)
               \/ \E n \in ConsoleArgs : SetMaxTasks(n)
               \/ UNCHANGED vars
        PROVE  Ids \subseteq Ids'
    BY <2>4 DEF Clean, LaunchNow, Hold, Tick, BecomeInstant, SetMaxTasks, vars,
                Ids
  <2> QED BY <1>1, <2>1, <2>2, <2>3, <2>4 DEF Next
<1> QED BY <1>1, Invariance, PTL DEF Spec, WorkConserving

\* Slots are taken up to the limit, whatever it is by then, and never beyond.
THEOREM LimitIsAlwaysUsed == Spec => LimitIsUsed
BY LimitIsRespected, FreedSlotsAreUsed DEF LimitIsUsed

-----------------------------------------------------------------------------
\* The order: no task is started twice, and none ahead of a held one of a higher
\* priority.  Both rest on what the loop of completed leaves of the queues.


\* The held tasks ahead of the queue of priority p.
Before(p) == CASE p = 0 -> 0
               [] p = 1 -> Len(pending[0])
               [] p = 2 -> Len(pending[0]) + Len(pending[1])

\* What is taken of the queue of priority p when k tasks are.
TakenOf(p, k) == IF k - Before(p) > 0 THEN k - Before(p) ELSE 0

\* No task is twice in the queues, or in the table, or in both, and only tasks
\* that were launched are there.
OnceInv ==
    /\ \A p, q \in Priority : \A i \in 1..Len(pending[p]), j \in 1..Len(pending[q]) :
          pending[p][i] = pending[q][j] => p = q /\ i = j
    /\ \A p \in Priority : \A i \in 1..Len(pending[p]) :
          /\ pending[p][i] \in launched
          /\ \A id \in Ids : pending[p][i] # current[id].task
    /\ \A id \in Ids : current[id].task \in launched
    /\ \A id1, id2 \in Ids : current[id1].task = current[id2].task => id1 = id2

-----------------------------------------------------------------------------
LEMMA Queues ==
    ASSUME TypeOK
    PROVE  \A p \in Priority : /\ pending[p] \in Seq(Tasks) /\ Len(pending[p]) \in Nat
                               /\ Before(p) \in Nat
  BY DEF TypeOK, Priority, Before

\* What Rest leaves of a queue.
LEMMA RestFacts ==
    ASSUME NEW s \in Seq(Tasks), NEW n \in Int, NEW d,
           d = IF n > 0 THEN n ELSE 0
    PROVE  /\ Len(Rest(s, n)) = IF d <= Len(s) THEN Len(s) - d ELSE 0
           /\ \A i \in 1..Len(Rest(s, n)) :
                 i + d \in 1..Len(s) /\ Rest(s, n)[i] = s[i + d]
<1>1. d \in Nat /\ Len(s) \in Nat /\ Rest(s, n) = SubSeq(s, d + 1, Len(s))
  BY DEF Rest
<1>2. \A i \in (d + 1)..Len(s) : s[i] \in Tasks
  BY <1>1
<1>3. /\ Len(SubSeq(s, d + 1, Len(s))) = IF d + 1 <= Len(s) THEN Len(s) - (d + 1) + 1 ELSE 0
      /\ \A i \in 1..(Len(s) - (d + 1) + 1) : SubSeq(s, d + 1, Len(s))[i] = s[d + 1 + i - 1]
  BY <1>1, <1>2, SubSeqProperties
<1> DEFINE r == SubSeq(s, d + 1, Len(s))
<1> HIDE DEF r
<1>4. Len(r) = IF d <= Len(s) THEN Len(s) - d ELSE 0
  BY <1>1, <1>3 DEF r
<1>5. ASSUME NEW i \in 1..Len(r)  PROVE i + d \in 1..Len(s) /\ r[i] = s[i + d]
  <2>1. i \in 1..(Len(s) - (d + 1) + 1) /\ d + 1 + i - 1 = i + d
    BY <1>1, <1>4
  <2> QED  BY <2>1, <1>1, <1>3 DEF r
<1> QED  BY <1>1, <1>4, <1>5 DEF r

\* What is left of the queues after k tasks are taken.
LEMMA AfterTakingFacts ==
    ASSUME TypeOK, NEW k \in Nat, NEW p \in Priority
    PROVE  /\ TakenOf(p, k) \in Nat
           /\ Len(AfterTaking(k)[p]) = IF TakenOf(p, k) <= Len(pending[p])
                                       THEN Len(pending[p]) - TakenOf(p, k) ELSE 0
           /\ \A i \in 1..Len(AfterTaking(k)[p]) :
                 /\ i + TakenOf(p, k) \in 1..Len(pending[p])
                 /\ AfterTaking(k)[p][i] = pending[p][i + TakenOf(p, k)]
<1>1. /\ \A q \in Priority : pending[q] \in Seq(Tasks) /\ Len(pending[q]) \in Nat
      /\ Before(p) \in Nat
  BY Queues
<1>2. AfterTaking(k)[p] = Rest(pending[p], k - Before(p))
  <2>1. CASE p = 0
    BY <2>1, <1>1 DEF AfterTaking, Before, Priority
  <2>2. CASE p = 1
    BY <2>2, <1>1 DEF AfterTaking, Before, Priority
  <2>3. CASE p = 2
    <3>1. k - Len(pending[0]) - Len(pending[1]) = k - (Len(pending[0]) + Len(pending[1]))
      BY <1>1 DEF Priority
    <3>2. AfterTaking(k)[2] = Rest(pending[2], k - Len(pending[0]) - Len(pending[1]))
      BY DEF AfterTaking, Priority
    <3>3. Before(2) = Len(pending[0]) + Len(pending[1])
      BY DEF Before
    <3> QED  BY <2>3, <3>1, <3>2, <3>3
  <2> QED  BY <2>1, <2>2, <2>3 DEF Priority
<1>3. k - Before(p) \in Int /\ TakenOf(p, k) \in Nat
  BY <1>1 DEF TakenOf
<1> QED  BY <1>1, <1>2, <1>3, RestFacts DEF TakenOf

\* The positions of Waiting are those of the three queues, one after the other.
LEMMA WaitingAt ==
    ASSUME TypeOK
    PROVE  /\ Len(Waiting) = Len(pending[0]) + Len(pending[1]) + Len(pending[2])
           /\ \A i \in 1..Len(Waiting) : \E p \in Priority : \E j \in 1..Len(pending[p]) :
                 i = Before(p) + j /\ Waiting[i] = pending[p][j]
<1> DEFINE a == pending[0]
           b == pending[1]
           c == pending[2]
<1>1. a \in Seq(Tasks) /\ b \in Seq(Tasks) /\ c \in Seq(Tasks)
  BY Queues DEF Priority
<1>2. Before(0) = 0 /\ Before(1) = Len(a) /\ Before(2) = Len(a) + Len(b)
  BY DEF Before
<1>3. Waiting = (a \o b) \o c
  BY DEF Waiting
<1> HIDE DEF a, b, c
<1>4. /\ a \o b \in Seq(Tasks) /\ Len(a \o b) = Len(a) + Len(b)
      /\ \A i \in 1..(Len(a) + Len(b)) :
            (a \o b)[i] = IF i <= Len(a) THEN a[i] ELSE b[i - Len(a)]
  BY <1>1, ConcatProperties
<1> DEFINE ab == a \o b
<1>5. /\ Len(ab \o c) = Len(ab) + Len(c)
      /\ \A i \in 1..(Len(ab) + Len(c)) :
            (ab \o c)[i] = IF i <= Len(ab) THEN ab[i] ELSE c[i - Len(ab)]
  BY <1>1, <1>4, ConcatProperties
<1> HIDE DEF ab
<1>6. /\ Len(a) \in Nat /\ Len(b) \in Nat /\ Len(c) \in Nat
      /\ Len(ab) = Len(a) + Len(b) /\ Waiting = ab \o c
      /\ \A i \in 1..(Len(a) + Len(b)) :
            ab[i] = IF i <= Len(a) THEN a[i] ELSE b[i - Len(a)]
  BY <1>1, <1>3, <1>4 DEF ab
<1>7. Len(Waiting) = Len(a) + Len(b) + Len(c)
  BY <1>5, <1>6
<1>8. ASSUME NEW i \in 1..Len(Waiting)
      PROVE  \E p \in Priority : \E j \in 1..Len(pending[p]) :
                i = Before(p) + j /\ Waiting[i] = pending[p][j]
  <2>1. CASE i <= Len(a)
    <3>1. Waiting[i] = a[i] /\ i \in 1..Len(a) /\ i = 0 + i
      BY <2>1, <1>5, <1>6, <1>7
    <3>2. 0 \in Priority
      BY DEF Priority
    <3> QED  BY <3>1, <3>2, <1>2, ZenonT(30) DEF a
  <2>2. CASE Len(a) < i /\ i <= Len(a) + Len(b)
    <3>1. /\ Waiting[i] = b[i - Len(a)] /\ i - Len(a) \in 1..Len(b)
          /\ i = Len(a) + (i - Len(a))
      BY <2>2, <1>5, <1>6, <1>7
    <3>2. 1 \in Priority
      BY DEF Priority
    <3> QED  BY <3>1, <3>2, <1>2, ZenonT(30) DEF b
  <2>3. CASE Len(a) + Len(b) < i
    <3>1. /\ Waiting[i] = c[i - (Len(a) + Len(b))] /\ i - (Len(a) + Len(b)) \in 1..Len(c)
          /\ i = Len(a) + Len(b) + (i - (Len(a) + Len(b)))
      BY <2>3, <1>5, <1>6, <1>7
    <3>2. 2 \in Priority
      BY DEF Priority
    <3> QED  BY <3>1, <3>2, <1>2, ZenonT(30) DEF c
  <2> QED  BY <2>1, <2>2, <2>3, <1>6
<1> QED  BY <1>7, <1>8 DEF a, b, c

-----------------------------------------------------------------------------
\* The invariant gives StartedOnce.
LEMMA OnceGivesStartedOnce ==
    ASSUME TypeOK, OnceInv
    PROVE  StartedOnce
<1>1. ASSUME NEW i \in 1..Len(Waiting), NEW j \in 1..Len(Waiting), Waiting[i] = Waiting[j]
      PROVE  i = j
  <2>1. PICK p \in Priority : \E m \in 1..Len(pending[p]) :
           i = Before(p) + m /\ Waiting[i] = pending[p][m]
    BY WaitingAt
  <2>2. PICK m \in 1..Len(pending[p]) : i = Before(p) + m /\ Waiting[i] = pending[p][m]
    BY <2>1
  <2>3. PICK q \in Priority : \E n \in 1..Len(pending[q]) :
           j = Before(q) + n /\ Waiting[j] = pending[q][n]
    BY WaitingAt
  <2>4. PICK n \in 1..Len(pending[q]) : j = Before(q) + n /\ Waiting[j] = pending[q][n]
    BY <2>3
  <2>5. p = q /\ m = n
    BY <1>1, <2>2, <2>4 DEF OnceInv
  <2> QED  BY <2>2, <2>4, <2>5
<1>2. ASSUME NEW i \in 1..Len(Waiting), NEW id \in Ids  PROVE Waiting[i] # current[id].task
  <2>1. PICK p \in Priority : \E m \in 1..Len(pending[p]) : Waiting[i] = pending[p][m]
    BY WaitingAt
  <2> QED  BY <2>1 DEF OnceInv
<1> QED  BY <1>1, <1>2 DEF StartedOnce, OnceInv

\* The loop of completed: what it starts is what it takes out of the queues.
LEMMA ReleaseOnce ==
    ASSUME TypeOK, OnceInv, NEW kept \in SUBSET Ids, NEW cnt,
           NEW fresh \in Nat, fresh >= nextTaskId, NEW busyTimer, NEW idleTimer,
           Release(kept, cnt, fresh, busyTimer, idleTimer), launched \subseteq launched'
    PROVE  OnceInv'
<1>1. PICK k \in 0..Len(Waiting) :
        /\ current' =
              [id \in kept \cup {fresh + i - 1 : i \in Keepers(k)} |->
                 IF id \in {fresh + i - 1 : i \in Keepers(k)}
                 THEN [task |-> Waiting[id - fresh + 1], left |-> MaxTaskTime]
                 ELSE current[id]]
        /\ pending' = AfterTaking(k)
  BY DEF Release
<1>2. Len(Waiting) \in Nat /\ k \in Nat /\ nextTaskId \in Nat
  <2>1. Waiting \in Seq(Tasks)
    BY QueueTypes, 0 \in Nat
  <2> QED  BY <2>1 DEF TypeOK
<1> DEFINE new == {fresh + i - 1 : i \in Keepers(k)}
<1>3. \A id \in new : id - fresh + 1 \in 1..k /\ id \in Int /\ id \notin kept
  BY <1>2 DEF Keepers, TypeOK
<1>4. /\ Ids' = kept \cup new
      /\ \A id \in new : current'[id].task = Waiting[id - fresh + 1]
      /\ \A id \in kept : current'[id].task = current[id].task
  BY <1>1, <1>3 DEF Ids
<1> HIDE DEF new
\* A started task was in a queue, at a place that is taken.
<1>5. \A id \in new : \E p \in Priority : \E j \in 1..Len(pending[p]) :
         /\ id - fresh + 1 = Before(p) + j /\ j <= TakenOf(p, k)
         /\ current'[id].task = pending[p][j]
  <2> TAKE id \in new
  <2>1. id - fresh + 1 \in 1..Len(Waiting) /\ id - fresh + 1 <= k
    BY <1>2, <1>3
  <2>2. PICK p \in Priority : \E j \in 1..Len(pending[p]) :
           id - fresh + 1 = Before(p) + j /\ Waiting[id - fresh + 1] = pending[p][j]
    BY <2>1, WaitingAt
  <2>3. PICK j \in 1..Len(pending[p]) :
           id - fresh + 1 = Before(p) + j /\ Waiting[id - fresh + 1] = pending[p][j]
    BY <2>2
  <2>4. Before(p) \in Nat /\ Len(pending[p]) \in Nat
    BY Queues
  <2>5. j <= TakenOf(p, k)
    BY <1>2, <2>1, <2>3, <2>4 DEF TakenOf
  <2> QED  BY <1>4, <2>3, <2>5
\* A task that is still held is at a place that is not.
<1>6. \A p \in Priority : \A i \in 1..Len(pending'[p]) :
         \E m \in 1..Len(pending[p]) : /\ m = i + TakenOf(p, k) /\ m > TakenOf(p, k)
                                       /\ pending'[p][i] = pending[p][m]
  <2> TAKE p \in Priority
  <2>1. /\ TakenOf(p, k) \in Nat /\ Len(pending[p]) \in Nat
        /\ Len(pending'[p]) = IF TakenOf(p, k) <= Len(pending[p])
                              THEN Len(pending[p]) - TakenOf(p, k) ELSE 0
        /\ \A i \in 1..Len(pending'[p]) :
              /\ i + TakenOf(p, k) \in 1..Len(pending[p])
              /\ pending'[p][i] = pending[p][i + TakenOf(p, k)]
    BY <1>1, <1>2, AfterTakingFacts, Queues
  <2> TAKE i \in 1..Len(pending'[p])
  <2>2. i + TakenOf(p, k) \in 1..Len(pending[p]) /\ i + TakenOf(p, k) > TakenOf(p, k)
    BY <2>1
  <2> QED  BY <2>1, <2>2
<1>7. \A p \in Priority : TakenOf(p, k) \in Nat /\ Before(p) \in Nat /\ Len(pending[p]) \in Nat
  BY <1>2, AfterTakingFacts, Queues
<1>12. \A p, q \in Priority : \A i \in 1..Len(pending[p]), j \in 1..Len(pending[q]) :
          pending[p][i] = pending[q][j] => p = q /\ i = j
  BY DEF OnceInv
<1>8. ASSUME NEW p \in Priority, NEW q \in Priority, NEW i \in 1..Len(pending'[p]),
             NEW j \in 1..Len(pending'[q]), pending'[p][i] = pending'[q][j]
      PROVE  p = q /\ i = j
  <2>1. PICK m \in 1..Len(pending[p]) :
           m = i + TakenOf(p, k) /\ pending'[p][i] = pending[p][m]
    BY <1>6
  <2>2. PICK n \in 1..Len(pending[q]) :
           n = j + TakenOf(q, k) /\ pending'[q][j] = pending[q][n]
    BY <1>6
  <2>3. p = q /\ m = n
    <3>1. pending[p][m] = pending[q][n]
      BY <1>8, <2>1, <2>2
    <3> QED  BY <3>1, <1>12
  <2>4. i \in Int /\ j \in Int
    OBVIOUS
  <2> QED  BY <2>1, <2>2, <2>3, <2>4, <1>7
<1>9. ASSUME NEW p \in Priority, NEW i \in 1..Len(pending'[p])
      PROVE  /\ pending'[p][i] \in launched'
             /\ \A id \in Ids' : pending'[p][i] # current'[id].task
  <2>1. PICK m \in 1..Len(pending[p]) :
           m > TakenOf(p, k) /\ pending'[p][i] = pending[p][m]
    BY <1>6
  <2>2. ASSUME NEW id \in new  PROVE pending'[p][i] # current'[id].task
    <3>1. PICK q \in Priority : \E j \in 1..Len(pending[q]) :
             j <= TakenOf(q, k) /\ current'[id].task = pending[q][j]
      BY <1>5
    <3>2. PICK j \in 1..Len(pending[q]) :
             j <= TakenOf(q, k) /\ current'[id].task = pending[q][j]
      BY <3>1
    <3>3. ~(p = q /\ m = j)
      BY <2>1, <3>2, <1>7
    <3> QED  BY <2>1, <3>2, <3>3 DEF OnceInv
  <2>3. ASSUME NEW id \in kept  PROVE pending'[p][i] # current'[id].task
    BY <2>1, <1>4 DEF OnceInv
  <2> QED  BY <2>1, <2>2, <2>3, <1>4 DEF OnceInv
<1>10. ASSUME NEW id \in Ids'  PROVE current'[id].task \in launched'
  <2>1. CASE id \in kept
    BY <2>1, <1>4 DEF OnceInv
  <2>2. CASE id \in new
    BY <2>2, <1>5 DEF OnceInv
  <2> QED  BY <2>1, <2>2, <1>4
<1>11. ASSUME NEW id1 \in Ids', NEW id2 \in Ids', current'[id1].task = current'[id2].task
       PROVE  id1 = id2
  <2>1. CASE id1 \in kept /\ id2 \in kept
    BY <1>11, <2>1, <1>4 DEF OnceInv
  <2>2. ASSUME NEW x \in kept, NEW y \in new  PROVE current'[x].task # current'[y].task
    <3>1. PICK q \in Priority : \E j \in 1..Len(pending[q]) : current'[y].task = pending[q][j]
      BY <1>5
    <3> QED  BY <3>1, <1>4 DEF OnceInv
  <2>3. CASE id1 \in new /\ id2 \in new
    <3>1. PICK p \in Priority : \E i \in 1..Len(pending[p]) :
             id1 - fresh + 1 = Before(p) + i /\ current'[id1].task = pending[p][i]
      BY <2>3, <1>5
    <3>2. PICK i \in 1..Len(pending[p]) :
             id1 - fresh + 1 = Before(p) + i /\ current'[id1].task = pending[p][i]
      BY <3>1
    <3>3. PICK q \in Priority : \E j \in 1..Len(pending[q]) :
             id2 - fresh + 1 = Before(q) + j /\ current'[id2].task = pending[q][j]
      BY <2>3, <1>5
    <3>4. PICK j \in 1..Len(pending[q]) :
             id2 - fresh + 1 = Before(q) + j /\ current'[id2].task = pending[q][j]
      BY <3>3
    <3>5. p = q /\ i = j
      <4>1. pending[p][i] = pending[q][j]
        BY <1>11, <3>2, <3>4
      <4> QED  BY <4>1, <1>12
    <3>6. id1 - fresh + 1 = id2 - fresh + 1 /\ id1 \in Int /\ id2 \in Int
      BY <2>3, <3>2, <3>4, <3>5, <1>3
    <3> QED  BY <3>6
  <2> QED  BY <2>1, <2>2, <2>3, <1>4, <1>11
<1> QED  BY <1>8, <1>9, <1>10, <1>11 DEF OnceInv

-----------------------------------------------------------------------------
\* Every step keeps the invariant.
LEMMA NextOnce == IInv /\ OnceInv /\ [Next]_vars => OnceInv'
<1> SUFFICES ASSUME IInv, OnceInv, [Next]_vars  PROVE OnceInv'
  OBVIOUS
<1>1. /\ TypeOK /\ nextTaskId \in Nat /\ nextTaskId >= nextTaskId
      /\ nextTaskId + 1 \in Nat /\ nextTaskId + 1 >= nextTaskId
      /\ \A p \in Priority : pending[p] \in Seq(Tasks) /\ Len(pending[p]) \in Nat
  BY Queues DEF IInv, TypeOK
<1>2. ASSUME NEW t \in Tasks, LaunchNow(t)  PROVE OnceInv'
  <2>1. /\ nextTaskId \notin Ids /\ Ids' = Ids \cup {nextTaskId}
        /\ current'[nextTaskId].task = t /\ t \notin launched
        /\ \A id \in Ids : current'[id] = current[id]
        /\ pending' = pending /\ launched' = launched \cup {t}
    BY <1>1, <1>2 DEF LaunchNow, TypeOK, Ids
  <2> QED  BY <2>1 DEF OnceInv
<1>3. ASSUME NEW t \in Tasks, LaunchInstant(t)  PROVE OnceInv'
  <2>1. /\ Release(Ids, currentCount, nextTaskId + 1, StartedTimer, CleaningInterval)
        /\ launched \subseteq launched'
    BY <1>3 DEF LaunchInstant
  <2> QED  BY <1>1, <2>1, ReleaseOnce
<1>4. ASSUME NEW t \in Tasks, NEW pri \in Priority, Hold(t, pri)  PROVE OnceInv'
  <2>1. /\ t \notin launched /\ launched' = launched \cup {t} /\ current' = current
        /\ \A p \in Priority : p # pri => pending'[p] = pending[p]
        /\ pending'[pri] = Append(pending[pri], t)
    BY <1>1, <1>4 DEF Hold, TypeOK
  <2>2. \A p \in Priority : \A i \in 1..Len(pending'[p]) :
           \/ i \in 1..Len(pending[p]) /\ pending'[p][i] = pending[p][i]
           \/ p = pri /\ i = Len(pending[p]) + 1 /\ pending'[p][i] = t
    <3> TAKE p \in Priority
    <3> TAKE i \in 1..Len(pending'[p])
    <3>1. CASE p # pri
      BY <2>1, <3>1
    <3>2. CASE p = pri
      BY <1>1, <2>1, <3>2
    <3> QED  BY <3>1, <3>2
  <2>3. Ids' = Ids
    BY <2>1 DEF Ids
  <2>4. \A p \in Priority : \A i \in 1..Len(pending[p]) : pending[p][i] \in launched
    BY DEF OnceInv
  <2>5. \A p, q \in Priority : \A i \in 1..Len(pending[p]), j \in 1..Len(pending[q]) :
           pending[p][i] = pending[q][j] => p = q /\ i = j
    BY DEF OnceInv
  <2>6. ASSUME NEW p \in Priority, NEW q \in Priority, NEW i \in 1..Len(pending'[p]),
               NEW j \in 1..Len(pending'[q]), pending'[p][i] = pending'[q][j]
        PROVE  p = q /\ i = j
    BY <2>1, <2>2, <2>4, <2>5, <2>6
  <2>7. \A p \in Priority : \A i \in 1..Len(pending'[p]) :
           pending'[p][i] \in launched' /\ \A id \in Ids : pending'[p][i] # current[id].task
    BY <2>1, <2>2 DEF OnceInv
  <2> QED  BY <2>1, <2>3, <2>6, <2>7 DEF OnceInv
<1>5. ASSUME NEW id \in Ids, Completed(id)  PROVE OnceInv'
  <2>1. /\ Release(Ids \ {id}, currentCount - 1, nextTaskId, timer, NoTimer)
        /\ launched \subseteq launched' /\ Ids \ {id} \in SUBSET Ids
    BY <1>5 DEF Completed
  <2> QED  BY <1>1, <2>1, ReleaseOnce
<1>6. CASE Clean
  <2>1. CASE Overdue = {}
    BY <1>6, <2>1 DEF Clean, OnceInv, Ids
  <2>2. CASE Overdue # {}
    <3>1. /\ Release(Ids \ Overdue, currentCount - Cardinality(Overdue), nextTaskId,
                     CleaningInterval, NoTimer)
          /\ launched \subseteq launched' /\ Ids \ Overdue \in SUBSET Ids
      BY <1>6, <2>2 DEF Clean
    <3> QED  BY <1>1, <3>1, ReleaseOnce
  <2> QED  BY <2>1, <2>2
<1>7. CASE Tick
  <2>1. /\ Ids' = Ids /\ pending' = pending /\ launched' = launched
        /\ \A id \in Ids : current'[id].task = current[id].task
    BY <1>1, <1>7 DEF Tick, Ids, TypeOK
  <2> QED  BY <2>1 DEF OnceInv
<1>8. ASSUME \/ \E t \in Tasks : BecomeInstant(t)
             \/ \E n \in ConsoleArgs : SetMaxTasks(n)
             \/ UNCHANGED vars
      PROVE  OnceInv'
  BY <1>8 DEF BecomeInstant, SetMaxTasks, vars, OnceInv, Ids
<1> QED  BY <1>2, <1>3, <1>4, <1>5, <1>6, <1>7, <1>8 DEF Next

\* A task is never started twice, through nested completions, expiries, late
\* reports and changes of the limit.
THEOREM NeverStartedTwice == Spec => []StartedOnce
<1>1. Init => OnceInv
  BY DEF Init, OnceInv, Priority, Ids
<1>2. Spec => []OnceInv
  BY <1>1, Invariance, NextOnce, PTL DEF Spec
<1>3. IInv /\ OnceInv => StartedOnce
  BY OnceGivesStartedOnce DEF IInv
<1> QED  BY <1>2, <1>3, Invariance, PTL

-----------------------------------------------------------------------------
\* Where the loop of completed took tasks of one priority, nothing is left of a
\* higher one.
LEMMA ReleaseOrder ==
    ASSUME TypeOK, NEW kept, NEW cnt, NEW fresh, NEW busyTimer, NEW idleTimer,
           Release(kept, cnt, fresh, busyTimer, idleTimer),
           NEW p \in Priority, NEW q \in Priority, p < q,
           Len(pending'[q]) < Len(pending[q])
    PROVE  pending'[p] = <<>>
<1>1. PICK k \in 0..Len(Waiting) : pending' = AfterTaking(k)
  BY DEF Release
<1>2. Len(Waiting) \in Nat /\ k \in Nat
  BY QueueTypes, 0 \in Nat
<1>3. \A r \in Priority : /\ TakenOf(r, k) \in Nat /\ Before(r) \in Nat
                          /\ Len(pending[r]) \in Nat
                          /\ Len(pending'[r]) = IF TakenOf(r, k) <= Len(pending[r])
                                                THEN Len(pending[r]) - TakenOf(r, k) ELSE 0
  BY <1>1, <1>2, AfterTakingFacts, Queues
<1>4. k > Before(q)
  <2>1. TakenOf(q, k) > 0
    BY <1>3
  <2> QED  BY <2>1, <1>2, <1>3 DEF TakenOf
<1>5. Before(q) >= Before(p) + Len(pending[p])
  <2> DEFINE a == Len(pending[0])
             b == Len(pending[1])
  <2>1. Before(0) = 0 /\ Before(1) = a /\ Before(2) = a + b /\ a \in Nat /\ b \in Nat
    BY <1>3 DEF Before, Priority
  <2>2. (p = 0 /\ q = 1) \/ (p = 0 /\ q = 2) \/ (p = 1 /\ q = 2)
    BY DEF Priority
  <2>3. p = 0 => Before(p) + Len(pending[p]) = 0 + a
    BY <2>1
  <2>4. p = 1 => Before(p) + Len(pending[p]) = a + b
    BY <2>1
  <2> HIDE DEF a, b
  <2>5. a >= 0 + a /\ a + b >= 0 + a /\ a + b >= a + b
    BY <2>1
  <2>6. p = 0 => Before(q) \in {a, a + b} /\ Before(p) + Len(pending[p]) = 0 + a
    BY <2>1, <2>2, <2>3
  <2>7. p = 1 => Before(q) = a + b /\ Before(p) + Len(pending[p]) = a + b
    BY <2>1, <2>2, <2>4
  <2> QED  BY Zenon, <2>2, <2>5, <2>6, <2>7
<1>6. TakenOf(p, k) >= Len(pending[p])
  BY <1>2, <1>3, <1>4, <1>5 DEF TakenOf
<1>7. Len(pending'[p]) = 0
  BY <1>3, <1>6
<1>8. pending'[p] \in Seq(Tasks)
  BY <1>1, <1>2, QueueTypes
<1> QED  BY <1>7, <1>8

\* A held task is started only when no task of a higher priority is left.
THEOREM PriorityIsStrict == Spec => StrictPriority
<1>1. ASSUME IInv, [Next]_vars, NEW p \in Priority, NEW q \in Priority, p < q,
             Len(pending'[q]) < Len(pending[q])
      PROVE  pending'[p] = <<>>
  <2>1. TypeOK
    BY <1>1 DEF IInv
  <2>2. ASSUME \E kept, cnt, fresh, busyTimer, idleTimer :
                  Release(kept, cnt, fresh, busyTimer, idleTimer)
        PROVE  pending'[p] = <<>>
    BY <1>1, <2>1, <2>2, ReleaseOrder
  <2>3. CASE \E t \in Tasks : LaunchInstant(t)
    BY <2>2, <2>3 DEF LaunchInstant
  <2>4. CASE \E id \in Ids : Completed(id)
    BY <2>2, <2>4 DEF Completed
  <2>5. CASE Clean /\ Overdue # {}
    BY <2>2, <2>5 DEF Clean
  <2>6. ASSUME NEW t \in Tasks, NEW pri \in Priority, Hold(t, pri)  PROVE FALSE
    <3>1. pending[q] \in Seq(Tasks) /\ pending \in [Priority -> Seq(Tasks)]
      BY <2>1 DEF TypeOK
    <3>2. pending'[q] = pending[q] \/ pending'[q] = Append(pending[q], t)
      BY <2>6, <3>1 DEF Hold
    <3> QED  BY <3>1, <3>2, <1>1
  <2>7. ASSUME \/ Clean /\ Overdue = {}
               \/ \E t \in Tasks : LaunchNow(t)
               \/ Tick
               \/ \E t \in Tasks : BecomeInstant(t)
               \/ \E n \in ConsoleArgs : SetMaxTasks(n)
               \/ UNCHANGED vars
        PROVE  FALSE
    <3>1. pending' = pending
      BY <2>7 DEF Clean, LaunchNow, Tick, BecomeInstant, SetMaxTasks, vars
    <3>2. Len(pending[q]) \in Nat
      BY <2>1, Queues
    <3> QED  BY <3>1, <3>2, <1>1
  <2> QED  BY <1>1, <2>3, <2>4, <2>5, <2>6, <2>7 DEF Next
<1>2. IInv /\ [Next]_vars =>
         \A p, q \in Priority : p < q /\ Len(pending'[q]) < Len(pending[q]) => pending'[p] = <<>>
  BY <1>1
<1> QED  BY <1>2, Invariance, PTL DEF Spec, StrictPriority
=============================================================================
