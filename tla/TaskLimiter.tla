---------------------------- MODULE TaskLimiter ----------------------------
(***************************************************************************)
(* The task limiter queue of common.js: at most maxTasks tasks hold a slot *)
(* at a time, the others wait in three priority queues.  The caller's      *)
(* function is started with a task id and must report the end of its work  *)
(* with completed(id); a periodic clean() takes the slot back from a task  *)
(* that has held it for longer than MaxTaskTime.                           *)
(*                                                                         *)
(* The JavaScript event loop runs each call to completion, so launch,      *)
(* completed and clean are one action each.  The function of an `instant'  *)
(* task (its agent disconnected, its Intel AMT device was removed, the     *)
(* agent binary is empty) calls completed(id) before it returns, so it     *)
(* takes and gives back its slot within the step that starts it.           *)
(***************************************************************************)
EXTENDS Integers, Sequences, FiniteSets

CONSTANTS Tasks,             \* the functions handed to launch, each once
          MaxTasks,          \* slots when the queue is created (50)
          MaxTaskTime,       \* ticks a task may hold a slot (20 seconds)
          CleaningInterval,  \* ticks between two runs of clean (60 seconds)
          NaN,               \* what parseInt makes of a word that is no number
          ConsoleArgs        \* what parseInt makes of setmaxtasks' argument

ASSUME LimitAssumption ==
    /\ MaxTasks \in Nat \ {0}
    /\ NaN \notin Int
    /\ ConsoleArgs \subseteq Int \cup {NaN}
ASSUME TimeAssumption ==
    /\ MaxTaskTime \in Nat
    /\ CleaningInterval \in Nat \ {0}

VARIABLES maxTasks,      \* the number of slots, or NaN
          nextTaskId,    \* the id the next started task gets
          current,       \* id -> the task and the ticks left to its deadline
          currentCount,  \* the code's count of the entries of current
          pending,       \* priority -> queue of held tasks
          timer,         \* ticks to the next clean, or NoTimer
          launched,      \* tasks handed to launch so far
          instant        \* tasks whose function completes before it returns

vars == <<maxTasks, nextTaskId, current, currentCount, pending, timer,
          launched, instant>>

Priority == 0..2         \* 0 = high, 1 = medium, 2 = low
NoTimer == -1
Ids == DOMAIN current

Init ==
    /\ maxTasks = MaxTasks
    /\ nextTaskId = 0
    /\ current = [id \in {} |-> id]
    /\ currentCount = 0
    /\ pending = [p \in Priority |-> <<>>]
    /\ timer = NoTimer
    /\ launched = {}
    /\ instant = {}

-----------------------------------------------------------------------------
\* The order in which held tasks are taken: by priority, then first come.
Waiting == pending[0] \o pending[1] \o pending[2]

\* The positions among the first k waiting tasks that keep their slot.
Keepers(k) == {i \in 1..k : Waiting[i] \notin instant}

\* Mutant of Rest: the first task taken is left in the queue.
RestKeepsOne(s, n) == SubSeq(s, IF n > 0 THEN n ELSE 1, Len(s))

\* s without its first n elements (all of s when n is negative).
Rest(s, n) == SubSeq(s, (IF n > 0 THEN n ELSE 0) + 1, Len(s))

\* Mutant of AfterTaking: medium priority first.
MediumFirst(k) ==
    [p \in Priority |->
        CASE p = 1 -> Rest(pending[1], k)
          [] p = 0 -> Rest(pending[0], k - Len(pending[1]))
          [] p = 2 -> Rest(pending[2], k - Len(pending[0]) - Len(pending[1]))]

AfterTaking(k) ==
    [p \in Priority |->
        CASE p = 0 -> Rest(pending[0], k)
          [] p = 1 -> Rest(pending[1], k - Len(pending[0]))
          [] p = 2 -> Rest(pending[2], k - Len(pending[0]) - Len(pending[1]))]

\* A slot is free with cnt slots taken.  No number is smaller than NaN.
Free(cnt) == maxTasks # NaN /\ cnt < maxTasks

\* Mutant of LoopEnds: a test in place of the loop.
LoopEndsAtOne(cnt, k) ==
    \/ ~Free(cnt + Cardinality(Keepers(k)))
    \/ k = Len(Waiting)
    \/ k = 1

\* The loop of completed, entered with cnt slots taken, ends after k tasks:
\* there is no free slot, or nothing is left to start.
LoopEnds(cnt, k) ==
    \/ ~Free(cnt + Cardinality(Keepers(k)))
    \/ k = Len(Waiting)

\* What completed leaves when it keeps the ids in `kept': held tasks are
\* started while there is a free slot, with ids from `fresh' on.  A started
\* task that is instant completes in its own function, and that inner call
\* goes on with the same loop: together they take the shortest prefix of
\* Waiting that fills the slots.  The timer is idleTimer when nothing is left.
Release(kept, cnt, fresh, busyTimer, idleTimer) ==
    \E k \in 0..Len(Waiting) :
        /\ LoopEnds(cnt, k)
        /\ \A j \in 0..(k - 1) : ~LoopEnds(cnt, j)
        /\ LET new == {fresh + i - 1 : i \in Keepers(k)}
               total == cnt + Cardinality(Keepers(k))
           IN  /\ current' =
                     [id \in kept \cup new |->
                        IF id \in new
                        THEN [task |-> Waiting[id - fresh + 1],
                              left |-> MaxTaskTime]
                        ELSE current[id]]
               /\ currentCount' = total
               /\ nextTaskId' = fresh + k
               /\ pending' = AfterTaking(k)
               /\ timer' = IF total = 0 /\ k = Len(Waiting)
                           THEN idleTimer ELSE busyTimer

\* Mutant of StartedTimer: launch does not start the timer.
TimerNotStarted == timer

StartedTimer == IF timer = NoTimer THEN CleaningInterval ELSE timer

-----------------------------------------------------------------------------
\* launch(func, arg, pri) with a free slot: the function runs at once, ahead
\* of tasks that may still be held, and the timer is started after it.
LaunchNow(t) ==
    /\ t \notin launched \cup instant
    /\ Free(currentCount)
    /\ launched' = launched \cup {t}
    /\ current' = [id \in Ids \cup {nextTaskId} |->
                     IF id = nextTaskId
                     THEN [task |-> t, left |-> MaxTaskTime]
                     ELSE current[id]]
    /\ currentCount' = currentCount + 1
    /\ nextTaskId' = nextTaskId + 1
    /\ timer' = StartedTimer
    /\ UNCHANGED <<maxTasks, pending, instant>>

\* The same call when the function completes before it returns: completed runs
\* inside launch, which starts the timer again even if nothing is left.
LaunchInstant(t) ==
    /\ t \in instant \ launched
    /\ Free(currentCount)
    /\ launched' = launched \cup {t}
    /\ Release(Ids, currentCount, nextTaskId + 1,
               StartedTimer, CleaningInterval)
    /\ UNCHANGED <<maxTasks, instant>>

\* launch with no free slot: the task is held.
Hold(t, pri) ==
    /\ t \notin launched
    /\ ~Free(currentCount)
    /\ launched' = launched \cup {t}
    /\ pending' = [pending EXCEPT ![pri] = Append(@, t)]
    /\ UNCHANGED <<maxTasks, nextTaskId, current, currentCount, timer, instant>>

\* Mutant of Completed: the count is not decremented.
CompletedUncounted(id) ==
    /\ id \in Ids
    /\ Release(Ids \ {id}, currentCount, nextTaskId, timer, NoTimer)
    /\ UNCHANGED <<maxTasks, launched, instant>>

\* completed(taskid); a second or late report of an id returns at once.
Completed(id) ==
    /\ id \in Ids
    /\ Release(Ids \ {id}, currentCount - 1, nextTaskId, timer, NoTimer)
    /\ UNCHANGED <<maxTasks, launched, instant>>

\* Mutant of Overdue: one interval late.
OverdueLate == {id \in Ids : current[id].left < -CleaningInterval}

Overdue == {id \in Ids : current[id].left < 0}

\* clean(), when its interval has passed: each task past its deadline is
\* completed.  The calls one after the other start the same tasks as one
\* loop over all the freed slots.
Clean ==
    /\ timer = 0
    /\ IF Overdue = {}
       THEN /\ timer' = CleaningInterval
            /\ UNCHANGED <<nextTaskId, current, currentCount, pending>>
       ELSE Release(Ids \ Overdue, currentCount - Cardinality(Overdue),
                    nextTaskId, CleaningInterval, NoTimer)
    /\ UNCHANGED <<maxTasks, launched, instant>>

\* One tick of the clock; a due interval callback runs before the next tick.
Tick ==
    /\ timer > 0
    /\ timer' = timer - 1
    /\ current' = [id \in Ids |-> [current[id] EXCEPT !.left = @ - 1]]
    /\ UNCHANGED <<maxTasks, nextTaskId, currentCount, pending, launched,
                   instant>>

\* The owner of a task that was not started yet goes away.
BecomeInstant(t) ==
    /\ t \notin instant
    /\ t \notin launched \/ \E i \in 1..Len(Waiting) : Waiting[i] = t
    /\ instant' = instant \cup {t}
    /\ UNCHANGED <<maxTasks, nextTaskId, current, currentCount, pending, timer,
                   launched>>

\* The limits setmaxtasks refuses: NaN compares false both ways and gets by.
Refused(n) == n # NaN /\ (n < 1 \/ n > 1000)

\* The server console command setmaxtasks; n is parseInt of its argument.
SetMaxTasks(n) ==
    /\ ~Refused(n)
    /\ n # maxTasks
    /\ maxTasks' = n
    /\ UNCHANGED <<nextTaskId, current, currentCount, pending, timer, launched,
                   instant>>

Next ==
    \/ \E t \in Tasks : LaunchNow(t)
    \/ \E t \in Tasks : LaunchInstant(t)
    \/ \E t \in Tasks, p \in Priority : Hold(t, p)
    \/ \E id \in Ids : Completed(id)
    \/ Clean
    \/ Tick
    \/ \E t \in Tasks : BecomeInstant(t)
    \/ \E n \in ConsoleArgs : SetMaxTasks(n)

\* Time passes and the interval callback runs; nothing obliges an owner to
\* report the end of its task, to disconnect, or to launch another one.
Spec == Init /\ [][Next]_vars /\ WF_vars(Tick) /\ WF_vars(Clean)

-----------------------------------------------------------------------------
\* Each variable has its type.
TypeOK ==
    /\ maxTasks \in (Nat \ {0}) \cup {NaN}
    /\ nextTaskId \in Nat
    /\ Ids \subseteq 0..(nextTaskId - 1)
    /\ current \in [Ids -> [task : Tasks, left : Int]]
    /\ currentCount \in Nat
    /\ pending \in [Priority -> Seq(Tasks)]
    /\ timer \in {NoTimer} \cup 0..CleaningInterval
    /\ launched \subseteq Tasks
    /\ instant \subseteq Tasks

\* currentCount is kept apart from current by launch and by the nested calls of
\* completed; it always is the number of entries, so no slot leaks.
SlotAccounting == currentCount = Cardinality(Ids)

\* A task that holds a slot is always watched by the cleaning timer: launch
\* starts it after the function, completed stops it when nothing is left.
TimerArmed == Ids # {} => timer # NoTimer

\* A task keeps its slot at most CleaningInterval past its deadline.
HoldBound == \A id \in Ids : current[id].left >= -CleaningInterval

\* A task is held once, or has one slot, or neither: it is never started twice.
StartedOnce ==
    /\ \A i, j \in 1..Len(Waiting) : Waiting[i] = Waiting[j] => i = j
    /\ \A id1, id2 \in Ids : current[id1].task = current[id2].task => id1 = id2
    /\ \A i \in 1..Len(Waiting), id \in Ids : Waiting[i] # current[id].task

\* No step takes a slot above the limit, also when the limit was lowered while
\* more tasks were running; and none is taken while the limit is no number.
LimitRespected ==
    [][currentCount' > currentCount =>
          maxTasks # NaN /\ currentCount' <= maxTasks]_vars

\* A held task is started only when no task of a higher priority is left.
StrictPriority ==
    [][\A p, q \in Priority :
          p < q /\ Len(pending'[q]) < Len(pending[q]) => pending'[p] = <<>>]_vars

\* Giving back a slot leaves no free slot while a task is held.
WorkConserving ==
    [][~(Ids \subseteq Ids') => ~Free(currentCount)' \/ Waiting' = <<>>]_vars

\* The limit in force is used, and no more than that: through nested
\* completions, late cleanings and changes of the limit no slot is taken above
\* it, and while it is a number none that is given back stays free while a task
\* is held.  (While it is NaN nothing is started, whatever the slots.)
LimitIsUsed == LimitRespected /\ WorkConserving

Held(t) == \E i \in 1..Len(Waiting) : Waiting[i] = t

\* A task held behind others that run is started in the end, even if no task
\* ever reports its end, unless an operator sets the limit to NaN meanwhile.
\* (After NaN the last slot may be given back with tasks held: these are not
\* started by a new limit but by the end of a task launched after it.)
HeldTaskStarts ==
    \A t \in Tasks : Held(t) /\ Ids # {} ~> ~Held(t) \/ maxTasks = NaN
=============================================================================
