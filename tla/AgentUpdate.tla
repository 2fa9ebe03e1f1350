----------------------------- MODULE AgentUpdate -----------------------------
(***************************************************************************)
(* How meshagent.js brings an agent and its core up to date.  Once it is   *)
(* authenticated, an agent is asked for the hash of its binary and of its  *)
(* core, the JavaScript module that it runs.  A new binary is sent block by*)
(* block (the native method), or the agent is given the recovery core,     *)
(* which downloads it.  Each transfer is a task of the task limiter        *)
(* (TaskLimiter): it may be held while its connection goes on, or ends, and*)
(* a task that completes starts the next one within the same callback.     *)
(***************************************************************************)
EXTENDS Integers, FiniteSets, SequencesExt, AgentConnections

CONSTANTS Populations,   \* what the agents may be like: one of these (see pop)
          CoreAgents,    \* those that can run a core (capability 16)
          Blocks,        \* connection -> the blocks of its new binary
          FirstCore,     \* connection -> the core that the agent has
          ServerCores,   \* the cores that the server has
          UserCores,     \* the cores users ask for
          CoreTries,     \* cores sent in a row that nobody asked for (5)
          MaxTasks       \* slots of the task limiter

Cores == {"core", "rcore", "tcore", "custom", "own", "old", "none"}
Methods == {"unchecked", "uptodate", "native", "bycore"}
Kinds == {"core", "native", "fetch"}
AllTasks ==
    [agent : Agents, kind : Kinds, core : Cores \cup {None}, nr : Nat]

ASSUME UpdateAssumption ==
    /\ \A p \in Populations :
          /\ p.method \in [Agents -> Methods]
          /\ p.disk \subseteq Agents /\ p.stubborn \subseteq Agents
          /\ p.requests \in Nat
    /\ Blocks \in [Agents -> Nat \ {0}]
    /\ FirstCore \in [Agents -> Cores]
    /\ ServerCores \subseteq {"core", "rcore", "tcore"}
    /\ UserCores \subseteq {"core", "rcore", "tcore", "custom", "none"}
    /\ CoreTries \in 1..999
    /\ MaxTasks \in Nat \ {0}
    /\ IsFiniteSet(Agents)
    /\ None \notin Cores \cup AllTasks \cup [task : AllTasks, ptr : Nat]

VARIABLES pop,        \* what the agents are like, and what users may ask: never changes
          obj,        \* connection -> the fields of its object
          current,    \* the tasks that hold a slot
          pending,    \* priority -> the tasks that are held
          opening,    \* tasks that wait for fs.open
          reading,    \* connections that wait for fs.read
          files,      \* tasks with an open file
          sending,    \* tasks whose core is being sent
          toAgent,    \* connection -> the commands on their way
          toServer,   \* connection -> the answers on their way
          dev,        \* connection -> the agent at its other end
          asked,      \* connection -> the core a user asked for last, or None
          requests    \* requests of users so far

vars == <<pop, obj, current, pending, opening, reading, files, sending, toAgent,
          toServer, dev, asked, requests>>

\* What compareAgentBinaryHash says of the binary of each connection; "unchecked" if
\* it is never to be updated.
UpdateMethod == pop.method
Disk == pop.disk                \* those whose new binary is read from disk
Stubborn == pop.stubborn        \* the agents that never take a core
MaxRequests == pop.requests     \* bound: requests of users in all

Ready(o, a) == o[a].authenticated = 2

\* An agent that connects.
NewAgent(a) == [core |-> FirstCore[a], got |-> <<>>, binary |-> "old"]

\* A connection in a state of authentication.
NewObj(auth) == [authenticated |-> auth, agentCoreCheck |-> 0,
                 agentCoreUpdate |-> FALSE, agentUpdate |-> None,
                 agentCoreUpdateTaskId |-> None]

Init ==
    /\ pop \in Populations
    /\ obj = [a \in Agents |-> NewObj(1)]
    /\ current = {} /\ pending = [p \in {0, 1} |-> <<>>]
    /\ opening = {} /\ reading = {} /\ files = {} /\ sending = {}
    /\ toAgent = [a \in Agents |-> <<>>]
    /\ toServer = [a \in Agents |-> <<>>]
    /\ dev = [a \in Agents |-> NewAgent(a)]
    /\ asked = [a \in Agents |-> None]
    /\ requests = 0

-----------------------------------------------------------------------------
(* Commands and answers *)

Msg(type) == [type |-> type, core |-> None, nr |-> 0]
Core(c) == [Msg("core") EXCEPT !.core = c]           \* 10, MeshCommand_CoreModule
AskCore == Msg("askcore")                            \* 11
AskHash == Msg("askhash")                            \* 12
Start == Msg("start")                                \* 13
Block(k) == [Msg("block") EXCEPT !.nr = k]           \* 14
End == Msg("end")                                    \* 13, with the hash
CoreOk == Msg("coreok")                              \* 16
Fetch == Msg("fetch")                                \* action agentupdate
CoreHash(c) == [Msg("corehash") EXCEPT !.core = c]

-----------------------------------------------------------------------------
(* The task limiter, as far as its callers see it *)

Priority(t) == IF t.kind = "core" THEN 0 ELSE 1

\* The tasks that something refers to.
Referred ==
    UNION {current, opening, sending, files, ToSet(pending[0]), ToSet(pending[1]),
           {obj[a].agentCoreUpdateTaskId : a \in Agents} \ {None},
           {obj[a].agentUpdate.task : a \in {b \in Agents :
                                             obj[b].agentUpdate # None}}}

\* A task of connection a that is like no other.
NewTask(a, kind, core) ==
    LET alike == {t \in Referred : t.agent = a /\ t.kind = kind /\ t.core = core}
        used == {t.nr : t \in alike}
        nr == CHOOSE n \in 0..Cardinality(used) :
                  n \notin used /\ \A m \in 0..(n - 1) : m \in used
    IN  [agent |-> a, kind |-> kind, core |-> core, nr |-> nr]

\* What launch and completed leave: the slots, the queues, the tasks started.
Limiter == [current |-> current, pending |-> pending, started |-> <<>>]

\* Mutant of Launched: a task that finds no slot is dropped.
LaunchedOrDropped(t) ==
    IF Cardinality(current) < MaxTasks
    THEN [Limiter EXCEPT !.current = @ \cup {t}, !.started = <<t>>]
    ELSE Limiter

Launched(t) ==
    IF Cardinality(current) < MaxTasks
    THEN [Limiter EXCEPT !.current = @ \cup {t}, !.started = <<t>>]
    ELSE [Limiter EXCEPT !.pending[Priority(t)] = Append(@, t)]

Taken(s, n) == SubSeq(s, (IF n > 0 THEN n ELSE 0) + 1, Len(s))

\* completed(t), after what was done in l: the slot goes to the next held task
\* of a connection that is ready; those before it complete at once.
Completed(l, t, o) ==
    LET queue == l.pending[0] \o l.pending[1]
        ready == {i \in DOMAIN queue : Ready(o, queue[i].agent)}
        next == {i \in ready : \A j \in ready : i <= j}
        n == IF ready = {} THEN Len(queue) ELSE CHOOSE i \in next : TRUE
    IN  IF t \notin l.current THEN l
        ELSE [current |-> (l.current \ {t}) \cup {queue[i] : i \in next},
              pending |-> [p \in {0, 1} |->
                             IF p = 0 THEN Taken(l.pending[0], n)
                             ELSE Taken(l.pending[1], n - Len(l.pending[0]))],
              started |-> IF ready = {} THEN l.started
                          ELSE Append(l.started, queue[n])]

\* Mutant of Says: the first block of a native update from RAM is not sent.
SaysNoBlock(t) ==
    CASE t.kind = "core" -> <<Core(t.core)>>
      [] t.kind = "fetch" -> <<Fetch>>
      [] t.kind = "native" /\ t.agent \notin Disk -> <<Core("none"), Start>>
      [] OTHER -> <<>>

\* The function of a task that starts, as long as its connection is ready.
Says(t) ==
    CASE t.kind = "core" -> <<Core(t.core)>>
      [] t.kind = "fetch" -> <<Fetch>>
      [] t.kind = "native" /\ t.agent \notin Disk ->
            <<Core("none"), Start, Block(1)>>
      [] OTHER -> <<>>

\* The objects o after the tasks s have started, in this order.
Begun(o, s) ==
    [a \in Agents |->
        LET mine == {i \in DOMAIN s : s[i].agent = a}
            fetches == {i \in mine : s[i].kind = "fetch"}
            natives == {i \in mine : s[i].kind = "native" /\ a \notin Disk}
        IN  [o[a] EXCEPT
               !.agentCoreUpdateTaskId =
                   IF fetches = {} THEN @ ELSE s[Max(fetches)],
               !.agentUpdate =
                   IF natives = {} THEN @ ELSE [task |-> s[Max(natives)], ptr |-> 1]]]

\* A callback leaves limiter l, objects o and commands say on their way, and the
\* cores of the tasks in sent are sent.
Step(l, o, say, sent) ==
    LET Started(kind) == {t \in ToSet(l.started) : t.kind = kind}
        Says1(t, a) == IF t.agent = a THEN Says(t) ELSE <<>>
    IN  /\ current' = l.current /\ pending' = l.pending
        /\ obj' = o
        /\ toAgent' = [a \in Agents |-> say[a] \o
               FlattenSeq([i \in DOMAIN l.started |-> Says1(l.started[i], a)])]
        /\ sending' = (sending \ sent) \cup Started("core")
        /\ opening' = opening \cup {t \in Started("native") : t.agent \in Disk}

\* A callback of connection a leaves say in its channel.
Done(a, l, o, say) == Step(l, o, [toAgent EXCEPT ![a] = say], {})
Sends(a, s) == toAgent[a] \o s

\* A callback that starts no task.
Plain(a, o, say) == Done(a, Limiter, o, Sends(a, say))

-----------------------------------------------------------------------------
(* The server's handlers *)

IO == <<reading, files>>
Users == <<pop, asked, requests>>

\* completeAgentConnection3, after command 4.
Connect(a) ==
    /\ obj[a].authenticated = 1
    /\ Plain(a, [obj EXCEPT ![a].authenticated = 2],
             IF UpdateMethod[a] # "unchecked" THEN <<AskHash>>
             ELSE IF a \in CoreAgents THEN <<AskCore>> ELSE <<>>)
    /\ UNCHANGED <<IO, toServer, dev, Users>>

\* The answer m of agent a is at the head of the channel, and is taken.
Answer(a, m) ==
    /\ Ready(obj, a) /\ toServer[a] # <<>> /\ Head(toServer[a]).type = m
    /\ toServer' = [toServer EXCEPT ![a] = Tail(@)]
    /\ UNCHANGED <<dev, Users>>

\* Mutant of UpdatesByCore: the update is not remembered.
ForgetsUpdate(a) == Plain(a, obj, <<Core("none"), AskCore>>)

\* The agent is cleared, to be given the recovery core.
UpdatesByCore(a) ==
    Plain(a, [obj EXCEPT ![a].agentCoreUpdate = TRUE], <<Core("none"), AskCore>>)

\* The hash of the agent's binary.
BinaryHash(a) ==
    /\ Answer(a, "binaryhash")
    /\ CASE UpdateMethod[a] = "bycore" /\ a \in CoreAgents ->
              UpdatesByCore(a)
         [] UpdateMethod[a] = "bycore" /\ a \notin CoreAgents ->
              Plain(a, obj, <<>>)
         [] UpdateMethod[a] = "native" ->
              LET l == Launched(NewTask(a, "native", None))
              IN  Done(a, l, Begun(obj, l.started), toAgent[a])
         [] OTHER -> Plain(a, obj, IF a \in CoreAgents THEN <<AskCore>> ELSE <<>>)
    /\ UNCHANGED IO

\* The core that connection a should have, and what its hash is.
Needed(a) ==
    IF obj[a].agentCoreCheck = 1001 \/ obj[a].agentCoreUpdate THEN "rcore"
    ELSE IF obj[a].agentCoreCheck = 1011 THEN "tcore"
    ELSE "core"
Has(c) == IF c \in ServerCores THEN c ELSE "none"

\* May another core be sent?
MaySend(a) ==
    \/ obj[a].agentCoreCheck < CoreTries \/ obj[a].agentCoreCheck \in {1001, 1011}
    \/ obj[a].agentCoreUpdate

Stable(a) == Plain(a, obj, <<CoreOk>>)
StableAgain(a) == Plain(a, [obj EXCEPT ![a].agentCoreCheck = 0], <<CoreOk>>)

SendCore(a, c) ==
    LET o == [obj EXCEPT ![a].agentCoreCheck = @ + 1]
        l == Launched(NewTask(a, "core", c))
    IN  IF c = "none" THEN Plain(a, o, <<Core("none")>>)
        ELSE Done(a, l, o, toAgent[a])

\* The hash of the agent's core.
HashOfCore(a) ==
    LET c == Head(toServer[a]).core
    IN  /\ Answer(a, "corehash")
        /\ CASE obj[a].agentUpdate # None -> Plain(a, obj, <<>>)
             [] obj[a].agentUpdate = None /\ obj[a].agentCoreCheck = 1000 ->
                  Stable(a)
             [] OTHER ->
                  IF c \in {"own", Has(Needed(a))} THEN StableAgain(a)
                  ELSE IF MaySend(a) THEN SendCore(a, Has(Needed(a)))
                  ELSE Plain(a, obj, <<>>)
        /\ UNCHANGED IO

\* The update of a is over: its slot is given back and its record deleted.
Ends(a, o, say) ==
    LET l == Completed(Limiter, o[a].agentUpdate.task, o)
    IN  Done(a, l, [Begun(o, l.started) EXCEPT ![a].agentUpdate = None], say)

Sent(a) == [obj EXCEPT ![a].agentUpdate.ptr = @ + 1]
NextBlock(a) == obj[a].agentUpdate.ptr + 1

\* The agent has the last block.  From disk, the next one is read first; from
\* RAM, it is sent, and the end with the last.
BlockTaken(a) ==
    /\ Answer(a, "ack")
    /\ IF obj[a].agentUpdate = None THEN Plain(a, obj, <<>>) /\ UNCHANGED reading
       ELSE IF a \in Disk
       THEN /\ reading' = reading \cup {a}
            /\ Plain(a, obj, <<>>)
       ELSE /\ UNCHANGED reading
            /\ IF NextBlock(a) < Blocks[a]
               THEN Plain(a, Sent(a), <<Block(NextBlock(a))>>)
               ELSE Ends(a, obj, Sends(a,
                      IF NextBlock(a) = Blocks[a]
                      THEN <<Block(Blocks[a]), End>> ELSE <<End>>))
    /\ UNCHANGED files

\* Does the callback of fs.open find the connection over?  Mutant: it does not
\* look.
NeverOver(a) == FALSE
Over(a) == ~Ready(obj, a)

\* The callback of fs.open.
FileOpened(t) ==
    LET a == t.agent
    IN  /\ t \in opening
        /\ opening' = opening \ {t}
        /\ \E err \in BOOLEAN :
              /\ files' = IF err THEN files ELSE files \cup {t}
              /\ IF err \/ Over(a) THEN UNCHANGED <<obj, toAgent, reading>>
                 ELSE /\ obj' = [obj EXCEPT ![a].agentUpdate =
                                    [task |-> t, ptr |-> 0]]
                      /\ toAgent' = [toAgent EXCEPT ![a] =
                                       @ \o <<Core("none"), Start>>]
                      /\ reading' = reading \cup {a}
        /\ UNCHANGED <<current, pending, sending, toServer, dev, Users>>

\* Is block k the last one that is read?  The end of the first is not looked at.
\* Mutant: one block too early.
LastSoon(a, k) == k + 1 >= Blocks[a]
IsLast(a, k) == k >= Blocks[a] /\ k # 1

\* The file cannot be read: the update is over.
ReadFails(a) ==
    /\ files' = files \ {obj[a].agentUpdate.task}
    /\ Ends(a, obj, toAgent[a])

\* The callback of fs.read.
FileRead(a) ==
    /\ a \in reading
    /\ reading' = reading \ {a}
    /\ IF obj[a].agentUpdate = None
       THEN Plain(a, obj, <<>>) /\ UNCHANGED files
       ELSE LET k == NextBlock(a)
            IN  \/ ReadFails(a)
                \/ /\ ~IsLast(a, k)
                   /\ UNCHANGED files
                   /\ Plain(a, Sent(a), <<Block(k)>>)
                \/ /\ IsLast(a, k)
                   /\ files' = files \ {obj[a].agentUpdate.task}
                   /\ Ends(a, obj, Sends(a, <<Block(k), End>>))
    /\ UNCHANGED <<toServer, dev, Users>>

\* An agent's JSON is not read during a native update.
CoreInfo(a) ==
    LET l == Launched(NewTask(a, "fetch", None))
    IN  /\ Answer(a, "coreinfo")
        /\ IF obj[a].agentUpdate = None /\ obj[a].agentCoreUpdate
           THEN Done(a, l, Begun(obj, l.started), toAgent[a])
           ELSE Plain(a, obj, <<>>)
        /\ UNCHANGED IO

WantsUpdate(a) ==
    LET l == Launched(NewTask(a, "fetch", None))
    IN  /\ Answer(a, "wantsupdate")
        /\ IF obj[a].agentUpdate = None
           THEN Done(a, l, Begun(obj, l.started), toAgent[a])
           ELSE Plain(a, obj, <<>>)
        /\ UNCHANGED IO

\* agentupdatedownloaded.
Downloaded(a) ==
    LET l == Completed(Limiter, obj[a].agentCoreUpdateTaskId, obj)
    IN  /\ Answer(a, "downloaded")
        /\ IF obj[a].agentUpdate = None /\ obj[a].agentCoreUpdateTaskId # None
           THEN Done(a, l, [Begun(obj, l.started) EXCEPT
                              ![a].agentCoreUpdateTaskId = None], toAgent[a])
           ELSE Plain(a, obj, <<>>)
        /\ UNCHANGED IO

\* The core has been sent, or never will be.
CoreSent(t) ==
    LET l == Completed(Limiter, t, obj)
    IN  /\ t \in sending
        /\ Step(l, Begun(obj, l.started), toAgent, {t})
        /\ UNCHANGED <<IO, toServer, dev, Users>>

\* Mutant of Clean: nothing is cleaned.
CleanNothing(t) == FALSE

\* A task has had its slot for too long (clean).
Clean(t) ==
    LET l == Completed(Limiter, t, obj)
    IN  /\ t \in current
        /\ Step(l, Begun(obj, l.started), toAgent, {})
        /\ UNCHANGED <<IO, toServer, dev, Users>>

\* obj.close: the connection counts as over before its tasks complete.  Of the
\* rest of the object nothing is read again; nobody follows its agent any further,
\* nor what users asked of it.
Close(a) ==
    LET update == obj[a].agentUpdate
        over == [obj EXCEPT ![a].authenticated = -1]
        l1 == IF update = None THEN Limiter
              ELSE Completed(Limiter, update.task, over)
        l2 == Completed(l1, obj[a].agentCoreUpdateTaskId, over)
    IN  /\ obj[a].authenticated \in {1, 2}
        /\ Step(l2, [Begun(over, l2.started) EXCEPT ![a] = NewObj(-1)],
                [toAgent EXCEPT ![a] = <<>>], {})
        /\ toServer' = [toServer EXCEPT ![a] = <<>>]
        /\ files' = IF update = None THEN files ELSE files \ {update.task}
        /\ dev' = [dev EXCEPT ![a] = NewAgent(a)]
        /\ asked' = [asked EXCEPT ![a] = None]
        /\ UNCHANGED <<pop, reading, requests>>

\* sendMeshAgentCore: a user asks for a core.
AsksFor(a, c) ==
    LET check == CASE c = "core" -> 0 [] c = "rcore" -> 1001
                   [] c = "tcore" -> 1011 [] OTHER -> 1000
    IN  /\ Ready(obj, a) /\ requests < MaxRequests
        /\ Plain(a, [obj EXCEPT ![a].agentCoreCheck = check],
                 IF check = 1000 THEN <<Core(c)>> ELSE <<AskCore>>)
        /\ asked' = [asked EXCEPT ![a] = c]
        /\ requests' = requests + 1
        /\ UNCHANGED <<pop, IO, toServer, dev>>

-----------------------------------------------------------------------------
(* The agents *)

\* What agent a answers to command m.
Reply(a, m) ==
    CASE m = AskHash -> <<Msg("binaryhash")>>
      [] m = AskCore \/ (m.type = "core" /\ a \in Stubborn) ->
            <<CoreHash(dev[a].core)>>
      [] m.type = "core" /\ a \notin Stubborn -> <<CoreHash(m.core)>>
      [] m = CoreOk -> <<Msg("coreinfo")>>
      [] m.type = "block" -> <<Msg("ack")>>
      [] OTHER -> <<>>

\* What agent a, in state d, becomes by command m.
Obeys(a, d, m) ==
    CASE m.type = "core" /\ a \notin Stubborn -> [d EXCEPT !.core = m.core]
      [] m = Start -> [d EXCEPT !.got = <<>>]
      [] m.type = "block" /\ m.nr <= Blocks[a] -> [d EXCEPT !.got = Append(@, m.nr)]
      [] m = Fetch -> [d EXCEPT !.binary = "fetching"]
      [] OTHER -> d

AgentObeys(a) ==
    /\ toAgent[a] # <<>>
    /\ LET m == Head(toAgent[a])
       IN  /\ dev' = [dev EXCEPT ![a] = Obeys(a, @, m)]
           /\ toServer' = [toServer EXCEPT ![a] = @ \o Reply(a, m)]
    /\ toAgent' = [toAgent EXCEPT ![a] = Tail(@)]
    /\ UNCHANGED <<obj, current, pending, opening, sending, IO, Users>>

\* The agent says something of its own accord.
AgentSays(a, type) ==
    /\ Ready(obj, a)
    /\ toServer' = [toServer EXCEPT ![a] = Append(@, Msg(type))]
    /\ UNCHANGED <<pop, obj, current, pending, opening, sending, IO, toAgent, asked>>

\* The new binary was downloaded, or could not be.
AgentDownloads(a) ==
    /\ dev[a].binary = "fetching"
    /\ UNCHANGED requests
    /\ \/ /\ dev' = [dev EXCEPT ![a].binary = "fetched"]
          /\ AgentSays(a, "downloaded")
       \/ /\ dev' = [dev EXCEPT ![a].binary = "failed"]
          /\ UNCHANGED <<pop, obj, current, pending, opening, sending, IO,
                         toAgent, toServer, asked>>

\* A user tells the agent, on its console, to update itself.
UserUpdates(a) ==
    /\ requests < MaxRequests
    /\ requests' = requests + 1
    /\ AgentSays(a, "wantsupdate")
    /\ UNCHANGED dev

-----------------------------------------------------------------------------
Tasks == current \cup opening \cup sending

Next ==
    \/ \E a \in Agents :
          \/ Connect(a)
          \/ BinaryHash(a)
          \/ HashOfCore(a)
          \/ BlockTaken(a)
          \/ FileRead(a)
          \/ CoreInfo(a)
          \/ WantsUpdate(a)
          \/ Downloaded(a)
          \/ Close(a)
          \/ AgentObeys(a)
          \/ AgentDownloads(a)
          \/ UserUpdates(a)
          \/ \E c \in UserCores : AsksFor(a, c)
    \/ \E t \in Tasks :
          \/ FileOpened(t)
          \/ CoreSent(t)
          \/ Clean(t)

Spec == Init /\ [][Next]_vars

\* What goes on without a user and with the connections that there are.
Work ==
    \/ \E a \in Agents :
          \/ Connect(a) \/ AgentObeys(a)
          \/ BinaryHash(a) \/ HashOfCore(a) \/ BlockTaken(a) \/ FileRead(a)
          \/ CoreInfo(a) \/ WantsUpdate(a) \/ Downloaded(a)
    \/ \E t \in Tasks : FileOpened(t) \/ CoreSent(t) \/ Clean(t)

\* The event loop goes on while it has a callback to run: files, sockets and agents
\* answer, and the interval of the limiter runs.
FairSpec == Spec /\ WF_vars(Work)

-----------------------------------------------------------------------------
TypeOK ==
    /\ \A a \in Agents :
          /\ obj[a].authenticated \in {-1, 1, 2}
          /\ obj[a].agentCoreCheck \in Nat /\ obj[a].agentCoreUpdate \in BOOLEAN
          /\ \/ obj[a].agentUpdate = None
             \/ obj[a].agentUpdate.task \in AllTasks
                /\ obj[a].agentUpdate.ptr \in 0..Blocks[a]
          /\ obj[a].agentCoreUpdateTaskId \in AllTasks \cup {None}
          /\ dev[a].core \in Cores
          /\ dev[a].binary \in {"old", "fetching", "fetched", "failed"}
    /\ UNION {current, opening, files, sending} \subseteq AllTasks
    /\ reading \subseteq Agents

\* Nothing starts on a connection that is over: a held task or the answer of a
\* file that comes after the end leaves no update behind and sends nothing.
NothingAfterClose ==
    \A a \in Agents : obj[a].authenticated = -1 =>
        /\ obj[a].agentUpdate = None /\ obj[a].agentCoreUpdateTaskId = None
        /\ toAgent[a] = <<>>

\* The agent is told the end of a native update only when it has all the blocks,
\* each once and in order, although it asks for the next one at its own pace, the
\* file is read later, and the slot may be gone.
EndIsComplete ==
    \A a \in Agents : toAgent[a] # <<>> /\ Head(toAgent[a]) = End =>
        dev[a].got = [k \in 1..Blocks[a] |-> k]

\* A native update that is under way goes on: either a block is on its way to the
\* agent, or the agent's acknowledgement of one, or a read of the file.
UpdateGoesOn ==
    \A a \in Agents : obj[a].agentUpdate # None =>
        Cardinality({i \in DOMAIN toAgent[a] : toAgent[a][i].type = "block"})
        + Cardinality({i \in DOMAIN toServer[a] : toServer[a][i].type = "ack"})
        + Cardinality(reading \cap {a}) = 1

\* A native update neither stops halfway nor ends with less than the whole file.
UpdateIsSound == EndIsComplete /\ UpdateGoesOn

\* The tasks of a connection that are held for want of a slot start or are dropped,
\* although slots are lost when connections end and when tasks are started twice.
Held == ToSet(pending[0]) \cup ToSet(pending[1])
HasHeld(a) == \E t \in Held : t.agent = a
HeldTasksStart == \A a \in Agents : HasHeld(a) ~> ~HasHeld(a)

\* Without users' requests, every agent comes to the core that it needs and keeps
\* it, unless it refuses CoreTries in a row or its connection ends.
CoreIsRight(a) == dev[a].core = Has(Needed(a)) \/ obj[a].agentCoreCheck >= CoreTries
CoreSettles ==
    MaxRequests = 0 => \A a \in CoreAgents : <>[](Ready(obj, a) => CoreIsRight(a))

\* An agent that is to update itself by the recovery core is told to, once that
\* core has been sent, has started and has introduced itself.
OutdatedIsTold ==
    MaxRequests = 0 =>
        \A a \in CoreAgents : Ready(obj, a) /\ UpdateMethod[a] = "bycore" ~>
            (dev[a].binary # "old" \/ ~Ready(obj, a))

\* Nothing is on its way between the server and the agent, nor to be done for it.
Quiet(a) ==
    /\ toAgent[a] = <<>> /\ toServer[a] = <<>>
    /\ \A t \in Held \cup current \cup opening \cup sending : t.agent # a

\* "If we are using a custom core, don't try to update it." (meshagent.js:166)
CustomIsKept ==
    \A a \in Agents : asked[a] = "custom" /\ Quiet(a) => dev[a].core = "custom"

\* "If the user asked, use the recovery core." (meshagent.js:188)
RecoveryIsUsed ==
    \A a \in Agents : asked[a] = "rcore" => Needed(a) = "rcore"

\* "If we where updating the agent meshcore method, clean that up."
\* (meshagent.js:126)
CloseFreesSlots ==
    \A t \in current : t.kind = "fetch" => Ready(obj, t.agent)

\* "If we where updating the agent using native method, clean that up."
\* (meshagent.js:118)
CloseClosesFiles == \A t \in files : Ready(obj, t.agent)
=============================================================================
