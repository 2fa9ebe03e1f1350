# TLA+ models of MeshCentral's server

MeshCentral is a Node.js server that keeps web sockets to mesh agents, TLS
connections from Intel AMT devices (CIRA), browser sessions of users and
connections to peer servers, and shows its users which devices are reachable.
Every JavaScript callback runs to completion, so the concurrency of this program
is that of callbacks: an answer of the database, a timer, the end of a socket or
a message from a peer arrives between any two others. The modules below model
the parts where that order matters. One callback is one action.

## How to read and run this project

    tlc -workers 2 -config TaskLimiter.cfg MCTaskLimiter
    tlapm TaskLimiterProofs.tla
    tlapm AgentProofs.tla
    tlapm MpsProofs.tla
    tlapm PeerConnectivityProofs.tla
    tlapm PeerSessionsProofs.tla
    tlapm MeshRelayProofs.tla
    tlapm DesktopMultiplexProofs.tla
    tlapm AmtScannerProofs.tla

The configuration of a run has the name of its module; `PeerListStale` and `AgentTempReady` are
further configurations of `MCPeerConnectivity` and `MCAgentSession`.
`PeerEventMissed` of `MCPeerConnectivity`, `MpsCloseAll` of `MCMpsConnections`,
`AgentCustomLost`, `AgentRecoveryLost`, `AgentSlotKept` and `AgentFileKept` of
`MCAgentUpdate`, and `AmtSilentShown`, `AmtActiveLeaks` and `AmtRemovedBeside` of
`MCAmtScanner`, belong to observations (below) and to no listed run:

    tlc -workers 2 -config AgentSlotKept.cfg MCAgentUpdate

`PROJECT.json` lists the runs, the source lines behind every definition (`map`),
a change of the code that each property notices (`mutants`), the hazards and the
theorems. In a module, an operator called a *mutant* stands directly before the
definition it changes and is used by no specification: it shows that the property
depends on that code.

## Inventory of the system

| Component | State | Operations | Talks to | What is hard | What makes it correct |
|---|---|---|---|---|---|
| Task limiter (`common.js` createTaskLimiterQueue) | slots in use, three queues, timer | launch, completed, clean, setmaxtasks | agents (core and agent updates), amtmanager | completed runs nested in itself; late reports; a limit that changes | no lost slot, no task twice, limit and priority kept, no starvation while the limit is a number |
| Node connectivity (`meshcentral.js`) | a table per server, the merged view | SetConnectivityState, ClearConnectivityState, UpdateConnectivityState | agents, MPS, AMT manager, MQTT, peers, event bus | the view is computed again only for some nodes | the view is the merger of the tables; users are told of changes |
| Server peering (`multiserver.js`) | peerServers, in and out connections, copies of tables | handshake, SetupPeerServer, ClearPeerServer, message handlers | connectivity, sessions, event bus, relays | an end is noticed at different times at the two sides; restarts | listed = set up; copies agree; they converge |
| Intel AMT server, connections (`mpsserver.js`) | ciraConnections, hold timers | login, add, remove, close, closeAllForNode | connectivity, amtmanager, database | logins answered after the socket closed; several connections of a type | what is up is shown, what is shown is up |
| Intel AMT server, channels (`mpsserver.js`) | channels, credits, buffers | SetupChannel, write, close, five device commands | relays, amtmanager | writes before confirmation; both ends close; credit | bytes once, in order, within the window; no stall; ends agree |
| Agent sessions (`meshagent.js`) | wsagents, authenticated, database lookups | three handshake commands, completion, close, update | database, connectivity, users, task limiter | duplicates, limits, removals during a lookup, temporary agents | one ready connection in service per device, shown exactly then |
| Agent and core updates (`meshagent.js`, sendMeshAgentCore of `webserver.js`) | agentUpdate, agentCoreUpdate, agentCoreCheck, task ids, open files | binary hash, core hash, acknowledged block, JSON of the agent, file callbacks, a user's core | task limiter, file system, users | held tasks start later, inside other callbacks; files answer after a close; codes and counts in one number | blocks once and in order; updates go on; held tasks start; the right core in the end |
| Relay sessions (`meshrelay.js`) | wsrelays by id, a timer per waiting side, recording file | come, be looked up, hold, pair, refuse, time out, expire, close; tunnels between servers | users, agents, database, peers | two sides, a timer, the database and another server in any order | only two sides of one account meet, where accounts are compared; both are closed together but for rights refused late; nobody is held for ever whose peer is there; a recording ends once |
| Desktop multiplexor (`meshdesktopmultiplex.js`) | viewers, linked list of images, counters per image, flow control, recording | join, leave, refresh, tile, screen size, pause, record, dispose | relay, file system | images taken out while slow viewers point at them; a shared pause | each viewer can catch up with the screen and does; the agent goes on |
| AMT manager (`amtmanager.js`) | list of managed devices for each node, hosts in contact, tasks of the limiter | start, stop, remove, first contact, set-up, polls; activation | MPS, scanner, database, task limiter | a device goes in any phase, even inside its own removal; several devices share a host | one contact with a host at a time; what is removed gives its slot back |
| AMT scanner (`amtscanner.js`) | scan table, probes | periodic and specific scan, pings, TCP probes | AMT manager, connectivity, MPS, database | pings are lost, probes answer for an entry that is gone | a device that answers is shown, one that does not is given up |
| AMT events, provisioning, scripts, IDER (`amt*.js`) | protocol state | byte-level protocols | AMT manager | timers | - |
| Web server and user sessions (`webserver.js`, `meshuser.js`) | wssessions, three tables of the peers' sessions, counts, cookies, groups, users | session start and end, recount; login, routes, about 200 user commands | peers, all | session lists sent once and changed by messages | routes agree with the lists, and with the peers; so do counts while the account is there |
| Database layer (`db.js`) | none (adapters of eight databases) | Get, Set, Remove, changes | all | answers come later | - |
| Application relays (`apprelays.js`, `webrelayserver.js`) | tunnels | web, SSH, RDP, VNC | relays, MPS | tunnel life | - |
| Certificates (`certoperations.js`, `meshaccelerator.js`) | pool of signing workers | sign | agents | worker answers | each request answered once |
| Swarm, MQTT, IP-KVM, mail/SMS/messaging, plugins, device files | little | I/O | - | - | - |
| Agents' own code, command line tools, views, translations | - | - | - | outside the server | - |

`PROJECT.json` gives the status and, for what is left out, the reason for each.

### Interactions

A device becomes visible when `meshagent.js`, `mpsserver.js`, `amtmanager.js` or
`mqttbroker.js` calls `SetConnectivityState(node, bit)`, and invisible through
`ClearConnectivityState`. Both change the server's own table, pass the change to
the peers and merge the tables for the users. `meshuser.js` removes devices, which
closes their connections; closing a connection of a temporary agent removes its
device. `meshagent.js` and `amtmanager.js` start their long work through task
limiters.

## Modules

| Module | Models | State that corresponds |
|---|---|---|
| `TaskLimiter` | `common.js` 240-296, `meshuser.js` setmaxtasks | `current`, `pending`, `timer` (as ticks), `maxTasks` by name, which may be `NaN` |
| `NodeState` | the entry of a node in `meshcentral.js` and the merger | a mask is a set of bits |
| `PeerLinks` | connections of `multiserver.js` | `peerServers`, `end` (authenticated and socket state of each end), `chan` (what is in the socket) |
| `PeerConnectivity` | extends both: connectivity on several servers | `tables` = peerConnectivityByNode, `view` = connectivityByNode, `shown` = what was dispatched |
| `MpsConnections` | connections of `mpsserver.js` and power polls of `amtmanager.js` | `ciraConnections`, `xxStartHold` by name; `shown` = bits of the node's state |
| `MpsChannels` | APF channels of `mpsserver.js` | `channels` are the records of the code, `registered` = socket.tag.channels |
| `AgentConnections` | the constants that `AgentSession` and `AgentUpdate` share | none |
| `AgentSession` | the life of connections in `meshagent.js` | `wsagents`, `received`, `auth` = authenticated, `awaited` = pendingCompleteAgentConnection, `lookup` = which database call is under way or answered |
| `AgentPresence` | what agent sessions promise | abstract: in service, shown, over |
| `AgentUpdate` | binary and core updates of `meshagent.js` as tasks of the limiter, `sendMeshAgentCore` of `webserver.js` | `obj` holds the fields of a connection by name; `current`, `pending` = the limiter; `opening`, `reading`, `files` = calls of `fs` and open files; `sending` = cores whose send callback is to come; `dev` = the agent |
| `MeshRelay` | `meshrelay.js`, and the relay message and tunnels of `multiserver.js` | `wsrelays`, `wsPeerRelays`, `peerServers`, `id`, `peer` by name; `here` = the sides that still have `obj.ws`; `ws` = state of the web socket; `denied`, `stranded`, `missed` = what was refused late, what found its peer gone, what messages were lost |
| `Rendezvous` | what the relay promises | abstract: each connection is alone, joined or over, and of an account that is compared or not |
| `DesktopMultiplex` | `meshdesktopmultiplex.js` | `images` (the linked list, by number), `imagesCounters`, `screen`, `dataPtr`, `viewersOverflowCount`, `paused` by name; `canvas` = what a viewer was sent last for each tile |
| `PeerSessions` | extends `PeerLinks`: the sessions of `meshuser.js`, `webserver.js`, `multiserver.js` | `wsPeerSessions`, `wsPeerSessions2`, `wsPeerSessions3`, `sessionsCount`, `users` by name; `status` = wssessions; `closing` = sessions whose close event is still to come; `uncounted` = users whose account was not there at the last change |
| `AmtManager` | the devices that `amtmanager.js` manages, as tasks of the limiter | `amtDevices`, `activeLocalConnections` by name; `dev` = the objects of devices, with what they wait for (`phase`); `current`, `pending` = the limiter |
| `AmtScanner` | extends `AmtManager`: `amtscanner.js`, and the events of nodes and CIRA connections that reach both | `scanTable` by name; `probes` = TCP probes that belong to no entry; `shown` = connectivity bit 4; `host` = the address in the database |
| `TaskLimiterProofs`, `PeerConnectivityProofs`, `PeerSessionsProofs`, `MeshRelayProofs`, `DesktopMultiplexProofs`, `AmtScannerProofs` | the theorems about the module of that name | none |
| `AgentProofs` | extends `AgentSession` and `AgentUpdate`: the theorems about both | none |
| `MpsProofs` | extends `MpsConnections` and `MpsChannels`: the theorems about both | none |
| `PeerLinksInv` | extends `PeerLinks`: what its steps are and what they keep, for the proofs about the modules that extend it | none |

`MC...` modules give names to model values and functions to constants. Every
other line of behaviour is in the module itself. The specifications of
`AgentSession` and `MpsConnections` have names of their own (`SessionSpec`,
`ConnSpec`, and so on), so that one module of proofs can extend both halves of a
server; each half is still specified, checked and proved by itself.

### TaskLimiter

`launch`, `completed`, `clean` and `setmaxtasks` are one action each. The code's
`completed` starts held tasks in a loop; a task whose function completes before
it returns (an agent that has gone, see `BecomeInstant`) calls `completed` inside
that loop. The two loops share queue and count, so together they take the
shortest prefix of the waiting tasks that fills the slots (`Release`,
`LoopEnds`). The clock is in ticks; a due interval callback runs before time goes
on. The argument of `setmaxtasks` goes through `parseInt`, and `ConsoleArgs` is what that
returns: numbers, and `NaN` for a word. `NaN` is neither smaller than 1 nor greater than 1000, so
it is stored (`Refused`), and no count is smaller than it (`Free`). `MaxTaskTime` and `CleaningInterval` stand for 20 and 60 seconds.

### PeerLinks, NodeState, PeerConnectivity

A connection is opened by the server with the smaller id. Each end has its own
state and channel; an end that closes loses what is on its way to it. The byte
level of the handshake (nonces, signatures) is abstracted to its outcome, its
messages (`confirm`, `info`, `table`, `set`, `clear`) are not. `LinkClose` takes
the peer off the list whichever connection is listed there, as
`ClearPeerServer` does. `Overlap` says whether a server may be reconnected
before it has noticed the end of the old connection: the code excludes nothing
of the kind, but the passing run assumes it away, and the run `peer_list_stale`
shows what happens otherwise.

### MpsConnections

A login is answered with or without a database lookup (`Cookie` names the
sockets without). The code's lookup callbacks do not look whether the socket is
still open, and neither does `LoginAccepted`. `HoldEnds` is the 300 ms timer,
`SocketClosed` the close listener or the idle timeout, `Disconnect` APF_DISCONNECT,
`CloseAllForNode` the loop over a list that shrinks while it runs. Each of these
runs `removeCiraConnection` as a whole (`Unlist`, `RemainingBits`).

### MpsChannels

A channel has a credit window in each direction. What the server does is
translated line by line from `SetupChannel` and `ProcessCommand`; the device
(`Amt...` actions) is external, and is what the server expects of it: it answers
an open, never sends beyond its credit, gives credit back for what it consumed and
answers a close it did not begin. The two streams are FIFO, as TLS is. Bytes are
numbers: only their order matters. `MaxWritten` and `MaxReplied` are bounds per
channel.

### AgentSession, AgentPresence

A connection receives three commands in any order; commands 1 and 2 together
bring the signature. `db.Get` and `isMaxType` are two actions each: the moment the
database reads, and the callback. Between them connections close, other
connections of the device come into service and a user removes the device.
`CloseAgent` is `obj.close`, with the deletion of temporary devices and the close
of the connection in service that goes with it. `EnterService` is
`completeAgentConnection3`: it lists the new connection, closes the old one (whose
listeners are removed: "mute") and then, whatever that did, marks the new one
ready. Each of the three commands is taken once: the code deletes its receiving
state when a connection is complete and a correct agent sends none twice.
`AgentPresence` knows nothing of databases: `Serve` puts a connection in service
in the place of another, `End` ends some connections of a device. `AgentSession`
implements it by a mapping that reads `serving` from authenticated and the socket,
`online` from the agent bit, and `past` from a closed or replaced socket.

### AgentUpdate

One action per handler: the hash of the binary (`BinaryHash`, command 12) chooses the
native update, the update by the recovery core, or nothing; the hash of the core
(`HashOfCore`, command 11) ends in a confirmation, another core, or silence;
`BlockTaken` (command 14) and `FileRead` send the next block; `CoreInfo`, `WantsUpdate`
and `Downloaded` are three messages of the agent's JSON; `AsksFor` is a user's request.
Each transfer is a task. `Completed` is `completed` of the limiter, which gives the slot
to the next held task *inside* the callback that completes: the tasks it starts
write to the object of a connection (`Begun`) and to its web socket (`Step`) before that
callback goes on, and those of closed connections complete at once. The order of these
writes is the code's: where the code deletes a field after `completed`, so does the
action.

The limiter is the one of `TaskLimiter`, without its clock: `Clean` may come to any task
at any time, which is more than the code's deadlines allow. Agents (`AgentObeys`,
`AgentDownloads`) are external: they acknowledge each block and answer each core with its
hash, or refuse it (`Stubborn`). `CoreTries` stands for 5; `MaxRequests` is the bound on
requests of users. What the agents are like is chosen once, at the start, from
`Populations`, so that one run checks several of them.

### MeshRelay, Rendezvous

A connection comes with an id. `PerformRelay` is `performRelay`: it is turned away at once
(`Unwelcome`), nobody is there (`Hold`), somebody is and may be joined (`Pair`), or may not
(`Refuse`), or one of the two is gone already (`BothLost`). `Match` is the comparison of the code:
one of the two must be authenticated, and both of one account, unless the id is one of the
messenger or one of them comes without a user (`obj.nouser`). `Account` is the account that is compared: with
a default user (`args.user`) all ends that have one have the same. `Barred` and `ForUsers`
are what a messenger id says of who may use it.

A user with routing instructions in its cookie waits for the database first (`ComesRouted`, then
`IsRouted` or `NotRouted`); the code goes on with whatever is left of the connection by then, and
so does the model. A user that only names a device is let in first, and its rights may be refused at
any time after that (`AccessDenied`). `CloseBothSides` is the one function that ends a session,
called by the close and the error event, by the 15 second timer and by the expiration (`Closed`,
`Fails`, `TimesOut`, `Expires`); `AccessDenied` does not call it.

On several servers each holds its own side: `HearsRelay` is the message by which a server tells the
others; the server with the smaller id opens a tunnel (`CreatePeerRelay`), which reaches
the other as one more connection (`TunnelComes`), with the authentication of a user who has one
(`HasUser`: `Hold` passes that of the user's session, `InSession`, and `HearsRelay` that of the
connection). If the peer has gone `CreatePeerRelay` does nothing, as in the code (`stranded`).
Servers lose each other, each noticing it by itself, and are connected again (`PeerLost`,
`PeerFound`): messages on their way are lost (`missed`), and nothing is said again. Both are
connected in one step, when both have noticed the end. A recording is opened after the pairing
(`RecordingStarts`), and finished five seconds after the end (`RecordingCloses`).

`Rendezvous` knows of no ids, timers or servers: a connection is alone, joined with another, or
over; two are joined only if one is authenticated, and both are of one account or one is exempt;
two that are joined are over together, unless one was refused its rights (`Leave`). `Welcome`
is the assumption on clients, under `Reuse = FALSE`: an id is made up for one user and one agent, so
that a third connection uses it only on the server where it sees both. `users` is its
history variable, and `Together` a bound: which ends come together, and with which ids.

### DesktopMultiplex

An image is a set of tiles; the list begins with the screen size. `Tile` appends an
image and takes out those whose last tile it covers; the fold of `Unlink` is the
code's loop over the covered tiles. `SendImage` and `Drained` are `sendViewerNext`,
called when the web socket took what it was given. `Slow` and `BecomeSlow` are
`checkViewerOverflow`, `Drained`'s last disjunct and `Leave` are
`checkViewerUnderflow`. A command of the agent is written to the recording before it is
applied (`AgentSends`, `Written`); two writes under way may end in either order.
The tiles of an image and its width times height are separate (`area`), because the
code counts with the second.

### PeerSessions

`SessionStart` lists, counts and announces a session; `SessionEnd` is the close of its web socket,
and `SessionStopped` the close by the server, after which `obj.close` runs a second time (`SecondClose`):
`removeAllListeners` is given a list of names (meshuser.js 224), which removes nothing. `ReadTable`, `ReadStart`
and `ReadEnd` are the messages of the peers, `ForgetSessions` is `ClearPeerServer`. The three tables
are separate variables, as in the code, and each message updates all three.

A count of one user is made and kept only if there is the account (`Recount`); `RecountAll` counts
everybody, and runs when a table comes and when a peer goes. `DeleteUser` removes the account, then
closes the user's sessions here and tells the peers to close theirs (`ReadBus`); `ChangeAccount`
is an account that is made, or that its user removes, which closes nothing. `Hearing` are the sessions that events reach:
one that began when its account was gone already is not subscribed (`deaf`). Accounts live in
each server by itself, as they do in the code without change streams of the database.

An exception in a message handler is not caught by this code: a message for which there is no list, and
the end of no session that `SecondClose` announces, end in `StartsAnew`, the restart of the server.

### AmtManager, AmtScanner

A handler of the scanner may stop several devices, and stopping one completes its task and
starts another: the operators of `AmtManager` therefore take the manager's state as one
record and return it (`Start`, `Stop`, `Removed`, `Completed`, `Contact`), and the
actions install the result (`ManagerIs`). The phase of a device says which callback is to
come: of the limiter (`held`), the database (`read`), the 5 second timer of a host that is
in another contact (`hold`), the device itself (`contact`, `tls`, `commit`, `sync`) or the
20 second timer between two credentials (`wait`). `Unlisted` is what a device leaves
behind when it is taken off the list: the callbacks that the code cannot cancel, which run
as the code lets them. `Removed` contains the removal inside the removal: cancelling
the queries that wait calls `amtSwitchToTls`, which removes the device, before the outer
call takes out what by then is at its index.

`PerformScan` is the scan as of the database's answer. Time is counted in scans (`age`): after two
of them without an answer more than 30 seconds have passed, after four more than 65; after three it
may be either. An answer is for the entry as it is when it comes (`Pong`, `ProbeAnswered`), or
for an entry that was dropped (`LateAnswer`). `Moved` is the loop of the `changenode`
event over the list that it shortens. CIRA connections come and go as `MpsConnections`
describes, reduced to their three states.

## Runs

The passing runs take between a few seconds and three minutes each with two workers.
Type invariants are proved (below) and are left out of the runs, whose properties speak of something that could be wrong.
Deadlock is not checked: each model may really stop (all connections of the bound
used up, every task done).

| Run | Instance | Shows |
|---|---|---|
| `task_limiter` | 4 tasks, 2 slots, arguments 0, 1, 2 and a word, deadline 1, interval 2 | slot count, deadlines, each task once; limit, priority, no idle slot after a completion; a held task starts even if no task ever reports, unless the limit becomes NaN |
| `peer_connectivity` | 2 servers, 2 nodes, agent and CIRA bits, 2 connections, 2 changes, 1 restart | lists, copies and view right at every step, exact copies in the end |
| `mps_connections` | one device, two CIRA connections that may overlap and need a lookup, two relays in turn, one LMS | a connection that is up is shown; the relay bit is exact |
| `mps_channels` | 2 channels, window 1 to the device and 2 from it, 3 bytes and 2 bytes on the first channel, 1 byte on the second | stream and windows, tunnel count, agreement; what is written arrives |
| `agent_session` | 3 connections of one device: of an ordinary agent, of an agent in a group of temporary devices, of a recovery agent; session limit 1; device limit 1, two other devices that may be removed | `AgentPresence` is implemented; the connection in service is ready; no agent is lost |
| `agent_update` | 2 agents, 1 slot, in two populations: both with outdated binaries of 2 blocks, one read from disk and one from RAM, and 1 request of a user; or one that is updated by the recovery core and one that takes no core, with 2 tries and no user | blocks come once and in order, a native update goes on, held tasks start, nothing starts after the close; the agent is told to update itself; every agent comes to the core that it needs and keeps it, or has refused it |
| `mesh_relay` | 2 servers that lose each other, 1 tunnel; who comes together: a user that names a device and whose cookie expires, an agent and a user of another account; or a routed end without a user, with 1 id that it chose and 1 made up, and the agent; or two users of different accounts with a messenger id; recorded | `Rendezvous` is implemented; what is given up is closed unless the peer had gone; two sides on two servers are on their way to meet unless the servers lost each other; one end per recording; nobody else is held for ever |
| `desktop_multiplex` | 2 viewers, one of which refreshes; a screen of two tiles that may become one of one; whole, shared and broken tiles; 3 commands; recorded and not | the list is sound, every viewer can catch up and does; slow viewers are counted; the agent goes on |
| `peer_sessions` | 2 servers, 2 connections; a user with a session on each and 2 changes of the account, or 1 restart of a server; or 2 sessions on one server and 1 on the other | tables agree at every step, and counts while the account is there; servers know each other's sessions in the end |
| `amt_scanner` | 2 devices at one of 2 addresses, the group of one wants TLS, the other has 2 credentials, and 1 event; or one device, 2 events and any hosts that answer; 1 slot, 3 device objects | first contacts with a host exclude each other; what leaves the list leaves no slot behind; a device that answers is shown again and again |
| `peer_list_stale` | 2 connections, overlap allowed | violated: see below |
| `agent_temp_ready` | two connections of one temporary device | violated: see below |

### Why the bounds are enough

* `TaskLimiter`: with two slots and four tasks, two run while two are held in one
  queue or in different ones; a limit below the number of running tasks and
  above it both occur, and one that is refused, and `NaN`; with deadline 1 and interval 2 a task is seen once in
  time and once too late.
* `PeerConnectivity`: two connections between two servers are a loss and a
  reconnection, each seen first by either side; one restart comes before, between
  and after them; two changes may straddle any of these and concern one node on two
  servers, or two nodes. The safety properties were checked for three servers too, on a
  smaller instance (one node, `MaxConns = 1`, no restart: 37,581 states, no error). A peer is only ever
  merged with the others through `View`, so a third server adds a third table
  and no new step.
* `MpsConnections`: the removal rule looks at whether another connection of the
  same type is left, so two of a type decide it; a third type (LMS) shows
  nothing and takes an index of the list.
* `MpsChannels`: a write is smaller than, equal to and larger than the credit of
  one; two replies are needed before credit is given back, so the sum of pending
  credit matters; the second channel makes closes and confirmations of two
  channels interleave. Windows {1, 2} with two bytes were also checked (852,196
  states, three minutes).
* `AgentSession`: three connections of a device give a replacement of a
  replacement while the first still has its idle timer. The limits are reached
  and passed. Connections of another device meet these only through the two
  counts.
* `AgentUpdate`: with two agents and one slot a task is held whenever the other agent has
  the slot, so every handler runs with its task started, held, cleaned and dropped. Two
  blocks are a first, of which the end is not looked at, and a last; two tries are one
  that may be followed by another and one that may not.
* `MeshRelay`: three ends and a tunnel are the two sides of a session, a connection that has no
  right to be there or loses it, and the one crossing between servers; a second tunnel would need a
  fourth end. The two servers may lose each other and be connected again any number of times, since
  a message is either on its way or lost. What makes ends different (routing instructions, a
  device that is named, a messenger id, no user) is divided between the sets of ends that come
  together (`Parties`, a bound: the code lets any ends come with any ids). Larger sets were checked
  by themselves, with no error: two users of one account and their agent (85,510 states), a
  user that is looked up, an agent and a user of another account (463,301), an end without a
  user and users of two accounts with a messenger id (247,206).
* `DesktopMultiplex`: three commands are a screen size and two images, of which the
  second may hide the first whole or in part, or two sizes. With a queue limit of 1 a
  viewer is slow and no longer slow several times; two viewers are what the pause
  needs: both slow, one slow, one that leaves.
* `PeerSessions`: two changes are an account that is deleted or removed and made again, on one
  server or both, and a loss and a reconnection come between any two of these and of the sessions'
  starts and ends. Two sessions of a user on one server are needed for a list from which one is taken
  and one stays. `Bounds` says which of these come together; two sessions on one server with a restart
  were checked by themselves (316,155 states, no error).
* `AmtScanner`: an event is a host that begins or ceases to answer, a CIRA connection, a
  change or removal of a device, or a probe that lasts longer than the time between two
  scans, or fails though the host answers (`Populations` bounds them in all). Two events
  are an address that changes and changes back, a connection that comes during such a
  change, or a host that fails in between. Two devices at one address contend for it, and for the
  slot, in all phases; a device and its CIRA connection are two entries of one
  list. Three objects (`Devs`) are enough for these: with three events to one device
  all may be taken, and what needs one then waits (`Room`), which the code never does. The
  database answers before the next scan. A retry after 408 repeats the contact at once,
  with TLS or without, and changes nothing that is modelled.

### Fairness

* `TaskLimiter`: time passes and the due interval callback runs (`WF` of `Tick`
  and `Clean`). No fairness of owners: a task may never report its end. None of operators: a
  limit of `NaN` may stay for ever, which `HeldTaskStarts` excepts.
* `PeerConnectivity`: what arrived is processed, an end is noticed once the other
  side closed (TCP), and the retry timer connects again. The last connection of
  the bound does not fail: `Converges` speaks of the time when failures stop.
* `MpsChannels`: both ends read what arrives and the user of the device consumes
  it. No one is obliged to write or to close.
* `MeshRelay`: timers run out, the database answers routed users, a close event follows every
  close. Servers that lost each other need not be connected again. No client is obliged to come or to close.
* `DesktopMultiplex`: the web socket of a viewer takes what it was given (or the
  viewer leaves), and a write of a record ends. The agent is not obliged to send.
* `PeerSessions`: as for `PeerConnectivity`.
* `AgentUpdate`: as long as there is a callback to run, one runs (`WF` of `Work`: files,
  sockets, agents and the limiter's interval). No user has to ask for anything, no
  connection closes, no download ends.
* `AmtScanner`: the scan timer keeps firing, of the probes under way one ends, the database
  answers. Pings may all be lost, and no device is obliged to answer the manager.
* `AgentSession`: the database answers each call and its callback runs. No
  agent is obliged to send anything.

## What the code does otherwise than it says

The two violation runs, with the lines they disagree with, are `findings` in
`PROJECT.json`.

1. `peer_list_stale`: `ClearPeerServer` does not look which connection ended, so
   the end of a peer's old connection takes the new one off the list.
2. `agent_temp_ready`: a connection that replaces one of a temporary agent is
   closed by the removal of the device and then marked ready.

Other observations, made with the same modules; no listed run repeats them. For the first four,
put the invariant in brackets in the place of the properties in the configuration of the module's run.

* `setmaxtasks` with a word that is no number sets the limit to NaN, which passes both range tests
  (meshuser.js 7719), against its usage line, "[1 to 1000]" (7720; `LimitInRange` in
  `MCTaskLimiter`). Nothing is launched from then on and no slot given back is taken. If the last
  slot is given back meanwhile, what is held waits for the end of a task that is launched after
  the limit is set again.
* `deleteuser` removes the account (meshuser.js 1310) before it closes the user's sessions (1315), and
  a count is made and stored only for an account that is there (meshuser.js 179, webserver.js
  8979-8984): `sessionsCount` keeps what it was until a connection to a peer is set up or ends
  (`CountsAreExact` in `MCPeerSessions`). This is the exception of `SessionsAreCounted`.
* A user that names a device without routing instructions is joined before the database has answered
  whether it may (meshrelay.js 1067); a refusal closes and cleans only its
  own side (1072), whose close event finds no id any more: the other side stays open, though the
  comment at 736 says that both sides are closed (`BothAreClosed` in `MCMeshRelay`). The session
  stays listed until that side closes, and for ever, with its recording, if both are refused. This is
  the exception of `RendezvousSpec` (`Leave`) and, as `denied`, of `EndedIsClosed` and `RecordingEndsOnce`.
* What peers hold is remembered when they go (`wsPeerRelays`), and `createPeerRelay` returns without
  a word for a peer that has gone (multiserver.js 614); the connection is taken off the list all the
  same (meshrelay.js 652) and stays open and paused (`HeldIsListedOrTunnelled` in `MCMeshRelay`).
  This is the exception of `EndedIsClosed` and `NobodyIsHeld`, as `stranded`.
* `UpdateConnectivityState` compares the new connectivity with the old *power state*
  (meshcentral.js 2560): a change may not be told to the users (`UsersAreTold`, with
  `PeerEventMissed.cfg`).
* `closeAllForNode` iterates over the list from which `close` removes, and leaves every
  other connection of the device open (mpsserver.js 1185, against the comment at 1181:
  `DroppedIsClosed`, with `MpsCloseAll.cfg`).
* With `Overlap = TRUE`, `ViewIsMerged` fails: a new table of a peer replaces the
  old one (multiserver.js 476) and nodes that only the old one had are never merged
  again.
* `ShownIsConnected` (in `MCMpsConnections`) is lost in three ways: a socket closes
  during the lookup of its login and is then added for ever (mpsserver.js 889); of
  two connections of a type the second ends during its hold, after the first was
  removed without clearing the bit (mpsserver.js 201); the power poll of a relay
  connection sets the CIRA bit (amtmanager.js 946). `OrderlyIsExact` is what remains.
* `SessionLimit`, `DeviceLimit` and `ConnectedIsKnown` (in `MCAgentSession`) fail:
  sessions are counted before the lookup after which the agent is listed
  (meshagent.js 697); `isMaxType` refuses only above the limit (db.js 3056); a device
  removed during the lookup comes into service unknown, and is stored again
  if it changed (meshagent.js 744).
* The idle timer of a replaced connection in a temporary group deletes the device of
  its replacement and disconnects it (`MuteIsIdle`).
* The callback of `isMaxType` uses what the close of the agent deleted and throws;
  the model takes it as a callback without effect.
* An agent held because of `maxagentsessions` is never looked at again
  ("held" in `lookup`): it has to reconnect.
* Updates. A core is chosen when its task is launched, and the task may be held; a custom
  core that a user sends meanwhile is overwritten by it (meshagent.js 223, against the
  comment at 166: `CustomIsKept`, `AgentCustomLost.cfg`).
* `agentCoreCheck` is 1001 when a user asked for the recovery core, and is then incremented
  as the count it also is: the server no longer knows what was asked for when the agent
  reports that core (meshagent.js 236, against 188: `RecoveryIsUsed`,
  `AgentRecoveryLost.cfg`).
* `completed` may start another update of the same connection, whose task id is then
  deleted in the place of the old one; when the connection ends, its slot is taken until
  `clean` (meshagent.js 1614, against 126: `CloseFreesSlots`, `AgentSlotKept.cfg`).
* The file of an update whose connection ends during `fs.open` is never closed
  (meshagent.js 291, against 118: `CloseClosesFiles`, `AgentFileKept.cfg`). When `fs.open`
  fails, the task keeps its slot until `clean` (292).
* The bound of five cores does not hold while `agentCoreUpdate` is set (206): an agent that
  takes no recovery core is sent it for ever. A core task that was held may send its core
  in the middle of a native update, though a hash that comes then is ignored (164).
* Relay. A routed user whose socket closes or expires during its lookup is listed all the same, and
  the entry is never removed (`WaitingIsThere` in `MCMeshRelay`): what the comment at meshrelay.js
  384 says should never happen, happens. A connection that was tunnelled or stranded keeps its id and
  its timer, which may end the session of another that came with the id since (`ListedIsKept`). With `Reuse = TRUE`, where a third connection may use the id on
  another server, a connection can be left open and listed nowhere (`EndedIsClosed`).
* A connection that lost its web socket while it is listed cannot be tunnelled: `createPeerRelay` is given
  `undefined` (multiserver.js 534) and throws when it listens to it (674), which nothing catches. The
  restart of a server is not in `MeshRelay`: `HearsRelay` takes this as a message without effect.
* A tunnel opened by `performRelay` carries the user of the session (`req.session.userid`), which one that came with a
  cookie does not have: its far end is turned away unless something vouches for it (`InSession`).
  Ids that are made up for a routed user are not in the query that a tunnel repeats: its far end
  comes without an id and is closed.
* A server tells its peers of an id once, when it begins to hold it. If the message is lost with
  the connection, or the peer is connected later, two sides that wait on two servers do not meet
  before their timers end them (`missed` in `MeetingUnderWay`).
* The recording file is not closed if the session ended while it was being
  opened ("lost" in `file`).
* Desktop. When the agent of a multiplexor disconnects, the loop that disconnects all viewers
  (meshdesktopmultiplex.js 232) goes over the list that each close shortens, and every
  other viewer is left connected to nothing.
* Images whose size is not a whole number of tiles are given a count of 0 or of fewer
  tiles than they cover: the first kind is never taken out of the list, the
  second (`MCBrokenRects`) is taken out while it is still in sight, and `CanCatchUp` fails.
* The callbacks of two writes of a recording may come in either order, and the commands are
  then applied in that order: viewers stay consistent with the multiplexor, which may
  differ from the device.
* Sessions. A web socket that closes while its session id is made leaves a
  session listed for ever (`ListedIsOpen` in `MCPeerSessions`).
* A session that the server closes (it expired, its login token or its account was removed, its web
  socket had an error) runs `obj.close` twice; the second run announces the end of the session
  `undefined`, on which the peer's handler throws (multiserver.js 506; `SecondClose`, `ReadEnd`).
* A user whose account is removed on one server keeps the sessions on others that began while those
  did not have the account either (`deaf`).
* With `Overlap = TRUE` in `PeerSessions`, the end of an old connection forgets the list
  of the new one: the next `sessionStart` throws (`StartFindsList`), and a new table
  leaves routes of sessions that ended (`SessionsAreRouted`). `SessionsAreCounted` holds
  even then.

* Intel AMT. A device that is shown because it answered is dropped from the scan table when
  a CIRA connection of it appears (amtscanner.js 207); if its host does not answer once that is
  gone, nothing ever clears the bit (`SilentIsCleared`, `AmtSilentShown.cfg`), though a
  device without a response is to be marked unknown (179).
* A host stays locked when a device is removed during the first contact with it: the answer
  that would release the host is cancelled. Later contacts with it try again every 5 seconds
  for ever (amtmanager.js 663; `ActiveIsPending`, `AmtActiveLeaks.cfg`).
* A device that is removed while the three queries that set up TLS are under way takes the
  devices that follow it in the list along (180), whose slots are taken until `clean`
  (`RemovedIsAlone`, `AmtRemovedBeside.cfg`): the exception of `SlotsAreFreed`.
* The address with which an entry of the scan table was made is never refreshed. After a
  change of the address, management starts and stops at the old one (181, 195). The loop of the
  `changenode` event passes over the device that follows one that it removed (363).
* Whether a device is still managed is not looked at when the database answers (457): a
  device that was stopped meanwhile is contacted all the same, and holds the host while it is.

## What is proved

Every invariant, action property and refinement that a run checks is proved as well; what is
left to TLC alone is liveness. TLAPS proves, for every value of the constants that satisfies the
named assumptions of the modules:

`TaskLimiterProofs` (assumptions `LimitAssumption`, `TimeAssumption`: there is at first at
least one slot, the argument of `setmaxtasks` becomes an integer or `NaN`, which is none, and the
interval is positive):

* `TypeCorrect`, `SlotsAccounted` (`SlotAccounting`), `SlotsExpire` (`HoldBound`),
  `LimitIsRespected` (`LimitRespected`), `FreedSlotsAreUsed` (`WorkConserving`), and
  `LimitIsAlwaysUsed` (`LimitIsUsed`), which is both: while the limit is `NaN` no slot is
  taken at all, and a slot may stay free.
* The inductive invariant `IInv` is types, the slot count, `TimerArmed` and `Aged`.
  `HoldBound` alone is not inductive: a clock tick may break it unless the time a
  task has left is compared with the time to the next run of `clean` (`Aged`), and
  that needs the timer to run whenever a task has a slot (`TimerArmed`). The heart
  of the proof is one lemma about `Release`, which `completed`, `clean` and the
  nested launch share: the shortest prefix that fills the slots leaves the count
  right, exceeds no limit and leaves no idle slot.
* `NeverStartedTwice` (`StartedOnce`) and `PriorityIsStrict` (`StrictPriority`).
  `StartedOnce` speaks of the three queues as one sequence; `OnceInv` says it queue by
  queue, with what has been launched, and is inductive together with `IInv`.
  `ReleaseOnce` and `ReleaseOrder` carry both proofs: the loop of `completed` takes
  `TakenOf(p, k)` tasks of the queue of priority p, all of it before the first of the next,
  and gives each a slot of its own.

`AgentProofs`, on `AgentSession` (assumption `AgentAssumption`):

* `SessionTypeCorrect`, `ServiceIsReady` (`ListedIsReady`), `ShownIsServed`
  (`ConnIsListed`), `ReplacedIsOver` (`ReadyIsListed`), and `PresenceIsKept`: the
  agent server implements `AgentPresence`.
* None of these is inductive alone. A late command could make a listed connection
  unready, or a late database answer could bring into service the connection that
  already is: `Progress` excludes both, since what is pending or ready has received
  all three commands and a lookup is under way only for what is pending.
  `NoRecovery` keeps recovery agents, which are ready without being listed, out of
  service. Two lemmas, one on `CloseAgent` and one on `EnterService`, carry the
  proof; every callback is one of them or moves a lookup on. The refinement maps
  each of them to `Serve` or `End`: an entrance whose replaced connection takes the
  new one along is an `End` of both.

`MpsProofs`, on `MpsConnections` (assumption `SocketAssumption`):

* `UpIsAlwaysShown` (`UpIsShown`), `OrderlyIsAlwaysExact` (`OrderlyIsExact`), and
  `ConnTypeCorrect`.
* `UpIsShown` alone is not inductive. `removeCiraConnection` takes one occurrence out of
  the list and keeps the bits of what is left, so a socket listed twice, or listed under a
  device it did not log in as, would be shown wrongly (`Injective`, `ListedIsAdded`).
  `OrderlyIsExact` needs `OrderlyAlone`: a connection whose bit is exact is alone of its
  type in the list, open, and not shown during its hold.
* One lemma for each change of the list (`AddStep`, `UnlistStep`, `ShowStep`,
  `CloseAllStep`), on lemmas about lists without duplicates: appending an element, taking one out
  (`AppendList`, `RemoveAtList`, which `PeerSessionsProofs` states as well), and keeping every other
  element, which is what the loop of `closeAllForNode` does.

`PeerConnectivityProofs` (assumptions `PeerAssumption` and
`~Overlap`, the second stated in each theorem; without it run `peer_list_stale` shows the
first of the properties to fail):

* `ListIsAlwaysExact` (`ListIsExact`), `NeverTableWithoutPeer` (`NoTableWithoutPeer`),
  `ViewIsAlwaysMerged` (`ViewIsMerged`), and `TablesAreAlwaysRight` (`TablesAreRight`), which is
  the last two, for any number of servers.
* It begins, as `PeerSessionsProofs` does, with lemmas about the connections between the servers:
  each of their steps (`LinkStep` of `PeerLinksInv`) keeps `LinkInv`. Its core is `Successive`: of two connections of a
  pair of servers the earlier is closed at both ends, so that at most one is alive and
  `ClearPeerServer` takes the right one off the list.
* `ViewIsMerged` is not inductive: a peer's table merges only the nodes of the new
  table, which is right only if there was no old one. `TableFirst` says so of what is
  in a channel: nothing before the connection is set up, then one table, which finds none,
  then changes. `NoTableWithoutPeer` gives it its start. These are claims about
  messages on their way, so every step that sends, reads or loses one has its part in
  the proof (`AddTable`, `AddOther`, `TakeData`, `CloseStep`, `RestartedStep`).
* `CopiesAlwaysAgree` (`CopyAgrees`). With nothing on its way there is nothing to keep
  invariant, so `CopyInv` says it of every moment: the messages on their way, taken one after the
  other, turn the receiver's copy into the sender's table (`Leads`, which asks for the tables
  between them instead of computing the last). `LeadsTail` and `LeadsAppend` are what reading and
  sending do to it, and `LeadsTable` that whatever came before, a table makes the copy right.
  The receiver ignores what comes before it has set the connection up, so that the claim needs
  `HandInv`: an end that is not set up still has the sender's information before it, and
  only that, in front of the table and the changes.

`PeerSessionsProofs` (assumptions `PeerAssumption` and `SessionsAssumption`, by which there
are finitely many sessions):

* `SessionsAreAlwaysCounted` (`SessionsAreCounted`), whether or not connections overlap. It excepts
  the users whose account was not there when one of their sessions last changed (`uncounted`), of
  whom the count may be wrong (see the observations).
  A message of a peer recounts one user only. That is enough because the count of a user
  depends on nothing but the sessions of that user and the lists they are in
  (`CountKept`); the end of a peer recounts everybody (`AnewCounted`). `ClosesCounted` is the close
  of several sessions in one step, as the deletion of a user does.
* `SessionsAreAlwaysRouted` (`SessionsAreRouted`), under `~Overlap` as above. It is not
  inductive. A table replaces what was known of a peer and a `sessionStart` appends to it, so
  what is known has no duplicates only if no session comes twice: `ComesOnce` says so of
  a channel, where a session comes in the table or by itself, nothing of sessions comes before the
  connection is set up, and one table comes to a server that has none; ends, of a session or of none, and
  the event that closes the sessions of a user bring no session (`NewsKeep`). `PeersOnly` says that
  what is known was started once by a server that is still listed, and `LinkInv` is
  the invariant of the connections.

`MeshRelayProofs` (assumptions `RelayAssumption` and `~Reuse`, the second stated in each
theorem: with a third connection that uses the id on another server, `EndedIsClosed` fails,
see the observations):

* `RendezvousIsKept` (`RendezvousSpec`): the relay implements `Rendezvous`. Every arrival
  maps to `Come`, `Join`, `End` or, for one that waited for the database, a stutter;
  `closeBothSides` to `End` of both sides, or a stutter if the connection was over; the
  opening of a tunnel, or the failure to open one, to `End` or a stutter; a refusal of rights to `Leave`.
* `EndedIsAlwaysClosed` (`EndedIsClosed`), `MeetingIsAlwaysUnderWay` (`MeetingUnderWay`),
  `RecordingAlwaysEndsOnce` (`RecordingEndsOnce`), `TypeCorrect`; for any number of
  servers, ends, accounts, tunnels and ids. Each says what it excepts: connections whose peer had gone
  (`stranded`), sides refused their rights (`denied`), messages lost (`missed`).
* The list is right only with what lists it: `WaitingInv`, `PairedInv` and `PeerInv` say that an
  entry and the objects it holds name each other, but for a side that was refused (`Side`, `DeniedInv`);
  `PlacedInv`, that who has an id is in the entry of that id or
  the entry is empty, without which `closeBothSides` could remove the entry of somebody else; `OpenInv`,
  that what is open is waited for. `LookupInv` keeps a user that waits for the database from an id
  that others use on its server. Between servers, `TwoHomes` says that two ends on different servers are all
  that an id has, `SaidInv` and `TunnelInv` that whatever was said, remembered or tunnelled
  goes to a server where the id was held, `StrandedInv` that so did what could not be tunnelled, and
  `ToldInv` that a server with a smaller id is told of
  a connection that waits, missed it, remembers it, or will hold no other: `MeetingUnderWay` is
  kept by it when the second of the two comes. `FreshInv` and `RecordedInv` tie the
  recording to the second connection, so that neither a late start nor a second
  end finds it in another state.
* `PerformKeeps` covers every connection that is let in, with a lemma for each outcome
  of `performRelay` (`HoldKeeps`, `RefuseKeeps`, `BothLostKeeps`, `PairKeeps`). That the id was
  the connection's to use (`Entitled`) is shown for each way to come: `ComesArrives`,
  `RoutedArrives`, `TunnelArrives`. `CloseKeeps` covers every end but the refusal
  (`AccessDeniedKeeps`), `PeersKeep` the loss and return of a peer, which touch nothing but words
  (`WordsApart`).

`MpsProofs`, on `MpsChannels` (assumption `WindowAssumption`: windows are positive, bounds are natural
numbers):

* `StreamIsIntact` (`StreamIntact`), `CreditIsKept` (`CreditKept`), `EndsAlwaysAgree`
  (`EndsAgree`), `TypeCorrect`; for any number of channels, any windows and any amount of data.
* The properties speak of what is on its way, which `BytesIn` and `Total` define by recursion
  over a stream. What such a definition computes needs induction. The induction theorems of the
  library have an operator as a parameter; the set form that `SetInduction` derives from the
  well-foundedness of the natural numbers has none. It gives what the proofs use: that the
  recursive functions exist and are unique (`IterationExists`, `Agreeing`), and what a message
  that is sent or read adds or takes (`TotalOfAppend`, `TotalOfTail`, `BytesOfAppend`,
  `BytesOfTail`).
* `StreamIntact` and `CreditKept` are not inductive: they are about channels open at both ends, and
  bytes are written before. `Stream` says the same from the moment a channel is set up, `Window`
  turns the bound into an equation (the credit at the server, the bytes and the credit on their way
  and the unread bytes are the window), and `ReplyWindow` is its counterpart.
* They need to know what can be on its way. `Ordered` says of both streams that what begins
  a channel comes before the rest of it and what ends it comes after; `Opening`, `Confirming`
  and `Failing`, that an open, a confirmation or a refusal is alone with what its sender may have
  sent after it; `Closing`, which closes are on their way for each pair of states of
  the two ends. `EndsAgree` is `Closing` with nothing on its way. The count of tunnels is
  changed by a confirmation and by a close of the device, the moments at which a channel
  enters and leaves the set that `TunnelsCounted` counts (`StepAdds`, `StepTakes`, `StepWithin`).
* One lemma per action and per branch of the device's reading (`AcceptKeeps` to
  `AmtReadCloseKeeps`). What it does to its own channel is shown part by part; the other
  channels follow from `Untouched`, since no step adds or takes a message of theirs.

`DesktopMultiplexProofs` (assumptions `MultiplexAssumption`, and `WholeTiles`, which each theorem
states: an image fills the tiles it touches, or its size is not a whole number of tiles. With
an image that fills parts of its tiles only, but whose area is a whole number of them, `CanCatchUp`
fails, see the observations):

* `BooksStayRight` (`BooksAreRight`), `ViewersCanCatchUp` (`CanCatchUp`), `TypesAreKept`; for any
  number of viewers, any screen and images, any queue limit and number of commands.
* Both properties are about walks. `BooksAreRight` follows the list from its first image,
  `CanCatchUp` paints it from where a viewer stands. The invariant says it of single images and
  neighbours: `Linked`, that the next and the previous image of each are its neighbours in the order
  in which they came; `Shown`, that the last image that touches a tile is the one the screen shows;
  `Catches`, that a viewer begins anew, or every tile of its canvas that differs is touched by an
  image that it is still to be sent. `Counting` ties the count of an image to the tiles that show
  it, so that an image is taken out when nothing shows it any more and not before.
* `FromWalks` and `WalkCatches` lead back to the walks, by induction over the images that are left.
  The loop of the code that takes the hidden images out is a fold over a set, in an order
  that is not said: `FoldOfUnlink` shows, for the subsets of that set, that what is left is the list
  without them in any order.
* The heart is `TileStep`: a tile appends an image, lowers the counts of those it covers and
  takes out any number of them, while each viewer that stood at one of these moves on to the next
  that is left. `SlowAreCounted` needs of every step how many viewers become slow (`SlowStep`,
  `CountMore`) or cease to be.

`AgentProofs`, on `AgentUpdate` (assumption `UpdateAssumption`: finitely many agents, at least
one slot and one block, and `None` is neither a core, a task nor the record of an update):

* `UpdateStaysSound` (`UpdateIsSound`), `NothingStartsAfterClose` (`NothingAfterClose`),
  `TypesAreKept`; for any number of agents, slots, blocks, cores and requests.
* The invariant says of each connection where its native update is (`Flow`): at rest or
  over, at block k, at the read after block k, at the opening of the file, or held by the limiter.
  Each phase says what is on its way in both streams, what the agent has, and that the
  limiter, the file calls and the record of the update show nothing else. "One thing at a
  time" is not inductive: an acknowledgement that comes while no update is recorded must be the last of
  the one before (`Rests`), and a task that starts inside the callback of another
  connection must find its own at rest. `Before` and `After` are the phases of a connection that is not
  ready yet and of one that is over.
* The limiter decides whose task starts, and in which callback. `CompletedGives` says of one
  completion, and `TwiceCompleted` of the two in `close`, that a held native update stays held or is
  started once, and only on a ready connection. `StepKeeps` then keeps the
  invariant for all connections but the one the callback is of: what reaches those is only
  what starts (`FlowGoesOn`).
* Other messages share the two streams. `Free`, `Single` and `Pair` say which messages of an
  update a stream holds and nothing of the others, so that a core, a hash or a request
  between two blocks is of no account (`FlowStays`, `FlowPasses`).

`AmtScannerProofs` (assumptions `ManagerAssumption`, `ScannerAssumption`: finitely many nodes, at
least one slot, credentials for every node, objects that are numbers):

* `FirstContactsAreAlone` (`ContactsAlone`), `SlotsComeFree` (`SlotsAreFreed`), `TypeCorrect`; for
  any number of devices, addresses, slots and objects, and lists of any length.
* The inductive invariant is a predicate of the manager's state as one record, since a handler goes
  through several of them. `Sound(m, D)` says that state m is right, and that the devices of D
  exclude each other in first contacts: between two steps of a handler a device may be in a contact
  that is answered or whose address is changed already, and is left out of D until it is dealt with.
* `SlotsAreFreed` needs to know who has a slot (`SlotsRight`), that slots are free only when
  nothing is held (`SlotsInUse`), and `HeldInOrder`: the devices of a node are held in the order of
  its list, the last ones. Without that order `removeDevice`, which completes the tasks of all the
  devices of a node while they are listed, could give a slot to one that it has completed already.
  `TlsRight` bounds how many devices are cut off with one whose queries are cancelled.
* One lemma for each operator of `AmtManager` (`CompletedStep`, `RemovedStep`, `StopStep`,
  `RemoveAllStep`, `StartStep`, `ContactStep`, `AnsweredStep`, `ChangeStep`), each with what it does
  to the slots (`Follows`, which composes: `FollowsOn`). The loops of `performScan`, of the event of a
  change and of `removeDevice` are recursive functions over the list: that they exist, and what holds
  after every round, is shown by the set form of induction as in `MpsProofs` (`CompletedOf`,
  `StoppedStep`, `MovedStep`, `CompletesAllStep`).
* The loop of the event of a change removes devices from the list that it goes through. What it does
  to three or more devices of a node is beyond the instance of the run.

## What is only model-checked

* Liveness: `HeldTaskStarts`, `Converges`, `WrittenIsReceived`, `SessionSettles`,
  `NobodyIsHeld`, `AgentGoesOn`, `ViewersCatchUp`, `SessionsConverge`,
  `HeldTasksStart`, `CoreSettles`, `OutdatedIsTold`, `PresenceFollows`. The prover does not reason about
  fairness and ENABLED.
* What is proved of `DesktopMultiplex` is proved under `WholeTiles`, of `PeerConnectivity` and
  `PeerSessions` under `~Overlap` where it says so, of `MeshRelay` under `~Reuse`; without these
  TLC finds the properties violated.
* No module declares a RECURSIVE operator. Recursive functions and folds are reasoned about
  by the set form of induction (`SetInduction`, and `SubsetsAgree` for the subsets of a finite
  set), since the induction theorems of the library take an operator as a parameter.

## What is not modelled

Beside the components marked `not_modelled`: the bytes of the protocols
(APF framing, handshake nonces and signatures, JSON), TLS, the contents of device and
group records, permissions, the texts of events.

* Agents: several servers in `AgentSession`. It models one, where `conn` is the agent bit of
  the merged state; with peers the bit may be another server's (listed as a hazard).
  `getMeshAutoCreate` is abstracted to its outcome (a group, or none: `NoGroup`).
* Updates: agents that reconnect too often and are refused the update, agents of an unknown
  architecture, `setmaxtasks` (a limit of `NaN` would stop all updates) and the deadlines of tasks,
  which are in `TaskLimiter`. The server has a
  binary for every agent, and what it has does not change.
* Relay: what the two sides say to each other, the statistics, messenger sessions that push
  messages (which have no timer), routing instructions in the query of a URL (which a tunnel would repeat), connections
  between servers that overlap, and the variants of the module for one side only.
* Multiplexor: the compression that viewers ask for, a recording that a viewer starts
  while the desktop is shown, and its creation.
* Intel AMT: connections through LMS and CIRA relays, which the manager treats as CIRA
  connections with other ports; activation and deactivation; what the set-up reads and
  writes on the device (`sync` is all of it, one query at a time); scans of address ranges;
  the one byte in which a ping carries the number of an entry.
* Sessions: the commands of users but `deleteuser`, which are database reads and writes one by one;
  accounts that change streams of the database bring; peers' messages that are only passed on
  (`msg`, `cookieAuth`, and `bus` but for the event that closes sessions).
* The adapters of `db.js`, routes and pages of `webserver.js`, and all code that runs in
  browsers or on devices. This, with third-party scripts (fonts, jQuery, bootstrap, image
  codecs), is most of the lines of the repository; little of it keeps state that callbacks
  share.

## Plan

Done: TaskLimiter; PeerLinks, NodeState and PeerConnectivity; MpsConnections; AgentSession
refining AgentPresence; MpsChannels; all of these with proofs; MeshRelay refining
Rendezvous; DesktopMultiplex; PeerSessions; AgentUpdate, which has the task limiter in it;
AmtManager and AmtScanner; these with proofs too.

Next: `AgentSession` on several servers, on top of `PeerConnectivity`; the activation of
Intel AMT devices, on top of `AmtManager`.
