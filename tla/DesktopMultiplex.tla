-------------------------- MODULE DesktopMultiplex --------------------------
(***************************************************************************)
(* One desktop multiplexor (meshdesktopmultiplex.js): an agent sends the   *)
(* screen of its device as images of rectangles of tiles, and any number   *)
(* of viewers watch.  The multiplexor keeps the images that can still be   *)
(* seen in a linked list; every viewer walks along the list at its own     *)
(* speed, and one that joins begins at its head.  The agent is paused when *)
(* all viewers are slow.                                                   *)
(*                                                                         *)
(* One action is one callback: a viewer joins or leaves, the web socket of *)
(* a viewer took what was sent, the agent sends, a record was written.     *)
(* What the code calls a null reference is 0.                              *)
(***************************************************************************)
EXTENDS Integers, Sequences, FiniteSets, FiniteSetsExt, SequencesExt, Functions

CONSTANTS
    Viewers,      \* web sockets of viewers
    Refreshing,   \* those that may ask for a refresh (bound: once each)
    Sizes,        \* screen sizes, as the sets of their tiles
    Rects,        \* images: the tiles they touch, and width times height in
                  \* tiles (0 if that is not a whole number)
    QueueLimit,   \* a viewer with more waiting messages is slow (5 in the code)
    MaxData       \* bound: commands of the agent

ASSUME MultiplexAssumption ==
    /\ IsFiniteSet(Sizes) /\ \A z \in Sizes : IsFiniteSet(z) /\ z # {}
    /\ \A r \in Rects : r.tiles \subseteq UNION Sizes /\ r.area \in Nat
    /\ Refreshing \subseteq Viewers
    /\ QueueLimit \in Nat /\ MaxData \in Nat

VARIABLES
    mux,           \* "live" or "disposed"
    agent,         \* "none", "in" or "gone"
    paused,        \* obj.agent.paused
    viewers,       \* obj.viewers
    closed,        \* viewers whose web socket is closed
    dataPtr,       \* viewer -> image it is to be sent next
    sending,       \* viewers with a message under way
    queue,         \* viewer -> number of messages in its sendQueue
    overflow,      \* viewers that are slow
    viewersOverflowCount,
    counter,       \* number of the last image
    images,        \* number -> image of the list
    imagesCounters, \* number -> tiles that still show this image
    screen,        \* tile -> image it shows
    size,          \* width and height
    firstData, lastData, \* the ends of the list
    recording,     \* is there a recording file?
    writing,       \* recordingFileWriting
    writes,        \* commands of the agent that are being recorded
    canvas,        \* viewer -> tile -> image that was sent to it last
    refreshed,     \* viewers that asked for a refresh
    sent           \* number of commands the agent sent

muxVars == <<mux, agent, viewers, closed, recording>>
flowVars == <<paused, sending, queue, overflow, viewersOverflowCount>>
listVars == <<counter, images, imagesCounters, screen, size, firstData, lastData>>
writeVars == <<writing, writes>>
vars == <<muxVars, flowVars, listVars, writeVars, dataPtr, canvas, refreshed, sent>>

Tiles == UNION Sizes
Numbers == 0..(MaxData + 1)
Blank == [c \in Tiles |-> 0]
Present == ToSet(viewers)
Commands == [type : {"size"}, tiles : Sizes] \cup [type : {"tile"}, rect : Rects]
            \cup {[type |-> "control"]}

TypeOK ==
    /\ mux \in {"live", "disposed"} /\ agent \in {"none", "in", "gone"}
    /\ paused \in BOOLEAN /\ recording \in BOOLEAN /\ writing \in BOOLEAN
    /\ viewers \in Seq(Viewers) /\ IsInjective(viewers)
    /\ closed \subseteq Viewers /\ refreshed \subseteq Viewers
    /\ sending \subseteq Viewers /\ overflow \subseteq Viewers
    /\ dataPtr \in [Viewers -> Numbers] /\ queue \in [Viewers -> Nat]
    /\ viewersOverflowCount \in 0..Len(viewers)
    /\ counter \in Numbers /\ firstData \in Numbers /\ lastData \in Numbers
    /\ DOMAIN images \subseteq Numbers \ {0}
    /\ \A i \in DOMAIN images :
          images[i] \in [prev : Numbers, next : Numbers, tiles : SUBSET Tiles]
    /\ DOMAIN imagesCounters \subseteq DOMAIN images
    /\ \A i \in DOMAIN imagesCounters : imagesCounters[i] \in Int
    /\ screen \in [Tiles -> Numbers] /\ size \in Sizes \cup {{}}
    /\ writes \in Seq(Commands) /\ canvas \in [Viewers -> [Tiles -> Numbers]]
    /\ sent \in 0..MaxData

Init ==
    /\ mux = "live" /\ agent = "none" /\ paused = FALSE
    /\ viewers = <<>> /\ closed = {} /\ sending = {} /\ overflow = {}
    /\ dataPtr = [v \in Viewers |-> 0] /\ queue = [v \in Viewers |-> 0]
    /\ viewersOverflowCount = 0
    /\ counter = 1 /\ images = <<>> /\ imagesCounters = <<>>
    /\ screen = Blank /\ size = {} /\ firstData = 0 /\ lastData = 0
    /\ recording \in BOOLEAN /\ writing = FALSE /\ writes = <<>>
    /\ canvas = [v \in Viewers |-> Blank] /\ refreshed = {} /\ sent = 0

-----------------------------------------------------------------------------
\* checkViewerOverflow: the viewers among vs that become slow, with queue q and
\* pointer p.
Slow(vs, q, p) ==
    {v \in vs \ overflow :
        q[v] > QueueLimit \/ (p[v] # 0 /\ p[v] # lastData)}

\* They are counted; when all viewers in vw are slow the agent is paused.
BecomeSlow(slow, vw, wasPaused) ==
    /\ overflow' = overflow \cup slow
    /\ viewersOverflowCount' = viewersOverflowCount + Cardinality(slow)
    /\ paused' = (\/ wasPaused
                  \/ /\ slow # {} /\ agent = "in"
                     /\ viewersOverflowCount' >= Len(vw))

\* sendToAllViewers: the message waits in the queue of the viewers that are
\* sending, and is sent at once to the others.
ToAll(vw, wasPaused) ==
    LET all == ToSet(vw)
        idle == all \ sending
    IN  /\ queue' = [v \in Viewers |->
                       IF v \in all \cap sending THEN queue[v] + 1 ELSE queue[v]]
        /\ sending' = sending \cup idle
        /\ BecomeSlow(Slow(idle, queue, dataPtr), vw, wasPaused)

\* What viewer v sees when image i is painted over what it saw before: the
\* screen size command, which begins the list, clears the screen.
Paint(cv, i) ==
    IF i = firstData THEN Blank
    ELSE [c \in Tiles |-> IF c \in images[i].tiles THEN i ELSE cv[c]]

\* The image at its pointer is sent to viewer v.
SendImage(v) ==
    /\ canvas' = [canvas EXCEPT ![v] = Paint(@, dataPtr[v])]
    /\ dataPtr' = [dataPtr EXCEPT ![v] = images[@].next]

-----------------------------------------------------------------------------
\* addPeer of a viewer: it begins at the head of the list; it is told that it is
\* connected, and everyone who is watching.
Join(v) ==
    LET vw == Append(viewers, v)
        ptr == [dataPtr EXCEPT ![v] = firstData]
        idle == Present \ sending
    IN  /\ mux = "live" /\ v \notin Present \cup closed
        /\ viewers' = vw /\ dataPtr' = ptr
        /\ queue' = [w \in Viewers |->
                       IF w = v THEN 1
                       ELSE IF w \in Present \cap sending THEN queue[w] + 1
                       ELSE queue[w]]
        /\ sending' = sending \cup Present \cup {v}
        /\ BecomeSlow(Slow(idle \cup {v}, queue, ptr), vw, paused)
        /\ UNCHANGED <<mux, agent, closed, recording, listVars, writeVars,
                       canvas, refreshed, sent>>

\* addPeer of the agent.
AgentJoins ==
    /\ mux = "live" /\ agent = "none" /\ agent' = "in" /\ paused' = FALSE
    /\ UNCHANGED <<mux, viewers, closed, recording, sending, queue, overflow,
                   viewersOverflowCount, listVars, writeVars, dataPtr, canvas,
                   refreshed, sent>>

\* dispose: everything is forgotten, and writes that end later do nothing.
Dispose ==
    /\ mux' = "disposed" /\ agent' = "gone" /\ paused' = FALSE
    /\ viewers' = <<>> /\ overflow' = {} /\ sending' = {} /\ viewersOverflowCount' = 0
    /\ queue' = [v \in Viewers |-> 0] /\ dataPtr' = [v \in Viewers |-> 0]
    /\ images' = <<>> /\ imagesCounters' = <<>> /\ screen' = Blank /\ size' = {}
    /\ counter' = 1 /\ firstData' = 0 /\ lastData' = 0
    /\ recording' = FALSE /\ writes' = <<>> /\ writing' = FALSE
    /\ canvas' = [v \in Viewers |-> Blank] /\ refreshed' = {} /\ sent' = MaxData

\* The count of slow viewers without v.
NoLongerSlow(v) == viewersOverflowCount - (IF v \in overflow THEN 1 ELSE 0)

\* removePeer of a viewer, and of the agent with the last one.  A slow viewer
\* that leaves may let the agent go on; the others are told who is left.
Leave(v) ==
    LET left == RemoveFirst(viewers, v)
        count == NoLongerSlow(v)
        idle == ToSet(left) \ sending
        slow == Slow(idle, queue, dataPtr)
        resumed == v \in overflow /\ count < Len(left) /\ ~writing
    IN  /\ v \in Present /\ closed' = closed \cup {v}
        /\ IF left = <<>> /\ agent = "in"
           THEN Dispose
           ELSE /\ viewers' = left
                /\ queue' = [w \in Viewers |->
                               IF w = v THEN 0
                               ELSE IF w \in ToSet(left) \cap sending
                                    THEN queue[w] + 1 ELSE queue[w]]
                /\ sending' = (sending \ {v}) \cup ToSet(left)
                /\ overflow' = (overflow \ {v}) \cup slow
                /\ viewersOverflowCount' = count + Cardinality(slow)
                /\ paused' = (\/ paused /\ ~resumed
                              \/ /\ slow # {} /\ agent = "in"
                                 /\ viewersOverflowCount' >= Len(left))
                /\ dataPtr' = [dataPtr EXCEPT ![v] = 0]
                /\ canvas' = [canvas EXCEPT ![v] = Blank]
                /\ UNCHANGED <<mux, agent, recording, listVars, writeVars,
                               refreshed, sent>>

\* removePeer of the agent: the viewers are closed in a loop over the list that
\* each close shortens, so that every other one is left.
AgentLeaves ==
    /\ mux = "live" /\ agent = "in"
    /\ closed' = closed \cup {viewers[k] : k \in {j \in DOMAIN viewers : j % 2 = 1}}
    /\ Dispose

-----------------------------------------------------------------------------
\* sendViewerNext, when the web socket of viewer v took what was sent: first
\* the messages that wait, then the next image; when there is nothing to send
\* the viewer is no longer slow, and the agent may go on.
Drained(v) ==
    /\ v \in Present \cap sending
    /\ \/ /\ queue[v] > 0
          /\ queue' = [queue EXCEPT ![v] = @ - 1]
          /\ BecomeSlow(Slow({v}, queue', dataPtr), viewers, paused)
          /\ UNCHANGED <<sending, dataPtr, canvas>>
       \/ /\ queue[v] = 0 /\ dataPtr[v] # 0
          /\ SendImage(v)
          /\ BecomeSlow(Slow({v}, queue, dataPtr'), viewers, paused)
          /\ UNCHANGED <<sending, queue>>
       \/ /\ queue[v] = 0 /\ dataPtr[v] = 0
          /\ sending' = sending \ {v} /\ overflow' = overflow \ {v}
          /\ viewersOverflowCount' = NoLongerSlow(v)
          /\ paused' = (paused /\ ~(/\ v \in overflow /\ ~writing
                                    /\ viewersOverflowCount' < Len(viewers)))
          /\ UNCHANGED <<queue, dataPtr, canvas>>
    /\ UNCHANGED <<muxVars, listVars, writeVars, refreshed, sent>>

\* A viewer asks for everything again: it starts over at the head of the list.
Refresh(v) ==
    /\ v \in (Present \cap Refreshing) \ refreshed /\ refreshed' = refreshed \cup {v}
    /\ IF v \in sending \/ firstData = 0
       THEN /\ dataPtr' = [dataPtr EXCEPT ![v] = firstData]
            /\ UNCHANGED <<flowVars, canvas>>
       ELSE /\ canvas' = [canvas EXCEPT ![v] = Blank]
            /\ dataPtr' = [dataPtr EXCEPT ![v] = images[firstData].next]
            /\ sending' = sending \cup {v}
            /\ BecomeSlow(Slow({v}, queue, dataPtr'), viewers, paused)
            /\ UNCHANGED queue
    /\ UNCHANGED <<muxVars, listVars, writeVars, sent>>

-----------------------------------------------------------------------------
\* Screen size: the list begins anew with this command, and so does everyone.
ScreenSize(z) ==
    IF z = size
    THEN UNCHANGED <<listVars, dataPtr, canvas, sending>>
    ELSE LET n == counter + 1 IN
         /\ counter' = n /\ size' = z /\ screen' = Blank
         /\ images' = [i \in {n} |-> [prev |-> 0, next |-> 0, tiles |-> {}]]
         /\ imagesCounters' = <<>>
         /\ firstData' = n /\ lastData' = n
         /\ dataPtr' = [v \in Viewers |->
                          IF v \in Present \cap sending THEN n ELSE 0]
         /\ canvas' = [v \in Viewers |->
                         IF v \in Present \ sending THEN Blank ELSE canvas[v]]
         /\ sending' = sending \cup Present

\* Mutant of Unlink: who was to be sent the image is not moved on.
UnlinkOnly(i, s) ==
    LET d == s.images[i]
        rest == Restrict(s.images, DOMAIN s.images \ {i})
    IN  [s EXCEPT !.images = [rest EXCEPT ![d.prev].next = d.next,
                                          ![d.next].prev = d.prev]]

\* Image i leaves the list, and the viewers that it was to be sent to are moved
\* to the next one.
Unlink(i, s) ==
    LET d == s.images[i]
        rest == Restrict(s.images, DOMAIN s.images \ {i})
    IN  [images |-> [rest EXCEPT ![d.prev].next = d.next, ![d.next].prev = d.prev],
         ptr |-> [v \in Viewers |-> IF s.ptr[v] = i THEN d.next ELSE s.ptr[v]]]

\* Mutant of Hidden: an image goes as soon as one of its tiles is covered.
HiddenSoon(tiles) == {screen[c] : c \in tiles} \ {0}

\* The images whose count comes to zero when these tiles are covered.
Hidden(tiles) ==
    {i \in DOMAIN imagesCounters :
        imagesCounters[i] \in 1..Cardinality({c \in tiles : screen[c] = i})}

\* Mutant of Waiting: who had seen everything is not woken.
Asleep(ptr) == {}

\* The viewers that had seen everything and are not being sent anything.
Waiting(ptr) == {v \in Present \ sending : ptr[v] = 0}

\* A tile: the image goes to the end of the list, what it hides is taken out, and
\* the viewers that had seen everything are sent the image.
Tile(r) ==
    IF lastData = 0
    THEN UNCHANGED <<listVars, dataPtr, canvas, sending>>
    ELSE LET n == counter + 1
             linked == [i \in DOMAIN images \cup {n} |->
                          IF i = n THEN [prev |-> lastData, next |-> 0, tiles |-> r.tiles]
                          ELSE IF i = lastData THEN [images[i] EXCEPT !.next = n]
                          ELSE images[i]]
             hidden == Hidden(r.tiles)
             s == FoldSet(Unlink, [images |-> linked, ptr |-> dataPtr], hidden)
             idle == Waiting(s.ptr)
         IN  /\ counter' = n /\ lastData' = n
             /\ images' = s.images
             /\ screen' = [c \in Tiles |-> IF c \in r.tiles THEN n ELSE screen[c]]
             /\ imagesCounters' = [i \in (DOMAIN imagesCounters \ hidden) \cup {n} |->
                    IF i = n THEN r.area
                    ELSE imagesCounters[i] - Cardinality({c \in r.tiles : screen[c] = i})]
             /\ canvas' = [v \in Viewers |->
                    IF v \in idle
                    THEN [c \in Tiles |-> IF c \in r.tiles THEN n ELSE canvas[v][c]]
                    ELSE canvas[v]]
             /\ dataPtr' = [v \in Viewers |->
                    IF v \in Present \ idle /\ s.ptr[v] = 0 THEN n ELSE s.ptr[v]]
             /\ sending' = sending \cup idle
             /\ UNCHANGED <<size, firstData>>

\* Mutant of StaysPaused: nobody lets the agent go on when a record was written.
RemainsPaused == paused

\* When a record was written the agent goes on if some viewer is not slow.
StaysPaused == paused /\ ~(viewersOverflowCount < Len(viewers))

\* A command of the agent is applied.
Apply(cmd) ==
    LET p == StaysPaused IN
    \/ /\ cmd.type = "size" /\ ScreenSize(cmd.tiles)
       /\ paused' = p /\ UNCHANGED <<queue, overflow, viewersOverflowCount>>
    \/ /\ cmd.type = "tile" /\ Tile(cmd.rect)
       /\ paused' = p /\ UNCHANGED <<queue, overflow, viewersOverflowCount>>
    \/ /\ cmd.type = "control" /\ ToAll(viewers, p)
       /\ UNCHANGED <<listVars, dataPtr, canvas>>

\* The screen size the agent told last.
Told == LET sizes == SelectSeq(writes, LAMBDA c : c.type = "size")
        IN  IF sizes = <<>> THEN size ELSE Last(sizes).tiles

\* processData: the agent sends a command, which is recorded first if there is
\* a recording file.  What was read from its socket before it was paused still
\* comes; its tiles are on the screen.
AgentSends(cmd) ==
    /\ mux = "live" /\ agent = "in"
    /\ sent < MaxData /\ sent' = sent + 1
    /\ cmd.type = "tile" => cmd.rect.tiles \subseteq Told
    /\ IF recording
       THEN /\ writes' = Append(writes, cmd) /\ writing' = TRUE
            /\ UNCHANGED <<flowVars, listVars, dataPtr, canvas>>
       ELSE Apply(cmd) /\ UNCHANGED writeVars
    /\ UNCHANGED <<muxVars, refreshed>>

\* A record was written, whichever of those under way: its command is applied.
Written(k) ==
    /\ k \in DOMAIN writes
    /\ writes' = RemoveAt(writes, k) /\ writing' = FALSE
    /\ Apply(writes[k])
    /\ UNCHANGED <<muxVars, refreshed, sent>>

Next ==
    \/ \E v \in Viewers : Join(v) \/ Leave(v) \/ Drained(v) \/ Refresh(v)
    \/ AgentJoins \/ AgentLeaves
    \/ \E cmd \in Commands : AgentSends(cmd)
    \/ \E k \in 1..MaxData : Written(k)

\* What was given to the web socket of a viewer is taken some time, and a record
\* is written some time.
Fairness ==
    /\ \A v \in Viewers : WF_vars(Drained(v))
    /\ WF_vars(\E k \in 1..MaxData : Written(k))

Spec == Init /\ [][Next]_vars /\ Fairness

-----------------------------------------------------------------------------
\* The images from image i to the end of the list.
From(i) ==
    LET f[n \in Nat] ==
            [k \in Numbers |->
                IF n = 0 \/ k \notin DOMAIN images THEN <<>>
                ELSE <<k>> \o f[n - 1][images[k].next]]
    IN  f[Cardinality(DOMAIN images)][i]

\* The list goes from its first to its last image through all images in the
\* order in which they came, the same way back as forth; every viewer is at one
\* of them or at the end; and the images but the first, which is the screen
\* size, are those whose count is that of the tiles which show them.  (Images of
\* broken tiles have a count of 0 or less, and are never taken out.)
ListIsSound ==
    mux = "live" =>
    LET list == From(firstData) IN
    /\ ToSet(list) = DOMAIN images
    /\ \A k \in 1..(Len(list) - 1) : list[k] < list[k + 1]
    /\ \A k \in DOMAIN list :
          images[list[k]].prev = (IF k = 1 THEN 0 ELSE list[k - 1])
    /\ list # <<>> => lastData = Last(list)
    /\ \A v \in Present : dataPtr[v] \in DOMAIN images \cup {0}
    /\ DOMAIN imagesCounters = DOMAIN images \ {firstData}
    /\ \A i \in DOMAIN imagesCounters :
          imagesCounters[i] > 0 =>
          imagesCounters[i] = Cardinality({c \in Tiles : screen[c] = i})

\* Whatever was taken out of the list meanwhile, a viewer that is sent the rest of
\* the list from where it stands sees the screen of the device: no update that
\* is still in sight was dropped for a slow viewer, one that joins late or one
\* that asks for a refresh.  It is for images that fill the tiles they touch, or
\* whose size is not a whole number of tiles: of one of 2 by 1.5 tiles, which
\* touches four, the code counts three (meshdesktopmultiplex.js 708-720), takes it
\* out while it is still in sight, and this fails.
CanCatchUp ==
    \A v \in Present :
        FoldLeft(Paint, canvas[v], From(dataPtr[v])) = screen

\* The count of slow viewers, which decides when the agent is paused and when it
\* goes on, is that of the viewers that are there, are slow and are being sent
\* something, after whose sending they are looked at again.
SlowAreCounted ==
    /\ viewersOverflowCount = Cardinality(overflow)
    /\ overflow \subseteq Present \cap sending

\* The books of the multiplexor, which each of its viewers changes, are right.
BooksAreRight == ListIsSound /\ SlowAreCounted

\* An agent that is paused goes on, or its session ends: viewers that leave, join
\* or catch up while a record is written do not leave it paused for ever.
AgentGoesOn == paused ~> ~paused

\* Every viewer that stays comes to see the screen of the device, if the images are
\* as for CanCatchUp: an image of 2 by 1.5 tiles may be missing for ever.
ViewersCatchUp ==
    \A v \in Viewers : (v \in Present) ~> (v \in Present => canvas[v] = screen)
=============================================================================
