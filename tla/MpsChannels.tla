---------------------------- MODULE MpsChannels ----------------------------
(***************************************************************************)
(* The channels of one Intel AMT connection (mpsserver.js): each forwards  *)
(* a TCP stream through the connection, with a credit window per direction.*)
(* The server opens every channel and may write before the device confirms *)
(* it; what exceeds the device's window waits in the channel's sendBuffer. *)
(* The device (Amt... actions) is modelled from what the server expects of *)
(* it; the connection is a pair of FIFO streams.                           *)
(***************************************************************************)
EXTENDS Integers, Sequences, FiniteSets

CONSTANTS MaxChannels,   \* bound: channels that the users of the server set up
          AmtWindows,    \* window sizes a device announces
          CiraWindow,    \* the window the server announces (32768)
          MaxWritten,    \* bound: channel -> bytes written to it
          MaxReplied     \* bound: channel -> bytes that the device sends

ASSUME WindowAssumption ==
    /\ AmtWindows \subseteq Nat \ {0}
    /\ CiraWindow \in Nat \ {0}
    /\ MaxChannels \in Nat
    /\ MaxWritten \in [1..MaxChannels -> Nat]
    /\ MaxReplied \in [1..MaxChannels -> Nat]

VARIABLES nextchannelid,  \* socket.tag.nextchannelid
          channels,       \* channel -> the server's object of it
          registered,     \* the channels in socket.tag.channels
          activetunnels,  \* socket.tag.activetunnels
          written,        \* channel -> bytes accepted by write so far
          toAmt, toServer,            \* the two streams
          device          \* channel -> the device's end of it

Channels == 1..MaxChannels
serverVars == <<nextchannelid, channels, registered, activetunnels, written>>
vars == <<serverVars, toAmt, toServer, device>>

\* state: 0 = closed, 1 = pending, 2 = open, as in the code.
NewChannel == [state |-> 1, closing |-> FALSE, sendcredits |-> 0,
               sendBuffer |-> <<>>, amtpendingcredits |-> 0]

\* The device's end: received holds the bytes it got, in order, consumed how
\* many of them it gave credit back for; credits and replied are for the
\* bytes it sends.
NoEnd == [state |-> "none", window |-> 0, received |-> <<>>, consumed |-> 0,
          credits |-> 0, replied |-> 0]

Init ==
    /\ nextchannelid = 1
    /\ channels = [c \in Channels |-> [NewChannel EXCEPT !.state = 0]]
    /\ registered = {}
    /\ activetunnels = 0
    /\ written = [c \in Channels |-> 0]
    /\ toAmt = <<>>
    /\ toServer = <<>>
    /\ device = [c \in Channels |-> NoEnd]

Open(c) == [type |-> "open", ch |-> c]
Close(c) == [type |-> "close", ch |-> c]
Data(c, bytes) == [type |-> "data", ch |-> c, bytes |-> bytes]
Adjust(c, n) == [type |-> "adjust", ch |-> c, n |-> n]
Confirm(c, window) == [type |-> "confirm", ch |-> c, n |-> window]
Failure(c) == [type |-> "failure", ch |-> c]

-----------------------------------------------------------------------------
SetupChannel ==
    /\ nextchannelid <= MaxChannels
    /\ nextchannelid' = nextchannelid + 1
    /\ channels' = [channels EXCEPT ![nextchannelid] = NewChannel]
    /\ registered' = registered \cup {nextchannelid}
    /\ toAmt' = Append(toAmt, Open(nextchannelid))
    /\ UNCHANGED <<activetunnels, written, toServer, device>>

\* Mutants of SentOf and KeptOf: the credits are ignored; a byte is lost.
SentOfAll(data, credits) == data
KeptOfNext(data, credits) == SubSeq(data, credits + 2, Len(data))

\* What is sent at once of `data', with the given credits, and what is kept.
SentOf(data, credits) == SubSeq(data, 1, IF Len(data) <= credits THEN Len(data)
                                         ELSE credits)
KeptOf(data, credits) == SubSeq(data, credits + 1, Len(data))

\* cirachannel.write with n bytes; a closed channel takes none.
Write(c, n) ==
    LET ch == channels[c]
        data == [i \in 1..n |-> written[c] + i]
        buffers == ch.state = 1 \/ ch.sendcredits = 0 \/ ch.sendBuffer # <<>>
        sent == SentOf(data, ch.sendcredits)
    IN  /\ c \in registered /\ ch.state # 0
        /\ written[c] + n <= MaxWritten[c]
        /\ written' = [written EXCEPT ![c] = @ + n]
        /\ IF buffers
           THEN /\ channels' = [channels EXCEPT ![c].sendBuffer = @ \o data]
                /\ UNCHANGED toAmt
           ELSE /\ channels' = [channels EXCEPT
                      ![c].sendBuffer = KeptOf(data, ch.sendcredits),
                      ![c].sendcredits = @ - Len(sent)]
                /\ toAmt' = Append(toAmt, Data(c, sent))
        /\ UNCHANGED <<nextchannelid, registered, activetunnels, toServer, device>>

\* cirachannel.close: a channel that is pending is closed when it is confirmed.
CloseChannel(c) ==
    LET ch == channels[c]
    IN  /\ c \in registered /\ ch.state # 0 /\ ~ch.closing
        /\ channels' = [channels EXCEPT ![c].state = 0, ![c].closing = TRUE]
        /\ toAmt' = IF ch.state = 2 THEN Append(toAmt, Close(c)) ELSE toAmt
        /\ UNCHANGED <<nextchannelid, registered, activetunnels, written,
                       toServer, device>>

-----------------------------------------------------------------------------
\* ProcessCommand: the next command of the device is of the given type.
Reads(type) ==
    /\ toServer # <<>> /\ Head(toServer).type = type
    /\ toServer' = Tail(toServer)

\* Sends of channel c what its buffer holds and `credits' allow.
Flush(c, ch, credits) ==
    LET sent == SentOf(ch.sendBuffer, credits)
    IN  /\ channels' = [channels EXCEPT ![c] =
              [ch EXCEPT !.sendcredits = credits - Len(sent),
                         !.sendBuffer = KeptOf(@, credits)]]
        /\ toAmt' = IF ch.sendBuffer = <<>> THEN toAmt
                    ELSE Append(toAmt, Data(c, sent))

\* Mutant: a channel that was closed while pending is not closed.
ConfirmationWithoutClose ==
    /\ Reads("confirm")
    /\ LET m == Head(toServer)
       IN  /\ activetunnels' = activetunnels + 1
           /\ IF channels[m.ch].closing
              THEN UNCHANGED <<channels, toAmt>>
              ELSE Flush(m.ch, [channels[m.ch] EXCEPT !.state = 2], m.n)
    /\ UNCHANGED <<nextchannelid, registered, written, device>>

ChannelOpenConfirmation ==
    /\ Reads("confirm")
    /\ LET m == Head(toServer)
           ch == channels[m.ch]
       IN  /\ activetunnels' = activetunnels + 1
           /\ IF ch.closing
              THEN /\ toAmt' = Append(toAmt, Close(m.ch))
                   /\ channels' = [channels EXCEPT ![m.ch].sendcredits = m.n]
              ELSE Flush(m.ch, [ch EXCEPT !.state = 2], m.n)
    /\ UNCHANGED <<nextchannelid, registered, written, device>>

ChannelOpenFailure ==
    /\ Reads("failure")
    /\ LET c == Head(toServer).ch
       IN  IF channels[c].state > 0
           THEN /\ channels' = [channels EXCEPT ![c].state = 0]
                /\ registered' = registered \ {c}
           ELSE UNCHANGED <<channels, registered>>
    /\ UNCHANGED <<nextchannelid, activetunnels, written, toAmt, device>>

\* A channel the device closes is answered and forgotten; the device's answer
\* to a channel that the server closed only lowers the count.
ChannelClose ==
    /\ Reads("close")
    /\ LET c == Head(toServer).ch
       IN  /\ activetunnels' = activetunnels - (IF c \in registered THEN 1 ELSE 0)
           /\ IF c \in registered /\ channels[c].state > 0
              THEN /\ channels' = [channels EXCEPT ![c].state = 0]
                   /\ toAmt' = Append(toAmt, Close(c))
                   /\ registered' = registered \ {c}
              ELSE UNCHANGED <<channels, registered, toAmt>>
    /\ UNCHANGED <<nextchannelid, written, device>>

\* Mutant of ChannelWindowAdjust: the buffer waits for the next write.
AdjustWithoutFlush ==
    /\ Reads("adjust")
    /\ LET m == Head(toServer)
       IN  channels' = IF m.ch \in registered
                       THEN [channels EXCEPT ![m.ch].sendcredits = @ + m.n]
                       ELSE channels
    /\ UNCHANGED <<nextchannelid, registered, activetunnels, written, toAmt,
                   device>>

ChannelWindowAdjust ==
    /\ Reads("adjust")
    /\ LET m == Head(toServer)
           ch == channels[m.ch]
           credits == ch.sendcredits + m.n
       IN  IF m.ch \notin registered THEN UNCHANGED <<channels, toAmt>>
           ELSE IF ch.state = 2 THEN Flush(m.ch, ch, credits)
           ELSE /\ channels' = [channels EXCEPT ![m.ch].sendcredits = credits]
                /\ UNCHANGED toAmt
    /\ UNCHANGED <<nextchannelid, registered, activetunnels, written, device>>

\* Data of the device is passed on at once; credit for it is given back when
\* more than half the window was used.
ChannelData ==
    /\ Reads("data")
    /\ LET m == Head(toServer)
           pending == channels[m.ch].amtpendingcredits + m.n
           giveBack == 2 * pending > CiraWindow
       IN  IF m.ch \in registered /\ channels[m.ch].state > 0
           THEN /\ channels' = [channels EXCEPT ![m.ch].amtpendingcredits =
                                  IF giveBack THEN 0 ELSE pending]
                /\ toAmt' = IF giveBack THEN Append(toAmt, Adjust(m.ch, pending))
                            ELSE toAmt
           ELSE UNCHANGED <<channels, toAmt>>
    /\ UNCHANGED <<nextchannelid, registered, activetunnels, written, device>>

-----------------------------------------------------------------------------
\* The device reads the next command: it accepts or refuses an open, takes
\* data, adds credit, and answers a close that it did not begin.
AmtRead ==
    /\ toAmt # <<>>
    /\ toAmt' = Tail(toAmt)
    /\ LET m == Head(toAmt)
           e == device[m.ch]
       IN  \/ /\ m.type = "open"
              /\ \/ \E w \in AmtWindows :
                       /\ device' = [device EXCEPT ![m.ch] =
                             [NoEnd EXCEPT !.state = "open", !.window = w,
                                           !.credits = CiraWindow]]
                       /\ toServer' = Append(toServer, Confirm(m.ch, w))
                 \/ /\ device' = [device EXCEPT ![m.ch].state = "closed"]
                    /\ toServer' = Append(toServer, Failure(m.ch))
           \/ /\ m.type = "data"
              /\ device' = IF e.state = "open"
                           THEN [device EXCEPT ![m.ch].received = @ \o m.bytes]
                           ELSE device
              /\ UNCHANGED toServer
           \/ /\ m.type = "adjust"
              /\ device' = [device EXCEPT ![m.ch].credits = @ + m.n]
              /\ UNCHANGED toServer
           \/ /\ m.type = "close"
              /\ device' = [device EXCEPT ![m.ch].state = "closed"]
              /\ toServer' = IF e.state = "open"
                             THEN Append(toServer, Close(m.ch)) ELSE toServer
    /\ UNCHANGED serverVars

\* The device gives credit back for what its user consumed.
AmtConsume(c) ==
    LET unread == Len(device[c].received) - device[c].consumed
    IN  /\ device[c].state = "open" /\ unread > 0
        /\ device' = [device EXCEPT ![c].consumed = @ + unread]
        /\ toServer' = Append(toServer, Adjust(c, unread))
        /\ UNCHANGED <<serverVars, toAmt>>

AmtSend(c, n) ==
    /\ device[c].state = "open" /\ n <= device[c].credits
    /\ device[c].replied + n <= MaxReplied[c]
    /\ device' = [device EXCEPT ![c].credits = @ - n, ![c].replied = @ + n]
    /\ toServer' = Append(toServer, [type |-> "data", ch |-> c, n |-> n])
    /\ UNCHANGED <<serverVars, toAmt>>

AmtClose(c) ==
    /\ device[c].state = "open"
    /\ device' = [device EXCEPT ![c].state = "closed"]
    /\ toServer' = Append(toServer, Close(c))
    /\ UNCHANGED <<serverVars, toAmt>>

ProcessCommand ==
    \/ ChannelOpenConfirmation \/ ChannelOpenFailure \/ ChannelClose
    \/ ChannelWindowAdjust \/ ChannelData

Next ==
    \/ SetupChannel
    \/ \E c \in Channels : \E n \in 1..MaxWritten[c] : Write(c, n)
    \/ \E c \in Channels : CloseChannel(c)
    \/ ProcessCommand
    \/ AmtRead
    \/ \E c \in Channels : AmtConsume(c)
    \/ \E c \in Channels : \E n \in 1..MaxReplied[c] : AmtSend(c, n)
    \/ \E c \in Channels : AmtClose(c)

\* Both ends process what they receive, and the device's users read.
Spec == Init /\ [][Next]_vars /\ WF_vars(ProcessCommand) /\ WF_vars(AmtRead)
        /\ \A c \in Channels : WF_vars(AmtConsume(c))

-----------------------------------------------------------------------------
\* Each variable has its type.
TypeOK ==
    /\ channels \in [Channels ->
          [state : 0..2, closing : BOOLEAN, sendcredits : Nat,
           sendBuffer : Seq(Nat), amtpendingcredits : 0..CiraWindow]]
    /\ nextchannelid \in 1..(MaxChannels + 1)
    /\ registered \subseteq 1..(nextchannelid - 1)
    /\ activetunnels \in Nat
    /\ \A c \in Channels : written[c] \in 0..MaxWritten[c]

\* What is on its way, per channel: whether there is a command of a type, the
\* bytes, and the sum of the numbers of a type.
OnTheWay(stream, c, type) ==
    \E i \in 1..Len(stream) : stream[i].ch = c /\ stream[i].type = type

BytesOf(m, c) == IF m.ch = c /\ m.type = "data" THEN m.bytes ELSE <<>>
BytesIn(stream, c) ==
    LET upTo[i \in 0..Len(stream)] ==
            IF i = 0 THEN <<>> ELSE upTo[i - 1] \o BytesOf(stream[i], c)
    IN  upTo[Len(stream)]
BytesOnTheWay(c) == BytesIn(toAmt, c)

NumberOf(m, c, type) == IF m.ch = c /\ m.type = type THEN m.n ELSE 0
Total(stream, c, type) ==
    LET upTo[i \in 0..Len(stream)] ==
            IF i = 0 THEN 0 ELSE upTo[i - 1] + NumberOf(stream[i], c, type)
    IN  upTo[Len(stream)]

\* The bytes of an open channel reach the device once each and in the order
\* they were written, whether written before the confirmation, within the
\* credits or over them.
StreamIntact ==
    \A c \in Channels :
        channels[c].state = 2 /\ device[c].state = "open" =>
            device[c].received \o BytesOnTheWay(c) \o channels[c].sendBuffer
                = [i \in 1..written[c] |-> i]

\* The server never has more bytes on their way to the device, or unread there,
\* than the device announced.
WindowRespected ==
    \A c \in Channels :
        device[c].state = "open" =>
            Len(device[c].received) - device[c].consumed + Len(BytesOnTheWay(c))
                <= device[c].window

\* Of the window the server announced, none is lost: the device has it as
\* credit, or it is on its way, or it is pending at the server; and when
\* nothing is on its way the device has at least half of it.
ReplyWindowKept ==
    \A c \in Channels :
        channels[c].state = 2 /\ device[c].state = "open" =>
            /\ device[c].credits + Total(toServer, c, "data")
                 + Total(toAmt, c, "adjust") + channels[c].amtpendingcredits
                   = CiraWindow
            /\ 2 * channels[c].amtpendingcredits <= CiraWindow

\* The credit of both directions is kept.
CreditKept == WindowRespected /\ ReplyWindowKept

\* activetunnels counts the channels that were confirmed and not yet closed by
\* the device, whichever end closed them first.
TunnelsCounted ==
    activetunnels =
        Cardinality({c \in Channels :
            /\ device[c].state = "open" \/ OnTheWay(toServer, c, "close")
            /\ ~OnTheWay(toServer, c, "confirm")})

\* Two ends that both closed a channel agree: no channel stays open at one end
\* when nothing is on its way; and meanwhile the tunnels are counted.
EndsAgree ==
    /\ TunnelsCounted
    /\ toAmt = <<>> /\ toServer = <<>> =>
          \A c \in Channels :
              device[c].state = "open" <=> channels[c].state = 2

\* What is written to a channel reaches the device, unless the channel closes.
WrittenIsReceived ==
    \A c \in Channels : \A k \in 1..MaxWritten[c] :
        written[c] >= k
            ~> Len(device[c].received) >= k \/ channels[c].state = 0
=============================================================================
