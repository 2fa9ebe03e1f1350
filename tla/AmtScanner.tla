------------------------------ MODULE AmtScanner ------------------------------
(***************************************************************************)
(* amtscanner.js looks for Intel AMT on the local network.  Every 30       *)
(* seconds it pings the devices that have an address and no CIRA           *)
(* connection; one that does not answer for a while is tried over TCP, and *)
(* then given up.  A device that answers is shown (connectivity bit 4) and *)
(* managed (AmtManager).  A CIRA connection of the device takes it off the *)
(* scan table and has management of its own; users change its address, its *)
(* credentials, or remove it.                                              *)
(***************************************************************************)
EXTENDS AmtManager

CONSTANTS Populations   \* the addresses at first, the hosts that answer then, and a
                        \* bound: how often something happens to devices and probes

ASSUME ScannerAssumption ==
    Populations \subseteq [host : [Nodes -> Hosts \cup {None}],
                            answering : SUBSET Hosts, events : Nat]

VARIABLES host,         \* node -> its address in the database, None once removed
          answering,    \* the hosts that answer
          cira,         \* node -> its CIRA connection: "off", "hold" (300 ms) or "up"
          shown,        \* the nodes with connectivity bit 4
          scanTable,    \* node -> its entry of the scan table, or None
          probes,       \* TCP probes that belong to no entry of the scan table
          events        \* how often something may still happen

scanner == <<scanTable, probes>>
world == <<host, answering, cira>>
vars == <<manager, scanner, world, shown, events>>

\* An entry: it found the device (state 1); scans since it answered; the address
\* it was made with; the hosts pinged and probed.
NewEntry(h) == [state |-> 0, age |-> 0, host |-> h, ping |-> h, tcp |-> None]

Init ==
    /\ ManagerInit
    /\ \E p \in Populations :
          host = p.host /\ answering = p.answering /\ events = p.events
    /\ cira = [n \in Nodes |-> "off"]
    /\ shown = {}
    /\ scanTable = [n \in Nodes |-> None]
    /\ probes = {}

Entries == {n \in Nodes : scanTable[n] # None}

Happens == events > 0 /\ events' = events - 1
Usual == UNCHANGED events

-----------------------------------------------------------------------------
(* The scan *)

\* The devices to scan.
Docs == {n \in Nodes : host[n] # None /\ cira[n] = "off"}

\* Scans since the device answered: after 2, more than 30 seconds have passed, and
\* after 4 more than 65; after 3 these have passed, or nearly so.
Age(n) == scanTable[n].age + 1
Timed == {n \in Entries \cap Docs : scanTable[n].state = 1}
Overdue == {n \in Timed : Age(n) >= 4}
Nearly == {n \in Timed : Age(n) = 3}

\* Mutant of Tried: a device that is not shown is not tried over TCP.
TriedIfShown(n) == scanTable[n].tcp = None /\ scanTable[n].state = 1 /\ Age(n) >= 2

\* Is the device of an entry that is not given up tried over TCP?
Tried(n) ==
    /\ scanTable[n].tcp = None
    /\ scanTable[n].state = 0 \/ Age(n) >= 2

\* An entry after a scan that gives it up or not.
Scanned(n, given) ==
    LET e == scanTable[n]
    IN  [e EXCEPT !.state = IF given THEN 0 ELSE @,
                  !.age = IF given \/ e.state = 0 THEN 0 ELSE Age(n),
                  !.ping = host[n],
                  !.tcp = IF ~given /\ Tried(n) THEN host[n] ELSE @]

\* A probe of an entry that is dropped: it still shows the device if it answers.
Orphans(dropped) ==
    {[node |-> n, to |-> scanTable[n].tcp, host |-> scanTable[n].host, shows |-> TRUE] :
        n \in {k \in dropped : scanTable[k].tcp # None /\ scanTable[k].state = 0}}

\* performScan, when the database has answered.  A device that is given up is no
\* longer shown, nor managed at the address of its entry; one that is not to be
\* scanned is dropped from the table.
PerformScan ==
    /\ \A d \in Devs : dev[d] # None => dev[d].phase # "read"
    /\ IF probes = {} /\ \A n \in Entries : scanTable[n].tcp = None
       THEN Usual ELSE Happens
    /\ \E early \in SUBSET Nearly :
        LET given == Overdue \cup early
            dropped == Entries \ Docs
            nodes == SetToSeq(given)
            stopped[i \in 0..Len(nodes)] ==
                IF i = 0 THEN Manager
                ELSE Stop(stopped[i - 1], nodes[i], scanTable[nodes[i]].host)
        IN  /\ scanTable' = [n \in Nodes |->
                  IF n \notin Docs THEN None
                  ELSE IF scanTable[n] = None THEN NewEntry(host[n])
                  ELSE Scanned(n, n \in given)]
            /\ shown' = shown \ given
            /\ probes' = probes \cup Orphans(dropped)
            /\ ManagerIs(stopped[Len(nodes)])
            /\ UNCHANGED world

\* Is there room to start management of a node over a connection?
Room(n, conn) == Managing(Manager, n, conn) # {} \/ Free(Manager) # {}

\* An entry has an answer: the device is shown and managed unless it was already.
Found(n, entry) ==
    /\ scanTable' = [scanTable EXCEPT ![n] = [entry EXCEPT !.state = 1, !.age = 0]]
    /\ IF entry.state = 0
       THEN /\ Room(n, entry.host)
            /\ shown' = shown \cup {n}
            /\ ManagerIs(Start(Manager, n, entry.host))
       ELSE UNCHANGED <<shown, manager>>
    /\ UNCHANGED <<probes, world, events>>

\* changeConnectState: the host answers a ping of an entry that is still there.
Pong(n) ==
    /\ scanTable[n] # None /\ scanTable[n].ping \in answering
    /\ Found(n, scanTable[n])

\* The TCP probe of an entry ends: with an answer of Intel AMT, or without.
ProbeAnswered(n) ==
    /\ scanTable[n] # None /\ scanTable[n].tcp \in answering
    /\ Found(n, [scanTable[n] EXCEPT !.tcp = None])

ProbeEnds(n) ==
    /\ scanTable[n] # None /\ scanTable[n].tcp # None
    /\ IF scanTable[n].tcp \in answering THEN Happens ELSE Usual
    /\ scanTable' = [scanTable EXCEPT ![n].tcp = None]
    /\ UNCHANGED <<manager, probes, world, shown>>

\* A probe of an entry that was dropped, or of performSpecificScan.
LateAnswer ==
    \E p \in probes :
        /\ p.to \in answering
        /\ Room(p.node, p.host)
        /\ probes' = probes \ {p}
        /\ shown' = IF p.shows THEN shown \cup {p.node} ELSE shown
        /\ ManagerIs(Start(Manager, p.node, p.host))
        /\ UNCHANGED <<scanTable, world, events>>

LateEnd ==
    \E p \in probes :
        /\ IF p.to \in answering THEN Happens ELSE Usual
        /\ probes' = probes \ {p}
        /\ UNCHANGED <<manager, scanTable, world, shown>>

-----------------------------------------------------------------------------
(* What happens to devices *)

\* A host begins or ceases to answer.
HostFlips(h) ==
    /\ Happens
    /\ answering' = IF h \in answering THEN answering \ {h} ELSE answering \cup {h}
    /\ UNCHANGED <<manager, scanner, host, cira, shown>>

\* addCiraConnection, and 300 ms later.
CiraComes(n) ==
    /\ Happens
    /\ host[n] # None /\ cira[n] = "off"
    /\ cira' = [cira EXCEPT ![n] = "hold"]
    /\ UNCHANGED <<manager, scanner, host, answering, shown>>

CiraIsUp(n) ==
    /\ cira[n] = "hold"
    /\ Room(n, Cira)
    /\ cira' = [cira EXCEPT ![n] = "up"]
    /\ ManagerIs(Start(Manager, n, Cira))
    /\ UNCHANGED <<scanner, host, answering, events, shown>>

\* removeCiraConnection
CiraGoes(n) ==
    /\ cira[n] # "off"
    /\ cira' = [cira EXCEPT ![n] = "off"]
    /\ ManagerIs(Stop(Manager, n, Cira))
    /\ UNCHANGED <<scanner, host, answering, events, shown>>

\* performSpecificScan: management only, once the host answers.
Specific(n, h) ==
    IF cira[n] = "off" THEN {[node |-> n, to |-> h, host |-> h, shows |-> FALSE]}
    ELSE {}

\* The event of a change gives the local devices at another address the new one
\* and removes them.  The loop goes through the list that it shortens: it passes
\* over the device that follows one it removed.
Moved(m, n, h) ==
    LET after[i \in 0..Len(m.list[n])] ==
            IF i = 0 THEN m
            ELSE LET k == after[i - 1]
                     d == k.list[n][i]
                 IN  IF i <= Len(k.list[n]) /\ k.dev[d].conn \notin {h, Cira}
                     THEN Removed([k EXCEPT !.dev[d].conn = h], d)
                     ELSE k
    IN  after[Len(m.list[n])]

\* A user changes the address, or the credentials (amtchange): the event changenode.
ChangeNode(n, h, amtchange) ==
    /\ Happens
    /\ host[n] # None
    /\ host[n] # h \/ amtchange
    /\ host' = [host EXCEPT ![n] = h]
    /\ ManagerIs(Moved(Manager, n, h))
    /\ probes' = IF \/ amtDevices'[n] # amtDevices[n]
                    \/ amtchange /\ amtDevices[n] = <<>>
                 THEN probes \cup Specific(n, h) ELSE probes
    /\ UNCHANGED <<scanTable, answering, cira, shown>>

\* The event removenode.
RemoveNode(n) ==
    /\ Happens
    /\ host[n] # None
    /\ host' = [host EXCEPT ![n] = None]
    /\ ManagerIs(RemoveAll(Manager, n))
    /\ UNCHANGED <<scanner, answering, cira, shown>>

-----------------------------------------------------------------------------
(* The manager's callbacks *)

\* Does the device at the other end answer?
Reached(d) == Local(Manager, d) => dev[d].conn \in answering

Reads(d) ==
    /\ \E found \in BOOLEAN :
          Read(d, found) /\ (found => host[dev[d].node] # None)
    /\ UNCHANGED <<scanner, world, shown, events>>

Manages(d) ==
    /\ \/ TryAgain(d)
       \/ ResponseIgnored(d)
       \/ dev[d] # None /\ Reached(d) /\
             (\/ Contacted(d) \/ BadCredentials(d) \/ TlsAnswered(d)
              \/ Committed(d) \/ Done(d))
       \/ dev[d] # None /\ (Reached(d) \/ ~Local(Manager, d)) /\ ContactFails(d)
       \/ NextCredentials(d)
       \/ SetupFails(d)
    /\ UNCHANGED <<scanner, world, shown, events>>

\* fetchPowerState: a device that answers over the network is shown.
Poll(d) ==
    /\ dev[d] # None /\ dev[d].phase = "done"
    /\ Local(Manager, d) /\ Reached(d)
    /\ dev[d].node \in shown \/ cira[dev[d].node] = "up"
    /\ shown' = shown \cup {dev[d].node}
    /\ UNCHANGED <<manager, scanner, world, events>>

Next ==
    \/ PerformScan
    \/ \E n \in Nodes :
          \/ Pong(n) \/ ProbeAnswered(n) \/ ProbeEnds(n)
          \/ CiraComes(n) \/ CiraIsUp(n) \/ CiraGoes(n)
          \/ RemoveNode(n)
          \/ \E h \in Hosts, amtchange \in BOOLEAN : ChangeNode(n, h, amtchange)
    \/ LateAnswer \/ LateEnd
    \/ \E h \in Hosts : HostFlips(h)
    \/ \E d \in Devs : Reads(d) \/ Manages(d) \/ Poll(d)

Spec == Init /\ [][Next]_vars

\* The scan timer keeps firing; while probes are on their way one of them ends,
\* and while the database is asked it answers.  Nothing is assumed of pings.
Fairness ==
    /\ WF_vars(PerformScan)
    /\ WF_vars(LateAnswer \/ LateEnd \/ \E n \in Nodes : ProbeAnswered(n) \/ ProbeEnds(n))
    /\ WF_vars(\E d \in Devs : Reads(d))
FairSpec == Spec /\ Fairness

-----------------------------------------------------------------------------
TypeOK ==
    /\ ManagerTypeOK
    /\ host \in [Nodes -> Hosts \cup {None}]
    /\ answering \subseteq Hosts
    /\ cira \in [Nodes -> {"off", "hold", "up"}]
    /\ shown \subseteq Nodes
    /\ scanTable \in [Nodes -> {None} \cup
          [state : {0, 1}, age : 0..3, host : Hosts, ping : Hosts \cup {None},
           tcp : Hosts \cup {None}]]
    /\ events \in Nat

\* A device whose host answers, at an address that stays, without a CIRA
\* connection, is shown again and again, even if every ping is lost.
Stays(n) == host[n] \in answering /\ cira[n] = "off"
PresenceFollows == \A n \in Nodes : <>[]Stays(n) => []<>(n \in shown)

\* "More than 2 minutes without a response, mark the node as unknown state"
\* (amtscanner.js:179): a device that does not answer ceases to be shown.
Silent(n) == host[n] \in Hosts \ answering /\ cira[n] = "off"
SilentIsCleared == \A n \in Nodes : <>[]Silent(n) => []<>(n \notin shown)
=============================================================================
