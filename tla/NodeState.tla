----------------------------- MODULE NodeState -----------------------------
(***************************************************************************)
(* The connection state the server keeps for a node: which kinds of        *)
(* connection it has (a bit mask in the code, a set of bits here), the     *)
(* power state each kind last reported, and the power state shown.         *)
(***************************************************************************)
EXTENDS Integers, FiniteSets, FiniteSetsExt

Agent == 1  CIRA == 2  AMT == 4  Relay == 8  MQTT == 16
ConnectTypes == {Agent, CIRA, AMT, Relay, MQTT}
PowerTypes == {Agent, CIRA, AMT}     \* the kinds that report a power state
PowerStates == 0..8                  \* 0 = unknown, 1 = on, 7 = present, 8 = off

Entries == [conn : SUBSET ConnectTypes \ {{}},
            power : [PowerTypes -> PowerStates],
            powerState : PowerStates]

\* The state before the first connection of a node.
NewEntry == [conn |-> {}, power |-> [t \in PowerTypes |-> 0], powerState |-> 0]

\* The power state shown is that of the best connection: agent, CIRA, AMT.
PowerOf(conn, power) ==
    LET known == conn \cap PowerTypes
    IN  IF known = {} THEN 0 ELSE power[Min(known)]

WithPower(e, t, p) ==
    IF t \in PowerTypes THEN [e.power EXCEPT ![t] = p] ELSE e.power

\* The state of a node after a connection of type t reports power state p.
SetConn(e, t, p) ==
    LET conn == e.conn \cup {t}
        power == WithPower(e, t, p)
    IN  [conn |-> conn, power |-> power, powerState |-> PowerOf(conn, power)]

\* The state of a node after it lost its connection of type t.
ClearConn(e, t) ==
    LET conn == e.conn \ {t}
        power == WithPower(e, t, 0)
    IN  [conn |-> conn, power |-> power, powerState |-> PowerOf(conn, power)]

\* The number the code keeps for a set of connection bits.
Mask(conn) == SumSet(conn)

\* A table maps the nodes that have a connection to their state.
NoTable == [n \in {} |-> NewEntry]
Lookup(table, n) == IF n \in DOMAIN table THEN table[n] ELSE NewEntry
Put(table, n, e) ==
    [m \in DOMAIN table \cup {n} |-> IF m = n THEN e ELSE table[m]]
Drop(table, n) == [m \in DOMAIN table \ {n} |-> table[m]]

\* What the server shows of a node, over all the servers that know it.
NoView == [conn |-> {}, powerState |-> 0]
View(tables, n) ==
    LET known == {s \in DOMAIN tables : n \in DOMAIN tables[s]}
        powers == {tables[s][n].powerState : s \in known} \ {0}
    IN  [conn |-> UNION {tables[s][n].conn : s \in known},
         powerState |-> IF powers = {} THEN 0 ELSE Min(powers)]
=============================================================================
