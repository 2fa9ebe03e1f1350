--------------------------- MODULE AgentPresence ---------------------------
(***************************************************************************)
(* What the agent server promises the rest of the system about a device:   *)
(* at any time at most one of its connections is the one in service, the   *)
(* device is shown as connected exactly while there is one, a newcomer     *)
(* takes the place of the connection in service, and a connection that was *)
(* replaced or that ended is never in service again.                       *)
(***************************************************************************)
CONSTANTS Agents,       \* the connections
          NodeOf        \* connection -> the device it is of

VARIABLES serving,      \* the connections in service
          online,       \* the devices shown as connected
          past          \* the connections that are over

presence == <<serving, online, past>>

Init ==
    /\ serving = {}
    /\ online = {}
    /\ past = {}

Peers(a) == {b \in serving : NodeOf[b] = NodeOf[a]}

\* Connection a enters service, in the place of the one that was there.
Serve(a) ==
    /\ a \notin serving \cup past
    /\ serving' = (serving \ Peers(a)) \cup {a}
    /\ past' = past \cup Peers(a)
    /\ online' = online \cup {NodeOf[a]}

\* Some connections of device n end; if one was in service, n goes offline.
End(n, ended) ==
    /\ ended \cap past = {}
    /\ past' = past \cup ended
    /\ serving' = serving \ ended
    /\ online' = IF ended \cap serving # {} THEN online \ {n} ELSE online

Next ==
    \/ \E a \in Agents : Serve(a)
    \/ \E n \in {NodeOf[a] : a \in Agents} :
          \E ended \in SUBSET {a \in Agents : NodeOf[a] = n} : End(n, ended)

Spec == Init /\ [][Next]_presence
=============================================================================
