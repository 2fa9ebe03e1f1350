--------------------------- MODULE MCAgentSession ---------------------------
(***************************************************************************)
(* Connections a1, a2 and a3 of device n1, a4 of device n2.                *)
(***************************************************************************)
EXTENDS AgentSession

CONSTANTS a1, a2, a3, a4, n1, n2, n3

McNodeOf == [a \in Agents |-> IF a = a4 THEN n2 ELSE n1]

-----------------------------------------------------------------------------
(* What one may expect and the code does not keep; the README says how each  *)
(* is lost.  No listed run checks these.                                     *)

\* maxagentsessions is a limit on the agents in service.
SessionLimit ==
    MaxAgentSessions # None => Cardinality(InService) <= MaxAgentSessions

\* maxdevices is a limit on the devices of the domain.
DeviceLimit == MaxDevices # None => Cardinality(devices) <= MaxDevices

\* A device that was removed has no connection in service: "Disconnect all
\* connections if needed" (meshuser.js removedevices).
ConnectedIsKnown == InService \subseteq devices
=============================================================================
