-------------------------- MODULE MCMpsConnections --------------------------
(***************************************************************************)
(* CIRA connections c1 and c2, relays r1 and r2 and a local management     *)
(* connection l1 of device n1, and a CIRA connection d1 of device n2.      *)
(***************************************************************************)
EXTENDS MpsConnections

CONSTANTS c1, c2, r1, r2, l1, d1, n1, n2

McNodeOf == [s \in Sockets |-> IF s = d1 THEN n2 ELSE n1]
McTypeOf == [s \in Sockets |-> CASE s \in {r1, r2} -> RelayType
                                 [] s = l1 -> LmsType
                                 [] OTHER -> CiraType]

\* What one may expect and the code does not keep; the README says in which
\* ways it is lost.  No listed run checks it: a connection bit shown of a node
\* stands for an open connection of that type in its list.
ShownIsConnected ==
    \A n \in MpsNodes : \A b \in shown[n] :
        \E s \in Listed(n) \cap open : b \in Bits(TypeOf[s])
=============================================================================
