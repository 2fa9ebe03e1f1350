----------------------------- MODULE MCAmtScanner -----------------------------
(***************************************************************************)
(* Instances of AmtScanner: two devices that share an address, or one of   *)
(* them alone, to which more may happen.                                   *)
(***************************************************************************)
EXTENDS AmtScanner

CONSTANTS n1, h1, MCBoth, MCOne

MCDevs == 1..3
MCAccounts == [n \in Nodes |-> IF n = n1 THEN 1 ELSE 2]
MCPopulations ==
    {[host |-> [n \in Nodes |-> h1], answering |-> Hosts, events |-> MCBoth]}
    \cup {[host |-> [n \in Nodes |-> IF n = n1 THEN h1 ELSE None], answering |-> up,
           events |-> MCOne] : up \in SUBSET Hosts}
=============================================================================
