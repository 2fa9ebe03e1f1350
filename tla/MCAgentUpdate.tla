---------------------------- MODULE MCAgentUpdate ----------------------------
(***************************************************************************)
(* Instances of AgentUpdate with two agents and one slot.  In MCBoth the   *)
(* agents are updated natively, from disk (a1) and from RAM (a2), while a  *)
(* user asks for something; or the recovery core updates the first, beside *)
(* one that takes no core, without a user.  In MCUptodate both are current.*)
(***************************************************************************)
EXTENDS AgentUpdate, TLC

CONSTANTS a1, a2, MCRequests

MCNative ==
    [method |-> [a \in Agents |-> "native"], disk |-> {a1}, stubborn |-> {},
     requests |-> MCRequests]
MCByCore ==
    [method |-> (a1 :> "bycore") @@ (a2 :> "unchecked"), disk |-> {},
     stubborn |-> {a2}, requests |-> 0]
MCCurrent ==
    [method |-> [a \in Agents |-> "uptodate"], disk |-> {}, stubborn |-> {},
     requests |-> MCRequests]

MCBoth == {MCNative, MCByCore}
MCUptodate == {MCCurrent}
MCBlocks == (a1 :> 2) @@ (a2 :> 2)
MCFirst == (a1 :> "old") @@ (a2 :> "none")
=============================================================================
