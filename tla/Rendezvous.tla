----------------------------- MODULE Rendezvous -----------------------------
(***************************************************************************)
(* What the relay (meshrelay.js) promises to the connections that come to  *)
(* it: a connection is alone until it is joined with one other of the same *)
(* account, or of any if one of the two is exempt, at least one of the two *)
(* being authenticated; what is joined stays joined with the same partner  *)
(* and ends together with it.  A user that turns out to have no rights     *)
(* over the device leaves by itself, and its partner ends when it ends.    *)
(* How the two find each other, and why a connection ends, is not said.    *)
(***************************************************************************)
CONSTANTS Sockets, NoSock, Accounts, NoAccount

VARIABLES phase,      \* connection -> what it is to the relay
          partner,    \* connection -> the one it is joined with, or NoSock
          account,    \* connection -> its account, NoAccount before it comes
          authentic,  \* the connections that came with a user's authentication
          exempt,     \* those whose account is not compared
          refused     \* those whose user has no rights over the device

vars == <<phase, partner, account, authentic, exempt, refused>>

Phases == {"absent", "alone", "joined", "over"}

Init ==
    /\ phase = [s \in Sockets |-> "absent"]
    /\ partner = [s \in Sockets |-> NoSock]
    /\ account = [s \in Sockets |-> NoAccount]
    /\ authentic = {} /\ exempt = {} /\ refused = {}

\* What connection s brings when it comes, with account a.
Brings(s, a) ==
    /\ phase[s] = "absent" /\ account' = [account EXCEPT ![s] = a]
    /\ authentic' \in {authentic, authentic \cup {s}}
    /\ exempt' \in {exempt, exempt \cup {s}}

\* Connection s comes, with account a; it may be turned away at once.
Come(s, a, p) ==
    /\ Brings(s, a)
    /\ p \in {"alone", "over"} /\ phase' = [phase EXCEPT ![s] = p]
    /\ UNCHANGED <<partner, refused>>

\* Connection s, which comes or is alone already, is joined with connection q.
Join(s, q) ==
    /\ s # q /\ phase[q] = "alone"
    /\ \/ phase[s] = "alone" /\ UNCHANGED <<account, authentic, exempt>>
       \/ \E a \in Accounts : Brings(s, a)
    /\ account'[s] = account'[q] \/ {s, q} \cap exempt' # {}
    /\ {s, q} \cap authentic' # {}
    /\ phase' = [phase EXCEPT ![s] = "joined", ![q] = "joined"]
    /\ partner' = [partner EXCEPT ![s] = q, ![q] = s]
    /\ UNCHANGED refused

\* A connection that came ends, together with its partner.
End(s) ==
    LET gone == {s, partner[s]} IN
    /\ phase[s] \in {"alone", "joined"}
    /\ phase' = [x \in Sockets |-> IF x \in gone THEN "over" ELSE phase[x]]
    /\ partner' = [x \in Sockets |-> IF x \in gone THEN NoSock ELSE partner[x]]
    /\ UNCHANGED <<account, authentic, exempt, refused>>

\* A user is refused its rights, and ends without its partner.
Leave(s) ==
    /\ s \in authentic \ refused /\ refused' = refused \cup {s}
    /\ phase' = [phase EXCEPT ![s] = "over"]
    /\ partner' = [partner EXCEPT ![s] = NoSock]
    /\ UNCHANGED <<account, authentic, exempt>>

Next ==
    \/ \E s \in Sockets, a \in Accounts, p \in {"alone", "over"} : Come(s, a, p)
    \/ \E s, q \in Sockets : Join(s, q)
    \/ \E s \in Sockets : End(s) \/ Leave(s)

Spec == Init /\ [][Next]_vars
=============================================================================
