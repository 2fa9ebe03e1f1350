--------------------------- MODULE MCPeerSessions ---------------------------
(***************************************************************************)
(* An instance of PeerSessions: one user of two servers, with a session on *)
(* each while its account comes and goes or a server is restarted, or with *)
(* two sessions on one server and one on the other.                        *)
(***************************************************************************)
EXTENDS PeerSessions

CONSTANTS u1

OneEach == [user : {u1}, at : {1, 2}, n : {1}]
TwoAndOne == OneEach \cup [user : {u1}, at : {1}, n : {2}]

McBounds ==
    {[sessions |-> OneEach, restarts |-> 0, changes |-> 2],
     [sessions |-> OneEach, restarts |-> 1, changes |-> 0],
     [sessions |-> TwoAndOne, restarts |-> 0, changes |-> 0]}

\* Three observations that no listed run checks.  Without the exception that
\* SessionsAreCounted makes, "Merged session counters" (webserver.js:224) are
\* wrong: deleteuser removes the account before it closes the sessions, which are
\* then not taken off the count.
CountsAreExact ==
    \A s \in Servers, u \in Users :
        sessionsCount[s][u] = Count(Own(s), wsPeerSessions3[s], u)

\* A session whose web socket closed while its id was being made is listed, and
\* stays listed.
ListedIsOpen == \A s \in Servers : Own(s) \cap dead = {}

\* With Overlap: a session starts on a connection whose list was forgotten because
\* an older connection to the same peer ended, and the code throws.
StartFindsList ==
    \A c \in Conns : \A s \in Ends(c) :
        (end[c][s] = "setup" /\ Reads(c, s, "sessionStart")) =>
            Peer(c, s) \in DOMAIN wsPeerSessions[s]
=============================================================================
