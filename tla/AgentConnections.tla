-------------------------- MODULE AgentConnections --------------------------
(***************************************************************************)
(* The connections of mesh agents (meshagent.js): AgentSession models how  *)
(* they come into service, AgentUpdate what is sent on them afterwards.    *)
(***************************************************************************)
CONSTANTS Agents,   \* the connections
          None      \* no connection, limit, core, task or update
=============================================================================
