--------------------------- MODULE MCAgentDaemon ---------------------------
(* A small instance of AgentDaemon for TLC. *)
EXTENDS AgentDaemon

\* A critical halt and the one a time drift asks for.
DaemonRequests == {[sev |-> "critical", act |-> "cancel_orders"],
                   [sev |-> "high", act |-> "halt_only"]}
=============================================================================
