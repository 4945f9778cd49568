--------------------------- MODULE MCAgentSession ---------------------------
(* Values of the constants of AgentSession for TLC. *)
EXTENDS AgentSession

CONSTANTS e1

AnyFault == AllFaults
NoFault == {}
=============================================================================
