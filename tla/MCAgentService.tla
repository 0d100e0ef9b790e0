--------------------------- MODULE MCAgentService ---------------------------
(* AgentService with two clients, who may start what the other has stopped. *)
EXTENDS AgentService

CONSTANTS c1, c2

MCClients == {c1, c2}
=============================================================================
