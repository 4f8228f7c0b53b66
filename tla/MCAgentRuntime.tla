--------------------------- MODULE MCAgentRuntime ---------------------------
(* AgentRuntime with one person, who has one account. *)
EXTENDS AgentRuntime

CONSTANTS ann

Alone == [a \in Actor |-> "ann"]
=============================================================================
