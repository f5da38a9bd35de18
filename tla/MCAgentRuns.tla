----------------------------- MODULE MCAgentRuns ----------------------------
(* The priorities of the instances of AgentRuns: a chat request, a         *)
(* background request, and the steps of a plan.                            *)
EXTENDS AgentRuns

MCPrio == [j \in Job |-> IF j = 1 THEN 0 ELSE IF j = 2 THEN 2 ELSE 1]
=============================================================================
