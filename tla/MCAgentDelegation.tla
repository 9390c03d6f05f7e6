-------------------------- MODULE MCAgentDelegation --------------------------
(* A root p that may delegate to c, and c to g; every agent has one tick.    *)
EXTENDS AgentDelegation

CONSTANTS p, c, g

MCParentOf == [r \in Runs |-> CASE r = p -> NoRun [] r = c -> p [] OTHER -> c]
MCTimeout == [r \in Runs |-> 1]
=============================================================================
