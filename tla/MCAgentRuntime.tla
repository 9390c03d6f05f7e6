--------------------------- MODULE MCAgentRuntime ---------------------------
EXTENDS AgentRuntimeProperties, TLC
CONSTANTS r1, r2, e, look
TaskSymmetry == Permutations(Tasks)
Rank1 == [r \in {r1} |-> 0]
Rank2 == [r \in {r1, r2} |-> IF r = r1 THEN 0 ELSE 1]

(* Two calls of one tool: a lease given for e lets look pass as well, the  *)
(* selector of a lease given for look excludes e.                          *)
Covers0 == [q \in {} |-> {}]
CoversTool == (e :> {e, look}) @@ (look :> {look})
AskFirst == (e :> {"require_approval"}) @@ (look :> {"deny"})
AskOrDeny == [k \in CapTools |-> {"require_approval", "deny"}]
AllowOrAsk == [k \in CapTools |-> {"allow", "require_approval"}]
Apart == [r \in Runs |-> {}]
=============================================================================
