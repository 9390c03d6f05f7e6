----------------------- MODULE AgentRuntimeProperties -----------------------
(***************************************************************************)
(* What the agent runtime must guarantee, whatever the executors decide    *)
(* and however pauses, cancellations, late threads, restarts and deadlines *)
(* interleave with them.                                                   *)
(***************************************************************************)
EXTENDS AgentRuntime

(* An effectful tool call is started at most once, plus once for every     *)
(* time the user explicitly authorised a retry of it: neither recovery,    *)
(* nor a pause, nor a second task working on the same run ever repeats it  *)
(* blindly (create_step and its unique action key, abandon_step_for_retry  *)
(* being kept to tools without effects, recover_interrupted, resume).      *)
EffectOnce ==
  \A r \in Runs, k \in EffectTools : dispatched[r][k] <= 1 + authorized[r][k]

(* A run that waits, waits for exactly one unanswered request, and of the  *)
(* kind its status announces: create_interaction, respond_interaction,     *)
(* expire_interactions, request_pause and request_cancel keep the two rows *)
(* in step, so a waiting run can always be answered or expired.            *)
WaitingHasPending ==
  \A r \in Runs : status[r] \in Waiting =>
    \E q \in Requests : Pending(r) = {q} /\ status[r] = WaitStatus(q)

(* The concurrency limit of an agent group holds at every moment, through  *)
(* pauses, resumptions and recovery (claim_next counts planning and        *)
(* running runs inside its own transaction).                               *)
SlotBound == Cardinality(ActiveRuns(Group)) <= GroupLimit

(* A lease of the user's that covers the call, by its scope, its tool and  *)
(* its arguments, and that is spent if it was for one use.                 *)
Backs(l, r, k) ==
  /\ Issued(l) /\ interaction[l[1]][l[2]] = "approved" /\ Matches(l, r, k)
  /\ SingleUse(l) => revoked[l[1]][l[2]]

(* A tool that needs a capability the policies do not allow outright is    *)
(* started only under a lease that covers the run and the call, that came  *)
(* from the user's approval of a request, of this call or of another one,  *)
(* and that is spent by then if it was given for one use: whatever other   *)
(* task, lease sweep or answer falls between the decision of the policy,   *)
(* consume_single_use_leases and create_step.                              *)
Authority ==
  \A r \in Runs, k \in CapTools :
    dispatched[r][k] > 0 /\ "allow" \notin PolicyEffects[k] =>
      \E l \in LeaseIds : Backs(l, r, k)

(* An uncertain tool effect stays on record until the user resumes the     *)
(* interrupted run: no late settlement, no recovery and no other task      *)
(* overwrites it (settle_step's WHERE status = 'running').                 *)
UncertainHeld ==
  [][\A r \in Runs, k \in Keys :
       step[r][k] = "uncertain" /\ step'[r][k] # "uncertain" =>
         status[r] = "interrupted" /\ status'[r] = "queued"]_vars

Drivers(r) == {t \in Tasks : task[t].run = r /\ task[t].pc # "done"}

(* As long as no user pauses, resumes or cancels, and for a run that has   *)
(* asked its user nothing: in planning or running it is driven by exactly  *)
(* one party, its task or the dispatcher about to create it, and in        *)
(* another status by none; stops, process losses, late claims and detached *)
(* writes included (recover_interrupted).  A run that asks the question of *)
(* an existing request key keeps its status and loses its task, and the    *)
(* answer to a request a stop left behind takes a run from its task, so    *)
(* nothing is promised of a run that asks.                                 *)
DrivenOnce ==
  mode = "up" /\ controls = 0 =>
    \A r \in {s \in Runs : \A q \in Requests : interaction[s][q] = "none"} :
      /\ status[r] \in Active <=> (claimed = r \/ Drivers(r) # {})
      /\ Cardinality(Drivers(r)) <= (IF claimed = r THEN 0 ELSE 1)

PhaseOf(s) ==
  CASE s = "absent" -> "new"
    [] s = "queued" -> "ready"
    [] s \in Active -> "active"
    [] s \in Waiting \cup {"interrupted"} -> "blocked"
    [] OTHER -> s

Lifecycle == INSTANCE AgentLifecycle WITH phase <- [r \in Runs |-> PhaseOf(status[r])]

(* The runtime with its database implements AgentLifecycle.  *)
ImplementsLifecycle == Lifecycle!Spec

-----------------------------------------------------------------------------
(* Fairness.  The event loop runs every ready task and the dispatcher      *)
(* (which polls every 0.25 s), a thread that started its transaction       *)
(* commits it, executors and tools return (each has a timeout), a control  *)
(* request that wrote its row goes on to cancel the task, a server that    *)
(* was stopped is started again, and time passes.  Nothing is assumed of   *)
(* model providers (_run_model_call waits without a limit), of users or of *)
(* stops.                                                                  *)
AtModel(t) == task[t].pc = "call" /\ task[t].active = "model"

Fairness ==
  /\ \A t \in Tasks : WF_vars(Body(t) /\ ~AtModel(t)) /\ WF_vars(Cleanup(t))
  /\ WF_vars(DetachedCommit) /\ WF_vars(Dispatcher)
  /\ \A r \in Runs : WF_vars(Kick(r)) /\ WF_vars(DeadlinePasses(r))
  /\ WF_vars(LateClaim \/ StopSuspend \/ StopCancel \/ CloseLoop \/ StopFinish \/ Restart)

FairSpec == Spec /\ Fairness

(* The run waits for a model provider.  *)
AtProvider(r) == \E t \in Drivers(r) : AtModel(t)

(* Its executor asked under the key of a request the run has already, one  *)
(* that is answered or was left behind by a stop, and create_interaction   *)
(* returned that request: the task is over, the status stays.              *)
Stranded(r) ==
  /\ status[r] \in Active /\ claimed # r /\ Drivers(r) = {}
  /\ \E q \in Requests : interaction[r][q] # "none"

(* A run with a deadline, that no user pauses, resumes or cancels, does    *)
(* not stay queued or active for ever, across stops and process losses: it *)
(* ends, or comes to rest with a person who must answer a request or       *)
(* decide about an uncertain effect.  The claim sweep, the check after     *)
(* snapshot() and asyncio.timeout leave it two other ways only: a provider *)
(* that never answers, and a question that is asked again.                 *)
DeadlineEnds ==
  \A r \in DeadlineRuns :
    \/ <>[]AtProvider(r)
    \/ status[r] \in {"queued"} \cup Active
         ~> \/ status[r] \in Terminal \cup Waiting \cup {"interrupted"}
            \/ Stranded(r) \/ controls > 0
=============================================================================
