---------------------------- MODULE AgentRuntime ----------------------------
(***************************************************************************)
(* The process side of the agent runtime (ai2apps/agents/runtime.py): the  *)
(* dispatcher, one asyncio task per claimed run, the pause, cancel and     *)
(* resume calls that reach it from API threads, graceful stop, process     *)
(* loss and start-up recovery, over the durable rows of AgentRepository.   *)
(*                                                                         *)
(* A task is a program counter in _run_claimed.  A counter in CallPCs      *)
(* means that the task awaits asyncio.to_thread of the transaction CallOf; *)
(* the step that leaves it commits the transaction.  Cancelling a task at  *)
(* such a point does not stop the thread: the transaction may never start, *)
(* may commit later (detached), or may have committed already with its     *)
(* result lost.                                                            *)
(***************************************************************************)
EXTENDS AgentRepository

CONSTANTS
  Tasks,              \* asyncio task identities (bounds the tasks alive at once)
  NoTask, NoRun,
  InFlight,           \* a claim_next whose thread outlives the dispatcher
  GlobalConcurrency,  \* AgentRuntime.global_concurrency
  PolicyEffects,      \* what policies and auditor may say of an unleased call
  DeadlineRuns,       \* runs whose deadline may pass in this model
  MaxControls,        \* bound: pause, resume and cancel requests
  MaxDetached,        \* bound: detached transactions at once
  MaxStops            \* bound: graceful stops and process losses

ASSUME RuntimeAssumption ==
  /\ NoTask \notin Tasks /\ NoRun \notin Runs /\ InFlight \notin Runs \cup {NoRun}
  /\ GlobalConcurrency \in Nat \ {0}
  /\ PolicyEffects \in [CapTools -> SUBSET {"allow", "deny", "require_approval"}]
  /\ DeadlineRuns \subseteq Runs
  /\ MaxControls \in Nat /\ MaxStops \in Nat /\ MaxDetached \in Nat

VARIABLES
  mode,        \* up, then the phases of stop() and of what follows it, or lost
  claimed,     \* the run claim_next returned, before create_task
  entry,       \* AgentRuntime._tasks; while draining, the tasks stop() waits for
  task,        \* the coroutine frames of _run_claimed
  detached,    \* transactions whose awaiting task was cancelled
  kicks,       \* task.cancel() calls that pause/cancel still have to make
  dispatched,  \* tool and model invocations started per action key (history)
  controls, stops

procVars == <<mode, claimed, entry, kicks, controls, stops>>
vars == <<storeVars, procVars, task, detached, dispatched>>

StepPCs == {"reject", "create", "settle"}
MovePCs == {"start", "complete", "requeue", "fail_write", "interrupt", "stop_move"}
AskPCs == {"ask", "ask_grant", "consume"}
CallPCs == StepPCs \cup MovePCs \cup AskPCs \cup {"stop_step"}
PCs == CallPCs \cup {"idle", "snapshot", "execute", "fail_read", "policy",
                     "dispatch", "call", "stop_read", "done"}

(* active: active_tool_step/active_tool_effects/active_model_step.         *)
(* before: their value before the result of the last call was assigned.    *)
Held == {"none", "pure", "effect", "model"}
Frames ==
  [pc : PCs, run : Runs \cup {NoRun}, key : Keys \cup InputKeys \cup {NoKey},
   attempt : Nat, active : Held, before : Held,
   budget : BOOLEAN,                        \* snapshot: current_step < max_steps
   seen : Statuses \cup {"paused"},         \* status an earlier read returned
   outcome : {"completed", "failed"},       \* how settle_step settles
   next : PCs,                              \* where to go after settle_step
   leases : SUBSET LeaseIds,                \* decision.matched_lease_ids
   handling : BOOLEAN,                      \* inside an except block
   cancelled : BOOLEAN]                     \* task.cancel() was called

Idle == [pc |-> "idle", run |-> NoRun, key |-> NoKey, attempt |-> 0,
         active |-> "none", before |-> "none", budget |-> TRUE, seen |-> "absent",
         outcome |-> "completed", next |-> "idle", leases |-> {},
         handling |-> FALSE, cancelled |-> FALSE]

Modes == {"up", "stopping", "suspended", "draining", "closing", "stopped", "lost"}

TypeOK ==
  /\ StoreTypeOK
  /\ mode \in Modes
  /\ claimed \in Runs \cup {NoRun, InFlight}
  /\ entry \in [Runs -> Tasks \cup {NoTask}]
  /\ task \in [Tasks -> Frames]
  /\ detached \in SUBSET Calls
  /\ kicks \in [Runs -> Nat]
  /\ dispatched \in [Runs -> [Keys -> Nat]]
  /\ controls \in Nat /\ stops \in Nat

Init ==
  /\ StoreInit
  /\ mode = "up" /\ claimed = NoRun
  /\ entry = [r \in Runs |-> NoTask]
  /\ task = [t \in Tasks |-> Idle]
  /\ detached = {}
  /\ kicks = [r \in Runs |-> 0]
  /\ dispatched = [r \in Runs |-> [k \in Keys |-> 0]]
  /\ controls = 0 /\ stops = 0

HeldKind(k) == CASE k \in EffectTools -> "effect" [] k \in PureTools -> "pure"
                 [] OTHER -> "model"

-----------------------------------------------------------------------------
(* The transaction a task awaits.  *)

StopTarget(f) == IF f.active = "effect" THEN "interrupted" ELSE "queued"

MoveCall(f, expected, to, err) ==
  [op |-> "transition", run |-> f.run, key |-> f.key, attempt |-> f.attempt,
   expected |-> expected, to |-> to, error |-> err, leases |-> {}]
StepCall(f, op, to) ==
  [op |-> op, run |-> f.run, key |-> f.key, attempt |-> f.attempt,
   expected |-> {}, to |-> to, error |-> "keep", leases |-> f.leases]

(* Variant: the handler forgets that the tool had effects.  *)
AbandonStepCall(f) ==
  IF f.seen = "cancelled" THEN StepCall(f, "settle_step", "cancelled")
  ELSE StepCall(f, "abandon_step_for_retry", "none")

(* What the CancelledError handler does with the step it was running.  *)
StopStepCall(f) ==
  IF f.active = "effect"
  THEN StepCall(f, "settle_step", "uncertain")
  ELSE IF f.active = "pure" /\ f.seen = "cancelled"
       THEN StepCall(f, "settle_step", "cancelled")
       ELSE StepCall(f, "abandon_step_for_retry", "none")

CallOf(f) ==
  CASE f.pc = "start" -> MoveCall(f, {"planning"}, "running", "keep")
    [] f.pc = "complete" -> MoveCall(f, {"running"}, "completed", "keep")
    [] f.pc = "requeue" -> MoveCall(f, {"running"}, "queued", "keep")
    [] f.pc = "interrupt" -> MoveCall(f, {"running"}, "interrupted", "uncertain")
    [] f.pc = "fail_write" -> MoveCall(f, {f.seen}, "failed", "other")
    [] f.pc = "stop_move" ->
         MoveCall(f, Active, StopTarget(f),
                  IF f.active = "effect" THEN "uncertain" ELSE "runtime_stopped")
    [] f.pc = "stop_step" -> StopStepCall(f)
    [] f.pc = "settle" -> StepCall(f, "settle_step", f.outcome)
    [] f.pc = "consume" -> StepCall(f, "consume_single_use_leases", "none")
    [] f.pc \in {"ask", "ask_grant"} -> StepCall(f, "create_interaction", "none")
    [] OTHER -> StepCall(f, "create_step", "none")

-----------------------------------------------------------------------------
(* Steps of a task.  *)

(* A frame with its locals assigned goes on; a finished one drops them.    *)
(* The matched leases matter only until they are consumed.                 *)
At(f, pc) ==
  IF pc = "done" THEN [Idle EXCEPT !.pc = "done", !.run = f.run]
  ELSE [f EXCEPT !.pc = pc, !.before = f.active, !.leases = {}]

Goto(t, pc) == task' = [task EXCEPT ![t] = At(task[t], pc)]

(* An exception: the body's handlers call _fail, a handler lets it escape.  *)
Raise(t) ==
  task' = [task EXCEPT ![t] =
    IF task[t].handling THEN At(@, "done")
    ELSE [At(@, "fail_read") EXCEPT !.handling = TRUE]]

(* Once cancel() is called, the pending await can only raise.  *)
Proceeds(t, pc) == task[t].pc = pc /\ ~task[t].cancelled

Await(t, pc, next) ==
  /\ Proceeds(t, pc)
  /\ Transact(CallOf(task[t]))
  /\ IF Accepts(CallOf(task[t])) THEN Goto(t, next) ELSE Raise(t)
  /\ UNCHANGED <<procVars, detached, dispatched>>

Local(t, pc) ==
  /\ Proceeds(t, pc)
  /\ UNCHANGED <<storeVars, procVars, detached, dispatched>>

Start(t) == Await(t, "start", "snapshot")
Complete(t) == Await(t, "complete", "done")
Requeue(t) == Await(t, "requeue", "done")
Interrupt(t) == Await(t, "interrupt", "done")
FailWrite(t) == Await(t, "fail_write", "done")
Ask(t) == Await(t, "ask", "done")
AskGrant(t) == Await(t, "ask_grant", "done")
Consume(t) == Await(t, "consume", "create")

(* snapshot(), and the deadline check that follows it.  *)
Snapshot(t) ==
  /\ Local(t, "snapshot")
  /\ LET r == task[t].run
     IN task' = [task EXCEPT ![t] =
          [@ EXCEPT !.pc = IF expired[r] THEN "fail_read" ELSE "execute",
                    !.budget = current_step[r] < MaxSteps]]

(* The executor returns an action; which one is the agent's choice.  *)
Decide(t) ==
  /\ Local(t, "execute")
  /\ \/ \E pc \in {"complete", "requeue", "fail_read"} :
          task' = [task EXCEPT ![t] = [@ EXCEPT !.pc = pc, !.budget = TRUE]]
     \/ \E q \in InputKeys :
          task' = [task EXCEPT ![t] =
            [@ EXCEPT !.pc = "ask", !.key = q, !.budget = TRUE]]
     \/ \E k \in Tools :      \* ToolErrorAction
          task' = [task EXCEPT ![t] =
            [@ EXCEPT !.pc = IF task[t].budget THEN "reject" ELSE "fail_read",
                      !.key = k, !.budget = TRUE]]
     \/ \E k \in Keys :       \* ToolCallAction, ModelCallAction
          task' = [task EXCEPT ![t] =
            [@ EXCEPT !.pc = IF ~task[t].budget THEN "fail_read"
                             ELSE IF k \in CapTools THEN "policy" ELSE "create",
                      !.key = k, !.budget = TRUE]]

(* asyncio.timeout(remaining) fires while the executor runs.  *)
DeadlineTimeout(t) ==
  /\ Local(t, "execute")
  /\ expired[task[t].run]
  /\ Raise(t)

(* capability_policy.evaluate: matching leases allow, and are the ones to  *)
(* be consumed; otherwise the policies decide.  Only a decision to allow   *)
(* goes on to the tool.                                                    *)
Policy(t) ==
  LET matched == active_leases_for_run(task[t].run, task[t].key)
      effects == PolicyEffects[task[t].key]
  IN /\ Local(t, "policy")
     /\ \/ /\ matched # {}
           /\ task' = [task EXCEPT ![t] = [At(@, "consume") EXCEPT !.leases = matched]]
        \/ /\ matched = {}
           /\ \/ "allow" \in effects /\ Goto(t, "create")
              \/ "deny" \in effects /\ Goto(t, "fail_read")
              \/ "require_approval" \in effects /\ Goto(t, "ask_grant")

(* What follows create_step when the key already has a row.  *)
Replayed(k, s) ==
  CASE s = "completed" -> "requeue"
    [] s = "uncertain" /\ k \in Tools -> "interrupt"
    [] OTHER -> "fail_read"

CreateStep(t) ==
  LET f == task[t]
      s == step[f.run][f.key]
  IN /\ Proceeds(t, "create")
     /\ Transact(CallOf(f))
     /\ task' = [task EXCEPT ![t] =
          [@ EXCEPT !.pc = IF s = "none" THEN "dispatch" ELSE Replayed(f.key, s),
                    !.attempt = attempt[f.run][f.key],
                    !.before = f.active,
                    !.active = HeldKind(f.key)]]
     /\ UNCHANGED <<procVars, detached, dispatched>>

(* ToolErrorAction: record the rejected call as a failed step.  *)
RejectStep(t) ==
  LET f == task[t]
      s == step[f.run][f.key]
  IN /\ Proceeds(t, "reject")
     /\ Transact(CallOf(f))
     /\ \/ /\ s = "none"
           /\ \E next \in {"requeue", "fail_read"} :
                task' = [task EXCEPT ![t] =
                  [@ EXCEPT !.pc = "settle", !.outcome = "failed", !.next = next,
                            !.attempt = attempt[f.run][f.key],
                            !.before = f.active, !.active = "pure"]]
        \/ s = "failed" /\ Goto(t, "requeue")
        \/ s # "none" /\ Goto(t, "fail_read")
     /\ UNCHANGED <<procVars, detached, dispatched>>

(* tools.execute / the model provider is invoked.  *)
Dispatch(t) ==
  /\ Proceeds(t, "dispatch")
  /\ dispatched' = [dispatched EXCEPT ![task[t].run][task[t].key] = @ + 1]
  /\ Goto(t, "call")
  /\ UNCHANGED <<storeVars, procVars, detached>>

(* The invocation returns, fails in a way the code settles, or raises.     *)
(* Only a failure without effects may be handed back to the model.         *)
Return(t) ==
  /\ Local(t, "call")
  /\ \/ \E o \in {"completed", "failed"}, next \in {"requeue", "fail_read"} :
          /\ o = "completed" => next = "requeue"
          /\ o = "failed" /\ task[t].active = "effect" => next = "fail_read"
          /\ task' = [task EXCEPT ![t] =
               [@ EXCEPT !.pc = "settle", !.outcome = o, !.next = next,
                         !.before = task[t].active]]
     \/ task[t].active # "model" /\ Raise(t)

(* A failed model step stays in active_model_step.  *)
Settle(t) ==
  LET f == task[t]
  IN /\ Proceeds(t, "settle")
     /\ Transact(CallOf(f))
     /\ task' = [task EXCEPT ![t] =
          [At(@, f.next) EXCEPT
                    !.outcome = "completed", !.next = "idle",
                    !.active = IF f.active = "model" /\ f.outcome = "failed"
                               THEN "model" ELSE "none"]]
     /\ UNCHANGED <<procVars, detached, dispatched>>

(* _fail reads the run, returns if it has ended, else moves it from there. *)
FailRead(t) ==
  /\ Local(t, "fail_read")
  /\ LET s == status[task[t].run]
     IN task' = [task EXCEPT ![t] =
          IF s \in Terminal THEN At(@, "done")
          ELSE [@ EXCEPT !.pc = "fail_write", !.seen = s]]

-----------------------------------------------------------------------------
(* Cancellation.  *)

(* The call the cancelled task awaited: dropped, or left to its thread.  *)
Leave(t) ==
  \/ UNCHANGED detached
  \/ /\ task[t].pc \in CallPCs /\ Cardinality(detached) < MaxDetached
     /\ detached' = detached \cup {CallOf(task[t])}

(* CancelledError is thrown into the task.  The body's handler takes over, *)
(* with the locals as assigned so far; an except block is left at once,    *)
(* and so is a task that never started.                                    *)
CancelTask(t) ==
  /\ task[t].cancelled
  /\ task[t].pc \notin {"idle", "done"}
  /\ \/ /\ Goto(t, "done")
        /\ \/ task[t].handling /\ Leave(t)
           \/ task[t].pc = "start" /\ UNCHANGED detached
     \/ /\ ~task[t].handling
        /\ \/ Leave(t) /\ task' = [task EXCEPT ![t] =
                 [@ EXCEPT !.pc = "stop_read", !.handling = TRUE, !.leases = {},
                           !.cancelled = FALSE]]
           \/ /\ UNCHANGED detached
              /\ task' = [task EXCEPT ![t] =
                   [@ EXCEPT !.pc = "stop_read", !.handling = TRUE, !.leases = {},
                             !.cancelled = FALSE, !.active = task[t].before]]
  /\ UNCHANGED <<storeVars, procVars, dispatched>>

(* Where the handler goes once it has read the run.  *)
StopNext(seen) == IF seen \in {"cancelled", "paused"} THEN "done" ELSE "stop_move"

StopRead(t) ==
  /\ Local(t, "stop_read")
  /\ LET r == task[t].run
         s == IF status[r] = "interrupted" /\ error[r] = "user_paused"
              THEN "paused" ELSE status[r]
     IN IF task[t].active = "none" THEN Goto(t, StopNext(s))
        ELSE task' = [task EXCEPT ![t] = [@ EXCEPT !.pc = "stop_step", !.seen = s]]

StopStep(t) == Await(t, "stop_step", StopNext(task[t].seen))
StopMove(t) == Await(t, "stop_move", "done")

(* The done callback pops _tasks[run], whichever task is stored there; the *)
(* tuple that stop() waits for loses only the task that has ended.         *)
TaskDone(t) ==
  /\ task[t].pc = "done"
  /\ entry' = [entry EXCEPT ![task[t].run] =
                 IF mode = "draining" /\ @ # t THEN @ ELSE NoTask]
  /\ task' = [task EXCEPT ![t] = Idle]
  /\ UNCHANGED <<storeVars, mode, claimed, kicks, controls, stops, detached, dispatched>>

(* The thread of a cancelled await gets to its transaction.  *)
DetachedCommit ==
  /\ \E c \in detached : Transact(c) /\ detached' = detached \ {c}
  /\ UNCHANGED <<procVars, task, dispatched>>

-----------------------------------------------------------------------------
(* The dispatcher.  *)

HasSlot == Cardinality({r \in Runs : entry[r] # NoTask}) < GlobalConcurrency

Claim ==
  /\ mode = "up" /\ claimed = NoRun /\ HasSlot
  /\ Candidates \cup Overdue # {}
  /\ claim_next
  /\ claimed' = IF Candidates = {} THEN NoRun ELSE First(Candidates)
  /\ UNCHANGED <<mode, entry, kicks, controls, stops, task, detached, dispatched>>

Spawn(t) ==
  /\ mode = "up" /\ claimed # NoRun
  /\ task[t].pc = "idle"
  /\ task' = [task EXCEPT ![t] = [Idle EXCEPT !.pc = "start", !.run = claimed]]
  /\ entry' = [entry EXCEPT ![claimed] = t]
  /\ claimed' = NoRun
  /\ UNCHANGED <<storeVars, mode, kicks, controls, stops, detached, dispatched>>

ExpireInteraction ==
  /\ mode = "up"
  /\ \E r \in Runs, q \in Requests : expire_interactions(r, q)
  /\ UNCHANGED <<procVars, task, detached, dispatched>>

ExpireLease ==
  /\ mode = "up"
  /\ \E l \in LeaseIds : expire_leases(l)
  /\ UNCHANGED <<procVars, task, detached, dispatched>>

(* Time passes the deadline of a run.  It stands still for a run that      *)
(* waits or is interrupted, and while the server is down for all but a     *)
(* queued run not marked runtime_stopped: _resume_deadline gives the       *)
(* others that time back.                                                  *)
DeadlinePasses(r) ==
  /\ r \in DeadlineRuns /\ ~expired[r]
  /\ status[r] \in {"queued"} \cup Active
  /\ mode \in {"stopped", "lost"} =>
       status[r] = "queued" /\ error[r] # "runtime_stopped"
  /\ expired' = [expired EXCEPT ![r] = TRUE]
  /\ UNCHANGED <<status, error, current_step, stepVars, askVars, procVars,
                 task, detached, dispatched>>

-----------------------------------------------------------------------------
(* The control API: it writes the row first and cancels the task after.  *)

Control ==
  /\ mode = "up" /\ controls < MaxControls
  /\ controls' = controls + 1

CreateRun(r) ==
  /\ mode = "up" /\ create_run(r)
  /\ UNCHANGED <<procVars, task, detached, dispatched>>

PauseRequest(r) ==
  /\ Control /\ request_pause(r)
  /\ kicks' = [kicks EXCEPT ![r] = @ + 1]
  /\ UNCHANGED <<mode, claimed, entry, stops, task, detached, dispatched>>

CancelRequest(r) ==
  /\ Control /\ request_cancel(r)
  /\ kicks' = [kicks EXCEPT ![r] = @ + 1]
  /\ UNCHANGED <<mode, claimed, entry, stops, task, detached, dispatched>>

(* task = self._tasks.get(run_id); task.cancel()  *)
Kick(r) ==
  /\ kicks[r] > 0
  /\ kicks' = [kicks EXCEPT ![r] = @ - 1]
  /\ task' = [t \in Tasks |-> IF t = entry[r] /\ task[t].pc \notin {"idle", "done"}
                              THEN [task[t] EXCEPT !.cancelled = TRUE] ELSE task[t]]
  /\ UNCHANGED <<storeVars, mode, claimed, entry, controls, stops, detached, dispatched>>

Resume(r) ==
  /\ Control
  /\ \E resolution \in Resolutions : resume_interrupted(r, resolution)
  /\ UNCHANGED <<mode, claimed, entry, kicks, stops, task, detached, dispatched>>

Respond(r) ==
  /\ mode = "up"
  /\ \E q \in Requests : \E a \in Answers(q) : respond_interaction(r, q, a)
  /\ UNCHANGED <<procVars, task, detached, dispatched>>

-----------------------------------------------------------------------------
(* stop(): cancel the dispatcher, mark the queue, cancel the tasks, wait.  *)

StopBegin ==
  /\ mode = "up" /\ stops < MaxStops
  /\ \A r \in Runs : kicks[r] = 0     \* the HTTP server has drained its requests
  /\ mode' = "stopping" /\ stops' = stops + 1
  /\ \/ claimed' = NoRun
     \/ claimed = NoRun /\ HasSlot /\ claimed' = InFlight
  /\ UNCHANGED <<storeVars, entry, kicks, controls, task, detached, dispatched>>

StopSuspend ==
  /\ mode = "stopping"
  /\ suspend_queued_for_shutdown
  /\ mode' = "suspended"
  /\ UNCHANGED <<claimed, entry, kicks, controls, stops, task, detached, dispatched>>

(* Only the tasks that still have an entry are cancelled and waited for.  *)
StopCancel ==
  /\ mode = "suspended"
  /\ mode' = "draining"
  /\ task' = [t \in Tasks |->
       IF (\E r \in Runs : entry[r] = t) /\ task[t].pc \notin {"idle", "done"}
       THEN [task[t] EXCEPT !.cancelled = TRUE] ELSE task[t]]
  /\ UNCHANGED <<storeVars, claimed, entry, kicks, controls, stops, detached, dispatched>>

(* stop() has returned; the event loop that closes cancels what is left.  *)
CloseLoop ==
  /\ mode = "draining"
  /\ \A r \in Runs : entry[r] = NoTask
  /\ mode' = "closing"
  /\ task' = [t \in Tasks |-> IF task[t].pc \in {"idle", "done"} THEN task[t]
                              ELSE [task[t] EXCEPT !.cancelled = TRUE]]
  /\ UNCHANGED <<storeVars, claimed, entry, kicks, controls, stops, detached, dispatched>>

(* The claim the cancelled dispatcher was waiting for; no task follows it.  *)
LateClaim ==
  /\ claimed = InFlight
  /\ claim_next
  /\ claimed' = NoRun
  /\ UNCHANGED <<mode, entry, kicks, controls, stops, task, detached, dispatched>>

StopFinish ==
  /\ mode = "closing" /\ claimed = NoRun
  /\ \A t \in Tasks : task[t].pc = "idle"
  /\ detached = {}
  /\ mode' = "stopped"
  /\ UNCHANGED <<storeVars, claimed, entry, kicks, controls, stops, task, detached, dispatched>>

(* The process is lost: only the rows survive.  *)
ProcessLoss ==
  /\ mode \notin {"stopped", "lost"} /\ stops < MaxStops
  /\ mode' = "lost" /\ stops' = stops + 1
  /\ claimed' = NoRun
  /\ entry' = [r \in Runs |-> NoTask]
  /\ kicks' = [r \in Runs |-> 0]
  /\ task' = [t \in Tasks |-> Idle]
  /\ detached' = {}
  /\ UNCHANGED <<storeVars, controls, dispatched>>

Restart ==
  /\ mode \in {"stopped", "lost"}
  /\ mode' = "up"
  /\ recover_interrupted
  /\ UNCHANGED <<claimed, entry, kicks, controls, stops, task, detached, dispatched>>

-----------------------------------------------------------------------------
Body(t) ==
  \/ Start(t) \/ Snapshot(t) \/ Decide(t) \/ DeadlineTimeout(t)
  \/ Complete(t) \/ Requeue(t) \/ Interrupt(t) \/ FailRead(t) \/ FailWrite(t)
  \/ Ask(t) \/ Policy(t) \/ AskGrant(t) \/ Consume(t)
  \/ CreateStep(t) \/ RejectStep(t) \/ Dispatch(t) \/ Return(t) \/ Settle(t)

Cleanup(t) ==
  \/ CancelTask(t) \/ StopRead(t) \/ StopStep(t) \/ StopMove(t) \/ TaskDone(t)

Dispatcher == Claim \/ \E t \in Tasks : Spawn(t)

Clock == ExpireInteraction \/ ExpireLease \/ \E r \in Runs : DeadlinePasses(r)

Api ==
  \E r \in Runs : \/ CreateRun(r) \/ PauseRequest(r) \/ CancelRequest(r)
                  \/ Kick(r) \/ Resume(r) \/ Respond(r)

Process ==
  \/ LateClaim \/ StopBegin \/ StopSuspend \/ StopCancel \/ CloseLoop \/ StopFinish
  \/ ProcessLoss \/ Restart

Next ==
  \/ \E t \in Tasks : Body(t) \/ Cleanup(t)
  \/ DetachedCommit \/ Dispatcher \/ Clock \/ Api \/ Process

Spec == Init /\ [][Next]_vars

=============================================================================
