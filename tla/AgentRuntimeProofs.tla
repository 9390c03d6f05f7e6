------------------------- MODULE AgentRuntimeProofs -------------------------
(***************************************************************************)
(* Proofs about the agent runtime for any number of runs, tasks, tools,    *)
(* requests, restarts and control requests.  The argument has two layers.  *)
(* Every step of the runtime changes the database, if at all, by one of    *)
(* the transactions of StoreStep (NextIsStoreStep); what the transactions  *)
(* preserve is then proved once, without tasks, threads or restarts.       *)
(***************************************************************************)
EXTENDS AgentRuntimeProperties, FiniteSetTheorems, WellFoundedInduction, TLAPS

(* The calls tasks really submit: the statuses they write and the keys     *)
(* they name.                                                              *)
WellFormed(c) ==
  /\ c.op = "transition" =>
       c.to \in {"running", "completed", "queued", "interrupted", "failed"}
  /\ c.op = "settle_step" => c.to \in {"completed", "failed", "cancelled", "uncertain"}
  /\ c.op = "create_interaction" => c.key \in Requests
  /\ c.op = "consume_single_use_leases" => c.key \in CapTools
  /\ c.op \in {"create_step", "settle_step", "abandon_step_for_retry"} => c.key \in Keys

(* What a task at a program counter has in its locals.  *)
FrameOK(f) ==
  /\ f.pc # "idle" => f.run \in Runs
  /\ f.pc \in {"policy", "ask_grant", "consume"} => f.key \in CapTools
  /\ f.pc = "ask" => f.key \in InputKeys
  /\ f.pc \in {"create", "reject", "dispatch", "call", "settle"} => f.key \in Keys
  /\ f.active # "none" \/ f.before # "none" => f.key \in Keys
  /\ f.pc \in {"idle", "start", "snapshot", "execute"} =>
       f.active = "none" /\ f.before = "none"
  /\ f.pc = "stop_step" => f.active # "none"
  /\ f.pc = "settle" => f.next \in {"requeue", "fail_read"}
  /\ f.pc = "fail_write" => f.seen \in Statuses

(* The inductive strengthening of TypeOK.  *)
TypeInv ==
  /\ TypeOK
  /\ \A t \in Tasks : FrameOK(task[t])
  /\ \A c \in detached : WellFormed(c)
  /\ mode \in {"up", "stopped", "lost"} => claimed # InFlight

(* Every way the runtime changes the database.  *)
StoreStep ==
  \/ \E c \in Calls : WellFormed(c) /\ Accepts(c) /\ Commit(c)
  \/ claim_next
  \/ \E r \in Runs, q \in Requests : expire_interactions(r, q)
  \/ \E l \in LeaseIds : expire_leases(l)
  \/ suspend_queued_for_shutdown
  \/ recover_interrupted
  \/ \E r \in Runs :
       \/ create_run(r) \/ request_pause(r) \/ request_cancel(r)
       \/ \E resolution \in Resolutions : resume_interrupted(r, resolution)
       \/ \E q \in Requests : \E a \in Answers(q) : respond_interaction(r, q, a)
       \/ /\ expired' = [expired EXCEPT ![r] = TRUE]
          /\ UNCHANGED <<status, error, current_step, stepVars, askVars>>

-----------------------------------------------------------------------------
(* Calls of well-typed frames.  *)

(* A well-formed frame that awaits a transaction submits a well-formed call.  *)
LEMMA CallOfType ==
  ASSUME NEW f \in Frames, FrameOK(f), f.pc \in CallPCs
  PROVE  CallOf(f) \in Calls /\ WellFormed(CallOf(f))
<1> USE DEF Frames, FrameOK, CallOf, Calls, WellFormed, Ops, Statuses, StepStatuses,
            Active, Waiting, Terminal, Errors
<1>1. CASE f.pc \in {"start", "complete", "requeue", "interrupt"}
  BY <1>1 DEF MoveCall
<1>2. CASE f.pc = "fail_write"
  <2>1. CallOf(f) = MoveCall(f, {f.seen}, "failed", "other")
    BY <1>2
  <2>2. QED
    BY <1>2, <2>1 DEF MoveCall
<1>3. CASE f.pc = "stop_move"
  BY <1>3 DEF MoveCall, StopTarget
<1>4. CASE f.pc = "stop_step"
  BY <1>4 DEF StepCall, StopStepCall
<1>5. CASE f.pc = "settle"
  BY <1>5 DEF StepCall
<1>6. CASE f.pc \in {"consume", "ask", "ask_grant"}
  BY <1>6 DEF StepCall, Requests
<1>7. CASE f.pc \in {"create", "reject"}
  BY <1>7 DEF StepCall
<1>8. QED
  BY <1>1, <1>2, <1>3, <1>4, <1>5, <1>6, <1>7 DEF CallPCs, StepPCs, MovePCs, AskPCs

-----------------------------------------------------------------------------
(* Every step of the runtime is a transaction of the store or leaves it    *)
(* alone.                                                                  *)

(* A well-formed call commits as a store step or rolls back.  *)
LEMMA TransactIsStoreStep ==
  ASSUME NEW c \in Calls, WellFormed(c), Transact(c)
  PROVE  StoreStep \/ UNCHANGED storeVars
BY DEF Transact, StoreStep

(* So does the call a task awaits.  *)
LEMMA TaskIsStoreStep ==
  ASSUME TypeInv, NEW t \in Tasks, task[t].pc \in CallPCs, Transact(CallOf(task[t]))
  PROVE  StoreStep \/ UNCHANGED storeVars
<1>1. task[t] \in Frames /\ FrameOK(task[t])
  BY DEF TypeInv, TypeOK
<1>2. QED
  BY <1>1, CallOfType, TransactIsStoreStep

(* So does every awaited call, whatever follows it.  *)
LEMMA AwaitIsStoreStep ==
  ASSUME TypeInv, NEW t \in Tasks, NEW pc \in CallPCs, NEW next, Await(t, pc, next)
  PROVE  StoreStep \/ UNCHANGED storeVars
BY TaskIsStoreStep DEF Await, Proceeds

(* No step of the process writes the database in any other way.  *)
LEMMA NextIsStoreStep ==
  ASSUME TypeInv, [Next]_vars
  PROVE  StoreStep \/ UNCHANGED storeVars
<1> USE DEF CallPCs, StepPCs, MovePCs, AskPCs
<1>1. ASSUME NEW t \in Tasks, Body(t)
      PROVE  StoreStep \/ UNCHANGED storeVars
  <2>1. CASE Start(t) \/ Complete(t) \/ Requeue(t) \/ Interrupt(t) \/ FailWrite(t)
    BY <2>1, AwaitIsStoreStep DEF Start, Complete, Requeue, Interrupt, FailWrite
  <2>2. CASE Ask(t) \/ AskGrant(t) \/ Consume(t)
    BY <2>2, AwaitIsStoreStep DEF Ask, AskGrant, Consume
  <2>3. CASE CreateStep(t) \/ RejectStep(t) \/ Settle(t)
    BY <2>3, TaskIsStoreStep DEF CreateStep, RejectStep, Settle, Proceeds
  <2>4. CASE Snapshot(t) \/ Decide(t) \/ DeadlineTimeout(t) \/ FailRead(t)
             \/ Policy(t) \/ Return(t)
    BY <2>4 DEF Snapshot, Decide, DeadlineTimeout, FailRead, Policy, Return, Local
  <2>5. CASE Dispatch(t)
    BY <2>5 DEF Dispatch
  <2>6. QED
    BY <1>1, <2>1, <2>2, <2>3, <2>4, <2>5 DEF Body
<1>2. ASSUME NEW t \in Tasks, Cleanup(t)
      PROVE  StoreStep \/ UNCHANGED storeVars
  <2>1. CASE StopStep(t) \/ StopMove(t)
    BY <2>1, AwaitIsStoreStep DEF StopStep, StopMove
  <2>2. CASE CancelTask(t) \/ StopRead(t) \/ TaskDone(t)
    BY <2>2 DEF CancelTask, StopRead, TaskDone, Local
  <2>3. QED
    BY <1>2, <2>1, <2>2 DEF Cleanup
<1>3. CASE DetachedCommit
  <2>1. PICK c \in detached : Transact(c)
    BY <1>3 DEF DetachedCommit
  <2>2. c \in Calls /\ WellFormed(c)
    BY <2>1 DEF TypeInv, TypeOK
  <2>3. QED
    BY <2>1, <2>2, TransactIsStoreStep
<1>4. CASE Dispatcher
  BY <1>4 DEF Dispatcher, Claim, Spawn, StoreStep
<1>5. CASE Clock
  <2>1. CASE ExpireInteraction \/ ExpireLease
    BY <2>1 DEF ExpireInteraction, ExpireLease, StoreStep
  <2>2. ASSUME NEW r \in Runs, DeadlinePasses(r)
        PROVE  StoreStep
    BY <2>2 DEF DeadlinePasses, StoreStep
  <2>3. QED
    BY <1>5, <2>1, <2>2 DEF Clock
<1>6. CASE Api
  <2>1. PICK r \in Runs : \/ CreateRun(r) \/ PauseRequest(r) \/ CancelRequest(r)
                          \/ Kick(r) \/ Resume(r) \/ Respond(r)
    BY <1>6 DEF Api
  <2>2. CASE CreateRun(r)
    BY <2>2 DEF CreateRun, StoreStep
  <2>3. CASE PauseRequest(r)
    BY <2>3 DEF PauseRequest, StoreStep
  <2>4. CASE CancelRequest(r)
    BY <2>4 DEF CancelRequest, StoreStep
  <2>5. CASE Kick(r)
    BY <2>5 DEF Kick
  <2>6. CASE Resume(r)
    BY <2>6 DEF Resume, StoreStep
  <2>7. CASE Respond(r)
    BY <2>7 DEF Respond, StoreStep
  <2>8. QED
    BY <2>1, <2>2, <2>3, <2>4, <2>5, <2>6, <2>7
<1>7. CASE Process
  <2>1. CASE LateClaim \/ StopSuspend \/ Restart
    BY <2>1 DEF LateClaim, StopSuspend, Restart, StoreStep
  <2>2. CASE StopBegin \/ StopCancel \/ CloseLoop \/ StopFinish \/ ProcessLoss
    BY <2>2 DEF StopBegin, StopCancel, CloseLoop, StopFinish, ProcessLoss
  <2>3. QED
    BY <1>7, <2>1, <2>2 DEF Process
<1>8. CASE UNCHANGED vars
  BY <1>8 DEF vars
<1>9. QED
  BY <1>1, <1>2, <1>3, <1>4, <1>5, <1>6, <1>7, <1>8 DEF Next

-----------------------------------------------------------------------------
(* The transactions keep the rows well-typed.  *)

(* Updating one row of a table indexed by run and key.  *)
LEMMA NestedUpdate ==
  ASSUME NEW S, NEW T, NEW V, NEW f \in [S -> [T -> V]],
         NEW x \in S, NEW y \in T, NEW v \in V
  PROVE  /\ [f EXCEPT ![x][y] = v] \in [S -> [T -> V]]
         /\ \A s \in S, u \in T : [f EXCEPT ![x][y] = v][s][u] =
               IF s = x /\ u = y THEN v ELSE f[s][u]
OBVIOUS

(* The transactions of tasks keep the rows typed.  *)
LEMMA CommitType ==
  ASSUME StoreTypeOK, NEW c \in Calls, WellFormed(c), Commit(c)
  PROVE  StoreTypeOK'
<1> DEFINE r == c.run
           k == c.key
<1>0. r \in Runs
  BY DEF Calls
<1> USE <1>0 DEF StoreTypeOK, stepVars, askVars, runVars
<1> HIDE DEF r, k
<1>1. CASE c.op = "transition" /\ transition(c)
  <2>1. c.to \in Statuses /\ c.error \in Errors \cup {"keep"}
    BY <1>1 DEF WellFormed, Statuses, Active, Waiting, Terminal, Calls
  <2>2. QED
    BY <1>1, <2>1 DEF transition, r
<1>2. CASE UNCHANGED storeVars
  BY <1>2 DEF storeVars
<1>3. CASE c.op = "create_step" /\ create_step(c) /\ ~UNCHANGED storeVars
  <2>1. k \in Keys /\ "running" \in StepStatuses
    BY <1>3 DEF WellFormed, StepStatuses, k
  <2>2. /\ step' = [step EXCEPT ![r][k] = "running"]
        /\ current_step' = [current_step EXCEPT ![r] = @ + 1]
        /\ UNCHANGED <<status, error, expired, attempt, authorized, askVars>>
    BY <1>3 DEF create_step, r, k
  <2>3. QED
    BY <2>1, <2>2, NestedUpdate
<1>4. CASE c.op = "settle_step" /\ settle_step(c) /\ ~UNCHANGED storeVars
  <2>1. c.to \in StepStatuses /\ k \in Keys
    BY <1>4 DEF WellFormed, StepStatuses, k
  <2>2. /\ step' = [step EXCEPT ![r][k] = c.to]
        /\ UNCHANGED <<attempt, authorized, runVars, askVars>>
    BY <1>4 DEF settle_step, r, k
  <2>3. QED
    BY <2>1, <2>2, NestedUpdate
<1>5. CASE c.op = "abandon_step_for_retry" /\ abandon_step_for_retry(c)
  <2>1. k \in Keys /\ "none" \in StepStatuses
    BY <1>5 DEF WellFormed, StepStatuses, k
  <2>2. /\ step' = [step EXCEPT ![r][k] = "none"]
        /\ attempt' = [attempt EXCEPT ![r][k] = attempt[r][k] + 1]
        /\ UNCHANGED <<authorized, runVars, askVars>>
    BY <1>5 DEF abandon_step_for_retry, r, k
  <2>3. attempt[r][k] + 1 \in Nat
    BY <2>1
  <2>4. QED
    BY <2>1, <2>2, <2>3, NestedUpdate
<1>6. CASE c.op = "create_interaction" /\ create_interaction(c) /\ ~UNCHANGED storeVars
  <2>1. k \in Requests /\ "pending" \in InteractionStatuses
    BY <1>6 DEF WellFormed, InteractionStatuses, k
  <2>2. /\ interaction' = [interaction EXCEPT ![r][k] = "pending"]
        /\ status' = [status EXCEPT ![r] = IF @ = "running" THEN WaitStatus(k) ELSE @]
        /\ UNCHANGED <<error, expired, current_step, stepVars, lease, revoked>>
    BY <1>6 DEF create_interaction, r, k
  <2>3. WaitStatus(k) \in Statuses
    BY DEF WaitStatus, Statuses, Waiting
  <2>4. QED
    BY <2>1, <2>2, <2>3, NestedUpdate
<1>7. CASE c.op = "consume_single_use_leases" /\ consume_single_use_leases(c)
  <2>1. revoked' \in [Runs -> [CapTools -> BOOLEAN]]
    BY <1>7 DEF consume_single_use_leases
  <2>2. QED
    BY <1>7, <2>1 DEF consume_single_use_leases
<1>8. QED
  BY <1>1, <1>2, <1>3, <1>4, <1>5, <1>6, <1>7 DEF Commit

(* resume_interrupted keeps the rows typed.  *)
LEMMA ResumeType ==
  ASSUME StoreTypeOK, NEW r \in Runs, NEW resolution \in Resolutions,
         resume_interrupted(r, resolution)
  PROVE  StoreTypeOK'
<1> DEFINE retried == IF resolution = "retry" THEN Uncertain(r) ELSE {}
           Freed(f) == [f EXCEPT ![r] =
             [k \in Keys |-> IF k \in retried THEN f[r][k] + 1 ELSE f[r][k]]]
<1>1. /\ attempt' = Freed(attempt) /\ authorized' = Freed(authorized)
      /\ status' = [status EXCEPT ![r] = "queued"]
      /\ error' = [error EXCEPT ![r] = "none"]
      /\ step' = [step EXCEPT ![r] =
             [k \in Keys |->
                IF k \notin Uncertain(r) THEN step[r][k]
                ELSE IF resolution = "retry" THEN "none" ELSE "completed"]]
      /\ UNCHANGED <<expired, current_step, askVars>>
  BY DEF resume_interrupted
<1>2. attempt' \in [Runs -> [Keys -> Nat]]
  BY <1>1 DEF StoreTypeOK
<1>3. authorized' \in [Runs -> [Keys -> Nat]]
  BY <1>1 DEF StoreTypeOK
<1>4. step' \in [Runs -> [Keys -> StepStatuses]]
  BY <1>1 DEF StoreTypeOK, StepStatuses
<1>5. QED
  BY <1>1, <1>2, <1>3, <1>4 DEF StoreTypeOK, Statuses, Errors, askVars

(* recover_interrupted keeps the rows typed.  *)
LEMMA RecoverType ==
  ASSUME StoreTypeOK, recover_interrupted
  PROVE  StoreTypeOK'
<1>1. status' \in [Runs -> Statuses]
  BY DEF StoreTypeOK, recover_interrupted, Recovered, Statuses, Terminal
<1>2. error' \in [Runs -> Errors]
  BY DEF StoreTypeOK, recover_interrupted, Errors
<1>3. expired' \in [Runs -> BOOLEAN]
  BY DEF StoreTypeOK, recover_interrupted, resume_deadline
<1>4. step' \in [Runs -> [Keys -> StepStatuses]]
  BY DEF StoreTypeOK, recover_interrupted, StepStatuses
<1>5. attempt' \in [Runs -> [Keys -> Nat]]
  BY DEF StoreTypeOK, recover_interrupted
<1>6. QED
  BY <1>1, <1>2, <1>3, <1>4, <1>5 DEF StoreTypeOK, recover_interrupted, askVars

(* respond_interaction keeps the rows typed.  *)
LEMMA RespondType ==
  ASSUME StoreTypeOK, NEW r \in Runs, NEW q \in Requests, NEW a \in Answers(q),
         respond_interaction(r, q, a)
  PROVE  StoreTypeOK'
<1>1. interaction' \in [Runs -> [Requests -> InteractionStatuses]]
  <2>1. Resolved(a) \in InteractionStatuses
    BY DEF Resolved, InteractionStatuses
  <2>2. QED
    BY <2>1 DEF StoreTypeOK, respond_interaction
<1>2. status' \in [Runs -> Statuses]
  BY DEF StoreTypeOK, respond_interaction, AnsweredStatus, Statuses, Terminal
<1>3. lease' \in [Runs -> [CapTools -> Leases]]
  BY GrantAssumption DEF StoreTypeOK, respond_interaction, Leases
<1>4. expired' \in [Runs -> BOOLEAN]
  BY DEF StoreTypeOK, respond_interaction, resume_deadline
<1>5. QED
  BY <1>1, <1>2, <1>3, <1>4 DEF StoreTypeOK, respond_interaction, Errors, stepVars

(* Every transaction keeps the rows typed.  *)
LEMMA StoreTypeStep ==
  ASSUME StoreTypeOK, StoreStep
  PROVE  StoreTypeOK'
<1> USE DEF StoreTypeOK, runVars, stepVars, askVars, storeVars
<1>1. CASE claim_next
  BY <1>1 DEF claim_next, Statuses, Active, Terminal, Errors
<1>2. ASSUME NEW r \in Runs, NEW q \in Requests, expire_interactions(r, q)
      PROVE  StoreTypeOK'
  BY <1>2 DEF expire_interactions, InteractionStatuses, Statuses, Terminal, Errors
<1>3. ASSUME NEW l \in LeaseIds, expire_leases(l)
      PROVE  StoreTypeOK'
  BY <1>3 DEF expire_leases, Leases
<1>4. CASE suspend_queued_for_shutdown
  BY <1>4 DEF suspend_queued_for_shutdown, Errors
<1>5. ASSUME NEW r \in Runs, create_run(r) \/ request_pause(r)
      PROVE  StoreTypeOK'
  BY <1>5 DEF create_run, request_pause, Statuses, Errors
<1>6. ASSUME NEW r \in Runs, request_cancel(r)
      PROVE  StoreTypeOK'
  <2>1. CASE UNCHANGED storeVars
    BY <2>1
  <2>2. CASE ~UNCHANGED storeVars
    <3> DEFINE answers == [q \in Requests |->
          IF interaction[r][q] = "pending" THEN "cancelled" ELSE interaction[r][q]]
    <3>1. answers \in [Requests -> InteractionStatuses]
      BY <1>6 DEF InteractionStatuses
    <3>2. interaction' = [interaction EXCEPT ![r] = answers]
      BY <1>6, <2>2 DEF request_cancel
    <3>3. interaction' \in [Runs -> [Requests -> InteractionStatuses]]
      <4> HIDE DEF answers
      <4> QED BY <3>1, <3>2
    <3>4. QED
      BY <1>6, <2>2, <3>3 DEF request_cancel, Statuses, Terminal
  <2>3. QED
    BY <2>1, <2>2
<1>7. ASSUME NEW r \in Runs,
             expired' = [expired EXCEPT ![r] = TRUE],
             UNCHANGED <<status, error, current_step, stepVars, askVars>>
      PROVE  StoreTypeOK'
  BY <1>7
<1>8. QED
  BY <1>1, <1>2, <1>3, <1>4, <1>5, <1>6, <1>7,
     CommitType, RecoverType, ResumeType, RespondType DEF StoreStep

-----------------------------------------------------------------------------
(* The steps of the process keep its frames well-formed.  *)

FrameInv(tasks) == tasks \in [Tasks -> Frames] /\ \A t \in Tasks : FrameOK(tasks[t])

(* Replacing one frame by a well-formed one.  *)
LEMMA TaskUpdate ==
  ASSUME FrameInv(task), NEW t \in Tasks, NEW g \in Frames, FrameOK(g),
         task' = [task EXCEPT ![t] = g]
  PROVE  FrameInv(task')
BY DEF FrameInv

(* An idle frame is well-formed.  *)
LEMMA IdleOK == Idle \in Frames /\ FrameOK(Idle)
BY DEF Idle, Frames, FrameOK, PCs, CallPCs, StepPCs, MovePCs, AskPCs, Held, Statuses

(* A frame that goes on to a counter whose key it holds stays well-formed.  *)
LEMMA AtOK ==
  ASSUME NEW f \in Frames, FrameOK(f), f.pc # "idle", NEW pc,
         \/ pc \in {"done", "fail_read", "requeue", "stop_move"}
         \/ pc = "snapshot" /\ f.active = "none"
         \/ pc \in {"ask_grant", "consume"} /\ f.key \in CapTools
         \/ pc \in {"create", "call"} /\ f.key \in Keys
  PROVE  At(f, pc) \in Frames /\ FrameOK(At(f, pc))
<1> DEFINE g == At(f, pc)
<1>1. CASE pc = "done"
  <2>1. g = [pc |-> "done", run |-> f.run, key |-> NoKey, attempt |-> 0,
             active |-> "none", before |-> "none", budget |-> TRUE, seen |-> "absent",
             outcome |-> "completed", next |-> "idle", leases |-> {},
             handling |-> FALSE, cancelled |-> FALSE]
    BY <1>1 DEF At, Idle
  <2>2. f.run \in Runs /\ "absent" \in Statuses
    BY DEF FrameOK, Statuses
  <2>3. g \in Frames
    BY <2>1, <2>2 DEF Frames, PCs, Held
  <2>4. FrameOK(g)
    BY <2>1, <2>2 DEF FrameOK
  <2>5. QED
    BY <2>3, <2>4
<1>2. CASE pc # "done"
  <2>1. g = [f EXCEPT !.pc = pc, !.before = f.active, !.leases = {}]
    BY <1>2 DEF At
  <2>2. pc \in PCs
    BY DEF PCs, CallPCs, StepPCs, MovePCs, AskPCs
  <2>3. g \in Frames
    BY <2>1, <2>2 DEF Frames
  <2>4. /\ g.pc = pc /\ g.run = f.run /\ g.key = f.key /\ g.active = f.active
        /\ g.before = f.active /\ g.next = f.next /\ g.seen = f.seen
    BY <2>1 DEF Frames
  <2>5. f.run \in Runs /\ (f.active # "none" => f.key \in Keys)
    BY DEF FrameOK
  <2>6. FrameOK(g)
    <3> HIDE DEF g
    <3> QED BY <1>2, <2>4, <2>5 DEF FrameOK
  <2>7. QED
    BY <2>3, <2>6
<1>3. QED
  BY <1>1, <1>2

(* An exception leaves the frames well-formed.  *)
LEMMA RaiseOK ==
  ASSUME FrameInv(task), NEW t \in Tasks, task[t].pc # "idle", Raise(t)
  PROVE  FrameInv(task')
<1> DEFINE f == task[t]
           g == [At(f, "fail_read") EXCEPT !.handling = TRUE]
<1>1. f \in Frames /\ FrameOK(f)
  BY DEF FrameInv
<1>2. At(f, "done") \in Frames /\ FrameOK(At(f, "done"))
  BY <1>1, AtOK
<1>3. At(f, "fail_read") \in Frames /\ FrameOK(At(f, "fail_read"))
  BY <1>1, AtOK
<1>4. g \in Frames /\ FrameOK(g)
  BY <1>3 DEF Frames, FrameOK
<1>5. task' = [task EXCEPT ![t] = At(f, "done")] \/ task' = [task EXCEPT ![t] = g]
  BY DEF Raise
<1>6. QED
  <2> HIDE DEF g, f
  <2> QED BY <1>2, <1>4, <1>5, TaskUpdate

(* A completed or failed await leaves the frames well-formed.  *)
LEMMA AwaitOK ==
  ASSUME FrameInv(task), NEW t \in Tasks, NEW pc, NEW next, pc # "idle",
         \/ next \in {"done", "stop_move"}
         \/ next = "snapshot" /\ pc = "start"
         \/ next = "create" /\ pc = "consume",
         Await(t, pc, next)
  PROVE  FrameInv(task')
<1> DEFINE f == task[t]
<1>1. f \in Frames /\ FrameOK(f) /\ f.pc = pc
  BY DEF FrameInv, Await, Proceeds
<1>2. CapTools \subseteq Keys
  BY KeysAssumption DEF Keys
<1>3. At(f, next) \in Frames /\ FrameOK(At(f, next))
  <2>1. CASE next \in {"done", "stop_move"}
    BY <1>1, <2>1, AtOK
  <2>2. CASE next = "snapshot"
    BY <1>1, <2>2, AtOK DEF FrameOK
  <2>3. CASE next = "create"
    BY <1>1, <1>2, <2>3, AtOK DEF FrameOK
  <2>4. QED
    BY <2>1, <2>2, <2>3
<1>4. task' = [task EXCEPT ![t] = At(f, next)] \/ Raise(t)
  BY DEF Await, Goto
<1>5. QED
  <2> HIDE DEF f
  <2>1. task[t].pc # "idle"
    BY <1>1 DEF f
  <2> QED BY <1>3, <1>4, <2>1, TaskUpdate, RaiseOK

(* A jump leaves the frames well-formed.  *)
LEMMA GotoOK ==
  ASSUME FrameInv(task), NEW t \in Tasks, task[t].pc # "idle", NEW pc,
         \/ pc \in {"done", "fail_read", "requeue", "stop_move"}
         \/ pc \in {"ask_grant", "consume"} /\ task[t].key \in CapTools
         \/ pc \in {"create", "call"} /\ task[t].key \in Keys,
         Goto(t, pc)
  PROVE  FrameInv(task')
<1>1. task[t] \in Frames /\ FrameOK(task[t])
  BY DEF FrameInv
<1>2. At(task[t], pc) \in Frames /\ FrameOK(At(task[t], pc))
  BY <1>1, AtOK
<1>3. QED
  BY <1>2, TaskUpdate DEF Goto

(* The executor's decision sets a key of the kind its counter needs.  *)
LEMMA DecideOK ==
  ASSUME FrameInv(task), NEW t \in Tasks, Decide(t)
  PROVE  FrameInv(task')
<1> DEFINE f == task[t]
           G(pc, k) == [f EXCEPT !.pc = pc, !.key = k, !.budget = TRUE]
           H(pc) == [f EXCEPT !.pc = pc, !.budget = TRUE]
<1>1. /\ f \in Frames /\ FrameOK(f)
      /\ f.active = "none" /\ f.before = "none" /\ f.run \in Runs
  BY DEF FrameInv, FrameOK, Decide, Local, Proceeds
<1>2. ASSUME NEW pc, NEW k \in Keys \cup InputKeys,
             \/ pc = "ask" /\ k \in InputKeys
             \/ pc = "fail_read"
             \/ pc \in {"reject", "create"} /\ k \in Keys
             \/ pc = "policy" /\ k \in CapTools
      PROVE  G(pc, k) \in Frames /\ FrameOK(G(pc, k))
  <2>1. pc \in PCs
    BY <1>2 DEF PCs, CallPCs, StepPCs, AskPCs
  <2>2. G(pc, k) \in Frames
    BY <1>1, <2>1 DEF Frames
  <2>3. /\ G(pc, k).pc = pc /\ G(pc, k).run = f.run /\ G(pc, k).key = k
        /\ G(pc, k).active = f.active /\ G(pc, k).before = f.before
    BY <1>1 DEF Frames
  <2>4. QED
    <3> HIDE DEF G
    <3> QED BY <1>1, <1>2, <2>2, <2>3 DEF FrameOK
<1>3. ASSUME NEW pc \in {"complete", "requeue", "fail_read"}
      PROVE  H(pc) \in Frames /\ FrameOK(H(pc))
  <2>1. pc \in PCs
    BY <1>3 DEF PCs, CallPCs, MovePCs
  <2>2. H(pc) \in Frames
    BY <1>1, <2>1 DEF Frames
  <2>3. /\ H(pc).pc = pc /\ H(pc).run = f.run /\ H(pc).key = f.key
        /\ H(pc).active = f.active /\ H(pc).before = f.before
    BY <1>1 DEF Frames
  <2>4. QED
    <3> HIDE DEF H
    <3> QED BY <1>1, <1>3, <2>2, <2>3 DEF FrameOK
<1>4. \/ \E pc \in {"complete", "requeue", "fail_read"} :
           task' = [task EXCEPT ![t] = H(pc)]
      \/ \E q \in InputKeys : task' = [task EXCEPT ![t] = G("ask", q)]
      \/ \E k \in Tools :
           task' = [task EXCEPT ![t] = G(IF f.budget THEN "reject" ELSE "fail_read", k)]
      \/ \E k \in Keys :
           task' = [task EXCEPT ![t] = G(IF ~f.budget THEN "fail_read"
                             ELSE IF k \in CapTools THEN "policy" ELSE "create", k)]
  BY DEF Decide
<1> HIDE DEF f, G, H
<1>5. CASE \E pc \in {"complete", "requeue", "fail_read"} :
             task' = [task EXCEPT ![t] = H(pc)]
  BY <1>3, <1>5, TaskUpdate
<1>6. CASE \E q \in InputKeys : task' = [task EXCEPT ![t] = G("ask", q)]
  <2>1. PICK q \in InputKeys : task' = [task EXCEPT ![t] = G("ask", q)]
    BY <1>6
  <2>2. G("ask", q) \in Frames /\ FrameOK(G("ask", q))
    BY <1>2
  <2>3. QED
    BY <2>1, <2>2, TaskUpdate
<1>7. CASE \E k \in Tools :
        task' = [task EXCEPT ![t] = G(IF f.budget THEN "reject" ELSE "fail_read", k)]
  <2>1. PICK k \in Tools :
          task' = [task EXCEPT ![t] = G(IF f.budget THEN "reject" ELSE "fail_read", k)]
    BY <1>7
  <2>2. \A pc \in {"reject", "fail_read"} : G(pc, k) \in Frames /\ FrameOK(G(pc, k))
    BY <1>2 DEF Keys
  <2>3. QED
    BY <2>1, <2>2, TaskUpdate
<1>8. CASE \E k \in Keys :
        task' = [task EXCEPT ![t] = G(IF ~f.budget THEN "fail_read"
                             ELSE IF k \in CapTools THEN "policy" ELSE "create", k)]
  <2>1. PICK k \in Keys :
          task' = [task EXCEPT ![t] = G(IF ~f.budget THEN "fail_read"
                             ELSE IF k \in CapTools THEN "policy" ELSE "create", k)]
    BY <1>8
  <2>2. \A pc : pc \in {"create", "fail_read"} \/ (pc = "policy" /\ k \in CapTools) =>
                G(pc, k) \in Frames /\ FrameOK(G(pc, k))
    BY <1>2
  <2>3. QED
    BY <2>1, <2>2, TaskUpdate
<1>9. QED
  BY <1>4, <1>5, <1>6, <1>7, <1>8

(* A frame that keeps its run and key and moves on within a handler.  *)
LEMMA MovedOK ==
  ASSUME NEW f \in Frames, FrameOK(f), f.pc # "idle",
         NEW g \in Frames, g.run = f.run, g.key = f.key,
         g.pc \in PCs \ {"policy", "ask_grant", "consume", "ask", "idle", "start",
                         "snapshot", "execute"},
         g.pc \in {"create", "reject", "dispatch", "call", "settle"} => f.key \in Keys,
         g.active # "none" \/ g.before # "none" => f.key \in Keys,
         g.pc = "stop_step" => g.active # "none",
         g.pc = "settle" => g.next \in {"requeue", "fail_read"},
         g.pc = "fail_write" => g.seen \in Statuses
  PROVE  FrameOK(g)
BY DEF FrameOK

(* The snapshot fixes the budget and keeps the frames well-formed.  *)
LEMMA SnapshotOK ==
  ASSUME FrameInv(task), StoreTypeOK, NEW t \in Tasks, Snapshot(t)
  PROVE  FrameInv(task')
<1> DEFINE f == task[t]
           r == f.run
           pc == IF expired[r] THEN "fail_read" ELSE "execute"
           b == current_step[r] < MaxSteps
           g == [f EXCEPT !.pc = pc, !.budget = b]
<1>1. f \in Frames /\ FrameOK(f) /\ f.pc = "snapshot"
  BY DEF FrameInv, Snapshot, Local, Proceeds
<1>2. r \in Runs /\ f.active = "none" /\ f.before = "none"
  BY <1>1 DEF FrameOK
<1>3. g \in Frames
  <2>1. pc \in PCs
    BY DEF PCs
  <2>2. b \in BOOLEAN
    OBVIOUS
  <2>3. QED
    <3> HIDE DEF pc, b, f
    <3> QED BY <1>1, <2>1, <2>2 DEF Frames
<1>4. /\ g.pc \in {"fail_read", "execute"} /\ g.run = f.run /\ g.key = f.key
      /\ g.active = f.active /\ g.before = f.before
  BY <1>1 DEF Frames
<1>5. FrameOK(g)
  <2> HIDE DEF g
  <2> QED BY <1>2, <1>4 DEF FrameOK
<1>6. QED
  BY <1>3, <1>5, TaskUpdate DEF Snapshot

(* _fail moves on with a status of the schema.  *)
LEMMA FailReadOK ==
  ASSUME FrameInv(task), StoreTypeOK, NEW t \in Tasks, FailRead(t)
  PROVE  FrameInv(task')
<1> DEFINE f == task[t]
           s == status[f.run]
           g == [f EXCEPT !.pc = "fail_write", !.seen = s]
<1>1. f \in Frames /\ FrameOK(f) /\ f.pc = "fail_read"
  BY DEF FrameInv, FailRead, Local, Proceeds
<1>2. s \in Statuses
  BY <1>1 DEF FrameOK, StoreTypeOK
<1>3. g \in Frames
  BY <1>1, <1>2 DEF Frames, PCs, CallPCs, MovePCs
<1>4. /\ g.pc = "fail_write" /\ g.run = f.run /\ g.key = f.key /\ g.seen = s
      /\ g.active = f.active /\ g.before = f.before
  BY <1>1 DEF Frames
<1>5. FrameOK(g)
  <2> HIDE DEF g
  <2> QED BY <1>1, <1>2, <1>4 DEF FrameOK
<1>6. At(f, "done") \in Frames /\ FrameOK(At(f, "done"))
  BY <1>1, AtOK
<1>7. task' = [task EXCEPT ![t] = At(f, "done")] \/ task' = [task EXCEPT ![t] = g]
  BY DEF FailRead
<1>8. QED
  <2> HIDE DEF g, f
  <2> QED BY <1>3, <1>5, <1>6, <1>7, TaskUpdate

(* Every policy outcome keeps the capability key.  *)
LEMMA PolicyOK ==
  ASSUME FrameInv(task), NEW t \in Tasks, Policy(t)
  PROVE  FrameInv(task')
<1>1. task[t].pc = "policy" /\ task[t].key \in CapTools
  BY DEF FrameInv, FrameOK, Policy, Local, Proceeds
<1>2. task[t].key \in Keys
  BY <1>1, KeysAssumption DEF Keys
<1> DEFINE M == active_leases_for_run(task[t].run, task[t].key)
           g == [At(task[t], "consume") EXCEPT !.leases = M]
<1>3. (\E pc \in {"create", "fail_read", "ask_grant"} : Goto(t, pc))
      \/ task' = [task EXCEPT ![t] = g]
  BY DEF Policy
<1>4. g \in Frames /\ FrameOK(g)
  <2>1. task[t] \in Frames /\ FrameOK(task[t])
    BY DEF FrameInv
  <2>2. At(task[t], "consume") \in Frames /\ FrameOK(At(task[t], "consume"))
    BY <1>1, <2>1, AtOK
  <2>3. M \in SUBSET LeaseIds
    BY DEF active_leases_for_run
  <2>4. QED
    <3> HIDE DEF M
    <3> QED BY <2>2, <2>3 DEF Frames, FrameOK
<1>5. QED
  <2> HIDE DEF g
  <2> QED BY <1>1, <1>2, <1>3, <1>4, GotoOK, TaskUpdate

(* create_step leaves a tool or model key in the frame.  *)
LEMMA CreateStepOK ==
  ASSUME FrameInv(task), StoreTypeOK, NEW t \in Tasks, CreateStep(t)
  PROVE  FrameInv(task')
<1> DEFINE f == task[t]
           s == step[f.run][f.key]
           pc == IF s = "none" THEN "dispatch" ELSE Replayed(f.key, s)
           a == attempt[f.run][f.key]
           h == HeldKind(f.key)
           g == [f EXCEPT !.pc = pc, !.attempt = a, !.before = f.active, !.active = h]
<1>1. f \in Frames /\ FrameOK(f) /\ f.pc = "create"
  BY DEF FrameInv, CreateStep, Proceeds
<1>2. f.run \in Runs /\ f.key \in Keys
  BY <1>1 DEF FrameOK
<1>3. a \in Nat
  BY <1>2 DEF StoreTypeOK
<1>4. h \in Held
  BY DEF HeldKind, Held
<1>5. pc \in {"dispatch", "requeue", "interrupt", "fail_read"}
  BY DEF Replayed
<1>6. g \in Frames /\ g.run = f.run /\ g.key = f.key /\ g.pc = pc
  <2>1. pc \in PCs
    BY <1>5 DEF PCs, CallPCs, MovePCs
  <2> HIDE DEF pc, a, h, f
  <2> QED BY <1>1, <1>3, <1>4, <2>1 DEF Frames
<1>7. task' = [task EXCEPT ![t] = g]
  BY DEF CreateStep
<1>8. QED
  <2> HIDE DEF g, f, pc
  <2>1. FrameOK(g)
    BY <1>1, <1>2, <1>5, <1>6, MovedOK DEF PCs, CallPCs, MovePCs
  <2>2. QED
    BY <1>6, <1>7, <2>1, TaskUpdate

(* A rejected call goes on to settle its step.  *)
LEMMA RejectStepOK ==
  ASSUME FrameInv(task), StoreTypeOK, NEW t \in Tasks, RejectStep(t)
  PROVE  FrameInv(task')
<1> DEFINE f == task[t]
           a == attempt[f.run][f.key]
           G(next) == [f EXCEPT !.pc = "settle", !.outcome = "failed", !.next = next,
                                !.attempt = a, !.before = f.active, !.active = "pure"]
<1>1. f \in Frames /\ FrameOK(f) /\ f.pc = "reject"
  BY DEF FrameInv, RejectStep, Proceeds
<1>2. f.run \in Runs /\ f.key \in Keys
  BY <1>1 DEF FrameOK
<1>3. a \in Nat
  BY <1>2 DEF StoreTypeOK
<1>4. ASSUME NEW next \in {"requeue", "fail_read"}
      PROVE  G(next) \in Frames /\ FrameOK(G(next))
  <2>1. next \in PCs /\ "settle" \in PCs
    BY DEF PCs, CallPCs, MovePCs, StepPCs
  <2>2. /\ G(next) \in Frames /\ G(next).run = f.run /\ G(next).key = f.key
        /\ G(next).pc = "settle" /\ G(next).next = next
    <3> HIDE DEF a
    <3> QED BY <1>1, <1>3, <2>1 DEF Frames, Held
  <2>3. QED
    <3> HIDE DEF G, f
    <3> QED BY <1>1, <1>2, <2>1, <2>2, MovedOK
<1>5. \/ \E next \in {"requeue", "fail_read"} : task' = [task EXCEPT ![t] = G(next)]
      \/ Goto(t, "requeue") \/ Goto(t, "fail_read")
  BY DEF RejectStep
<1>6. QED
  <2>1. task[t].pc # "idle"
    BY <1>1
  <2> HIDE DEF G, f
  <2>2. QED
    BY <1>4, <1>5, <2>1, TaskUpdate, GotoOK

(* Invoking the tool keeps the frames well-formed.  *)
LEMMA DispatchOK ==
  ASSUME FrameInv(task), NEW t \in Tasks, Dispatch(t)
  PROVE  FrameInv(task')
<1>1. task[t].pc = "dispatch" /\ task[t].key \in Keys /\ Goto(t, "call")
  BY DEF FrameInv, FrameOK, Dispatch, Proceeds
<1>2. QED
  BY <1>1, GotoOK

(* A returned invocation knows where to go once settled.  *)
LEMMA ReturnOK ==
  ASSUME FrameInv(task), NEW t \in Tasks, Return(t)
  PROVE  FrameInv(task')
<1> DEFINE f == task[t]
           G(o, next) == [f EXCEPT !.pc = "settle", !.outcome = o, !.next = next,
                                   !.before = f.active]
<1>1. f \in Frames /\ FrameOK(f) /\ f.pc = "call"
  BY DEF FrameInv, Return, Local, Proceeds
<1>2. f.run \in Runs /\ f.key \in Keys
  BY <1>1 DEF FrameOK
<1>3. ASSUME NEW o \in {"completed", "failed"}, NEW next \in {"requeue", "fail_read"}
      PROVE  G(o, next) \in Frames /\ FrameOK(G(o, next))
  <2>1. next \in PCs /\ "settle" \in PCs
    BY DEF PCs, CallPCs, MovePCs, StepPCs
  <2>2. /\ G(o, next) \in Frames /\ G(o, next).run = f.run /\ G(o, next).key = f.key
        /\ G(o, next).pc = "settle" /\ G(o, next).next = next
    BY <1>1, <2>1 DEF Frames
  <2>3. QED
    <3> HIDE DEF G, f
    <3> QED BY <1>1, <1>2, <2>1, <2>2, MovedOK
<1>4. \/ \E o \in {"completed", "failed"}, next \in {"requeue", "fail_read"} :
           task' = [task EXCEPT ![t] = G(o, next)]
      \/ Raise(t)
  BY DEF Return
<1>5. QED
  <2>1. task[t].pc # "idle"
    BY <1>1
  <2> HIDE DEF G, f
  <2>2. QED
    BY <1>3, <1>4, <2>1, TaskUpdate, RaiseOK

(* Settling the step keeps the frames well-formed.  *)
LEMMA SettleOK ==
  ASSUME FrameInv(task), NEW t \in Tasks, Settle(t)
  PROVE  FrameInv(task')
<1> DEFINE f == task[t]
           e == At(f, f.next)
           a == IF f.active = "model" /\ f.outcome = "failed" THEN "model" ELSE "none"
           g == [e EXCEPT !.outcome = "completed", !.next = "idle", !.active = a]
<1>1. f \in Frames /\ FrameOK(f) /\ f.pc = "settle"
  BY DEF FrameInv, Settle, Proceeds
<1>2. f.run \in Runs /\ f.key \in Keys /\ f.next \in {"requeue", "fail_read"}
  BY <1>1 DEF FrameOK
<1>3. e \in Frames /\ FrameOK(e)
  BY <1>1, <1>2, AtOK
<1>4. e.pc = f.next /\ e.run = f.run /\ e.key = f.key
  BY <1>1, <1>2 DEF At, Frames
<1>5. g \in Frames /\ g.run = f.run /\ g.key = f.key /\ g.pc = f.next
  <2>1. a \in Held /\ "idle" \in PCs
    BY DEF Held, PCs
  <2> HIDE DEF e, f, a
  <2> QED BY <1>3, <1>4, <2>1 DEF Frames
<1>6. task' = [task EXCEPT ![t] = g]
  BY DEF Settle
<1>7. QED
  <2> HIDE DEF g, f
  <2>1. FrameOK(g)
    BY <1>1, <1>2, <1>5, MovedOK DEF PCs, CallPCs, MovePCs
  <2>2. QED
    BY <1>5, <1>6, <2>1, TaskUpdate


(* Setting the flag that task.cancel() sets.  *)
LEMMA FlaggedOK ==
  ASSUME NEW f \in Frames, FrameOK(f)
  PROVE  [f EXCEPT !.cancelled = TRUE] \in Frames /\ FrameOK([f EXCEPT !.cancelled = TRUE])
BY DEF Frames, FrameOK

(* The CancelledError handler holds a step only together with its key.  *)
LEMMA CancelTaskOK ==
  ASSUME FrameInv(task), NEW t \in Tasks, CancelTask(t)
  PROVE  FrameInv(task')
<1> DEFINE f == task[t]
           G(a) == [f EXCEPT !.pc = "stop_read", !.handling = TRUE, !.leases = {},
                             !.cancelled = FALSE, !.active = a]
           H == [f EXCEPT !.pc = "stop_read", !.handling = TRUE, !.leases = {},
                          !.cancelled = FALSE]
<1>1. f \in Frames /\ FrameOK(f) /\ f.pc # "idle"
  BY DEF FrameInv, CancelTask
<1>2. "stop_read" \in PCs
  BY DEF PCs
<1>3. /\ H \in Frames /\ H.run = f.run /\ H.key = f.key /\ H.pc = "stop_read"
      /\ H.active = f.active /\ H.before = f.before
  BY <1>1, <1>2 DEF Frames
<1>4. /\ G(f.before) \in Frames /\ G(f.before).run = f.run /\ G(f.before).key = f.key
      /\ G(f.before).pc = "stop_read"
      /\ G(f.before).active = f.before /\ G(f.before).before = f.before
  BY <1>1, <1>2 DEF Frames
<1>5. f.active # "none" \/ f.before # "none" => f.key \in Keys
  BY <1>1 DEF FrameOK
<1>6. Goto(t, "done") \/ task' = [task EXCEPT ![t] = H]
      \/ task' = [task EXCEPT ![t] = G(f.before)]
  BY DEF CancelTask
<1>7. QED
  <2>1. task[t].pc # "idle"
    BY <1>1
  <2> HIDE DEF G, H, f
  <2>2. FrameOK(H)
    BY <1>1, <1>2, <1>3, <1>5, MovedOK
  <2>3. FrameOK(G(f.before))
    BY <1>1, <1>2, <1>4, <1>5, MovedOK
  <2>4. QED
    BY <1>3, <1>4, <1>6, <2>1, <2>2, <2>3, TaskUpdate, GotoOK

(* The handler settles a step only if it holds one.  *)
LEMMA StopReadOK ==
  ASSUME FrameInv(task), StoreTypeOK, NEW t \in Tasks, StopRead(t)
  PROVE  FrameInv(task')
<1> DEFINE f == task[t]
           r == f.run
           s == IF status[r] = "interrupted" /\ error[r] = "user_paused"
                THEN "paused" ELSE status[r]
           g == [f EXCEPT !.pc = "stop_step", !.seen = s]
<1>1. f \in Frames /\ FrameOK(f) /\ f.pc = "stop_read"
  BY DEF FrameInv, StopRead, Local, Proceeds
<1>2. r \in Runs /\ s \in Statuses \cup {"paused"}
  BY <1>1 DEF FrameOK, StoreTypeOK
<1>3. "stop_step" \in PCs
  BY DEF PCs, CallPCs
<1>4. /\ g \in Frames /\ g.run = f.run /\ g.key = f.key /\ g.pc = "stop_step"
      /\ g.active = f.active /\ g.before = f.before
  <2> HIDE DEF s
  <2> QED BY <1>1, <1>2, <1>3 DEF Frames
<1>5. f.active # "none" \/ f.before # "none" => f.key \in Keys
  BY <1>1 DEF FrameOK
<1>6. Goto(t, StopNext(s)) \/ (f.active # "none" /\ task' = [task EXCEPT ![t] = g])
  BY DEF StopRead
<1>7. StopNext(s) \in {"done", "stop_move"}
  BY DEF StopNext
<1>8. QED
  <2>1. task[t].pc # "idle"
    BY <1>1
  <2> HIDE DEF g, f, s
  <2>2. f.active # "none" => FrameOK(g)
    BY <1>1, <1>3, <1>4, <1>5, MovedOK
  <2>3. QED
    BY <1>4, <1>6, <1>7, <2>1, <2>2, TaskUpdate, GotoOK

(* A new task works on the run that was claimed.  *)
LEMMA SpawnOK ==
  ASSUME FrameInv(task), TypeInv, NEW t \in Tasks, Spawn(t)
  PROVE  FrameInv(task') /\ claimed \in Runs
<1> DEFINE g == [Idle EXCEPT !.pc = "start", !.run = claimed]
<1>1. claimed \in Runs
  BY DEF TypeInv, TypeOK, Spawn
<1>2. "start" \in PCs
  BY DEF PCs, CallPCs, MovePCs
<1>3. g \in Frames /\ FrameOK(g)
  <2>1. /\ Idle.pc = "idle" /\ Idle.active = "none" /\ Idle.before = "none"
    BY DEF Idle
  <2>2. /\ g \in Frames /\ g.pc = "start" /\ g.run = claimed
        /\ g.active = "none" /\ g.before = "none"
    BY <1>1, <1>2, <2>1, IdleOK DEF Frames
  <2>3. QED
    <3> HIDE DEF g
    <3> QED BY <1>1, <2>2 DEF FrameOK
<1>4. task' = [task EXCEPT ![t] = g]
  BY DEF Spawn
<1>5. QED
  <2> HIDE DEF g
  <2> QED BY <1>1, <1>3, <1>4, TaskUpdate

(* kick, stop and loss touch many frames at once.  *)
LEMMA MassOK ==
  ASSUME FrameInv(task),
         \/ \E r \in Runs : Kick(r)
         \/ StopCancel \/ CloseLoop
         \/ ProcessLoss
  PROVE  FrameInv(task')
<1>1. \A t \in Tasks : task[t] \in Frames /\ FrameOK(task[t])
  BY DEF FrameInv
<1>2. \A t \in Tasks : /\ [task[t] EXCEPT !.cancelled = TRUE] \in Frames
                       /\ FrameOK([task[t] EXCEPT !.cancelled = TRUE])
  BY <1>1, FlaggedOK
<1>3. CASE ProcessLoss
  BY <1>3, IdleOK DEF ProcessLoss, FrameInv
<1>4. CASE StopCancel \/ CloseLoop
  <2> DEFINE F(t) == [task[t] EXCEPT !.cancelled = TRUE]
  <2>1. PICK S : task' = [t \in Tasks |-> IF t \in S THEN F(t) ELSE task[t]]
    <3>1. CASE StopCancel
      <4> DEFINE S == {t \in Tasks : /\ \E r \in Runs : entry[r] = t
                                     /\ task[t].pc \notin {"idle", "done"}}
      <4>1. task' = [t \in Tasks |-> IF t \in S THEN F(t) ELSE task[t]]
        BY <3>1 DEF StopCancel
      <4>2. QED
        BY <4>1
    <3>2. CASE CloseLoop
      <4> DEFINE S == {t \in Tasks : task[t].pc \notin {"idle", "done"}}
      <4>1. task' = [t \in Tasks |-> IF t \in S THEN F(t) ELSE task[t]]
        BY <3>2 DEF CloseLoop
      <4>2. QED
        BY <4>1
    <3>3. QED
      BY <1>4, <3>1, <3>2
  <2>2. \A t \in Tasks : F(t) \in Frames /\ FrameOK(F(t))
    BY <1>2
  <2>3. QED
    <3> HIDE DEF F
    <3> QED BY <1>1, <2>1, <2>2 DEF FrameInv
<1>5. CASE \E r \in Runs : Kick(r)
  <2> DEFINE F(t) == [task[t] EXCEPT !.cancelled = TRUE]
  <2>1. PICK r \in Runs : Kick(r)
    BY <1>5
  <2>2. task' = [t \in Tasks |-> IF t = entry[r] /\ task[t].pc \notin {"idle", "done"}
                                 THEN F(t) ELSE task[t]]
    BY <2>1 DEF Kick
  <2>3. \A t \in Tasks : F(t) \in Frames /\ FrameOK(F(t))
    BY <1>2
  <2>4. QED
    <3> HIDE DEF F
    <3> QED BY <1>1, <2>2, <2>3 DEF FrameInv
<1>6. QED
  BY <1>3, <1>4, <1>5

(* Every step keeps every frame well-formed.  *)
LEMMA FramesStep ==
  ASSUME TypeInv, [Next]_vars
  PROVE  FrameInv(task')
<1>0. FrameInv(task) /\ StoreTypeOK
  BY DEF TypeInv, TypeOK, FrameInv
<1>1. ASSUME NEW t \in Tasks, Body(t)
      PROVE  FrameInv(task')
  <2>1. CASE Start(t) \/ Complete(t) \/ Requeue(t) \/ Interrupt(t) \/ FailWrite(t)
             \/ Ask(t) \/ AskGrant(t) \/ Consume(t)
    BY <1>0, <2>1, AwaitOK DEF Start, Complete, Requeue, Interrupt, FailWrite, Ask,
       AskGrant, Consume
  <2>2. CASE DeadlineTimeout(t)
    <3>1. task[t].pc # "idle" /\ Raise(t)
      BY <2>2 DEF DeadlineTimeout, Local, Proceeds
    <3>2. QED
      BY <1>0, <3>1, RaiseOK
  <2>3. QED
    BY <1>0, <1>1, <2>1, <2>2, SnapshotOK, DecideOK, FailReadOK, PolicyOK, CreateStepOK,
       RejectStepOK, DispatchOK, ReturnOK, SettleOK DEF Body
<1>2. ASSUME NEW t \in Tasks, Cleanup(t)
      PROVE  FrameInv(task')
  <2>1. CASE StopStep(t) \/ StopMove(t)
    BY <1>0, <2>1, AwaitOK DEF StopStep, StopMove, StopNext
  <2>2. CASE TaskDone(t)
    BY <1>0, <2>2, IdleOK, TaskUpdate DEF TaskDone
  <2>3. QED
    BY <1>0, <1>2, <2>1, <2>2, CancelTaskOK, StopReadOK DEF Cleanup
<1>3. CASE Dispatcher
  BY <1>0, <1>3, SpawnOK DEF Dispatcher, Claim
<1>4. CASE DetachedCommit \/ Clock
  BY <1>0, <1>4 DEF DetachedCommit, Clock, ExpireInteraction, ExpireLease, DeadlinePasses
<1>5. CASE Api
  BY <1>0, <1>5, MassOK DEF Api, CreateRun, PauseRequest, CancelRequest, Resume, Respond
<1>6. CASE Process
  BY <1>0, <1>6, MassOK
     DEF Process, LateClaim, StopBegin, StopSuspend, StopFinish, Restart
<1>7. CASE UNCHANGED vars
  BY <1>0, <1>7 DEF vars
<1>8. QED
  BY <1>1, <1>2, <1>3, <1>4, <1>5, <1>6, <1>7 DEF Next

-----------------------------------------------------------------------------
(* The rest of the process state, and type correctness.  *)

(* The claim query's ORDER BY ... LIMIT 1 picks one of the candidates.  *)
LEMMA FirstMember ==
  ASSUME NEW S \in SUBSET Runs, S # {}
  PROVE  First(S) \in S /\ \A s \in S : Rank[First(S)] <= Rank[s]
<1> DEFINE ranks == {Rank[s] : s \in S}
<1>1. ranks \subseteq Nat /\ ranks # {}
  BY RankAssumption
<1>2. PICK m \in ranks : \A n \in ranks : ~(<<n, m>> \in OpToRel(<, Nat))
  <2> HIDE DEF ranks
  <2> QED BY <1>1, NatLessThanWellFounded, WFMin
<1>3. \A n \in ranks : m <= n
  <2> HIDE DEF ranks
  <2>0. m \in Nat /\ \A n \in ranks : n \in Nat
    BY <1>1
  <2> SUFFICES ASSUME NEW n \in ranks, n < m PROVE FALSE
    BY <2>0
  <2>1. <<n, m>> \in Nat \X Nat /\ <<n, m>>[1] < <<n, m>>[2]
    BY <2>0
  <2>2. <<n, m>> \in OpToRel(<, Nat)
    BY <2>1 DEF OpToRel
  <2>3. QED
    BY <1>2, <2>2
<1>4. \E r \in S : \A s \in S : Rank[r] <= Rank[s]
  BY <1>3
<1>5. QED
  BY <1>4 DEF First

(* The claimed run is a candidate.  *)
LEMMA FirstCandidate ==
  ASSUME Candidates # {}
  PROVE  First(Candidates) \in Candidates /\ First(Candidates) \in Runs
<1>1. Candidates \in SUBSET Runs
  BY DEF Candidates
<1>2. QED
  BY <1>1, FirstMember

(* The process state other than frames and detached calls.  *)
ProcTypeOK ==
  /\ mode \in Modes
  /\ claimed \in Runs \cup {NoRun, InFlight}
  /\ mode \in {"up", "stopped", "lost"} => claimed # InFlight
  /\ entry \in [Runs -> Tasks \cup {NoTask}]
  /\ kicks \in [Runs -> Nat]
  /\ controls \in Nat /\ stops \in Nat

(* Every step keeps the process state typed.  *)
LEMMA ProcTypeStep ==
  ASSUME TypeInv, [Next]_vars
  PROVE  ProcTypeOK'
<1>0. ProcTypeOK /\ \A t \in Tasks : task[t].pc # "idle" => task[t].run \in Runs
  BY DEF TypeInv, TypeOK, ProcTypeOK, FrameOK
<1> USE RuntimeAssumption DEF ProcTypeOK, Modes
<1>1. CASE UNCHANGED procVars
  BY <1>0, <1>1 DEF procVars
<1>2. ASSUME NEW t \in Tasks, Body(t)
      PROVE  UNCHANGED procVars
  BY <1>2 DEF Body, Start, Complete, Requeue, Interrupt, FailWrite, Ask, AskGrant, Consume,
     Snapshot, Decide, DeadlineTimeout, FailRead, Policy, CreateStep, RejectStep,
     Dispatch, Return, Settle, Await, Local
<1>3. ASSUME NEW t \in Tasks, Cleanup(t)
      PROVE  ProcTypeOK'
  <2>1. CASE TaskDone(t)
    BY <1>0, <2>1 DEF TaskDone
  <2>2. CASE ~TaskDone(t)
    BY <1>1, <1>3, <2>2 DEF Cleanup, CancelTask, StopRead, StopStep, StopMove, Await, Local
  <2>3. QED
    BY <2>1, <2>2
<1>4. CASE DetachedCommit \/ Clock
  BY <1>1, <1>4 DEF DetachedCommit, Clock, ExpireInteraction, ExpireLease, DeadlinePasses
<1>5. CASE Dispatcher
  <2>1. CASE Claim
    BY <1>0, <2>1, FirstCandidate DEF Claim
  <2>2. CASE \E t \in Tasks : Spawn(t)
    BY <1>0, <2>2 DEF Spawn
  <2>3. QED
    BY <1>5, <2>1, <2>2 DEF Dispatcher
<1>6. CASE Api
  <2>1. ASSUME NEW r \in Runs, CreateRun(r) \/ Respond(r)
        PROVE  ProcTypeOK'
    BY <1>1, <2>1 DEF CreateRun, Respond
  <2>2. ASSUME NEW r \in Runs, PauseRequest(r) \/ CancelRequest(r) \/ Resume(r)
        PROVE  ProcTypeOK'
    BY <1>0, <2>2 DEF PauseRequest, CancelRequest, Resume, Control
  <2>3. ASSUME NEW r \in Runs, Kick(r)
        PROVE  ProcTypeOK'
    BY <1>0, <2>3 DEF Kick
  <2>4. QED
    BY <1>6, <2>1, <2>2, <2>3 DEF Api
<1>7. CASE Process
  BY <1>0, <1>7 DEF Process, LateClaim, StopBegin, StopSuspend, StopCancel, CloseLoop, StopFinish,
     ProcessLoss, Restart
<1>8. QED
  BY <1>1, <1>2, <1>3, <1>4, <1>5, <1>6, <1>7 DEF Next, vars

(* Calls left to their threads are well-formed.  *)
LEMMA DetachedStep ==
  ASSUME TypeInv, [Next]_vars
  PROVE  detached' \in SUBSET Calls /\ \A c \in detached' : WellFormed(c)
<1>0. /\ detached \in SUBSET Calls /\ \A c \in detached : WellFormed(c)
      /\ \A t \in Tasks : task[t] \in Frames /\ FrameOK(task[t])
  BY DEF TypeInv, TypeOK
<1>1. CASE UNCHANGED detached
  BY <1>0, <1>1
<1>2. ASSUME NEW t \in Tasks, Body(t)
      PROVE  UNCHANGED detached
  BY <1>2 DEF Body, Start, Complete, Requeue, Interrupt, FailWrite, Ask, AskGrant, Consume,
     Snapshot, Decide, DeadlineTimeout, FailRead, Policy, CreateStep, RejectStep,
     Dispatch, Return, Settle, Await, Local
<1>3. ASSUME NEW t \in Tasks, Cleanup(t)
      PROVE  detached' \in SUBSET Calls /\ \A c \in detached' : WellFormed(c)
  <2>1. CASE CancelTask(t)
    <3>1. task[t].pc \in CallPCs =>
            CallOf(task[t]) \in Calls /\ WellFormed(CallOf(task[t]))
      BY <1>0, CallOfType
    <3>2. UNCHANGED detached
          \/ (task[t].pc \in CallPCs /\ detached' = detached \cup {CallOf(task[t])})
      BY <2>1 DEF CancelTask, Leave
    <3>3. QED
      BY <1>0, <3>1, <3>2
  <2>2. CASE ~CancelTask(t)
    BY <1>1, <1>3, <2>2 DEF Cleanup, StopRead, StopStep, StopMove, TaskDone, Await, Local
  <2>3. QED
    BY <2>1, <2>2
<1>4. CASE DetachedCommit
  BY <1>0, <1>4 DEF DetachedCommit
<1>5. CASE Dispatcher \/ Clock
  BY <1>1, <1>5 DEF Dispatcher, Claim, Spawn, Clock, ExpireInteraction, ExpireLease,
     DeadlinePasses
<1>6. CASE Api
  BY <1>1, <1>6 DEF Api, CreateRun, PauseRequest, CancelRequest, Kick, Resume, Respond
<1>7. CASE Process
  BY <1>0, <1>7 DEF Process, LateClaim, StopBegin, StopSuspend, StopCancel, CloseLoop, StopFinish,
     ProcessLoss, Restart
<1>8. QED
  BY <1>1, <1>2, <1>3, <1>4, <1>5, <1>6, <1>7 DEF Next, vars

(* Invocations are counted for tool and model keys only.  *)
LEMMA DispatchedStep ==
  ASSUME TypeInv, [Next]_vars
  PROVE  dispatched' \in [Runs -> [Keys -> Nat]]
<1>0. dispatched \in [Runs -> [Keys -> Nat]]
  BY DEF TypeInv, TypeOK
<1>1. ASSUME NEW t \in Tasks, Dispatch(t)
      PROVE  dispatched' \in [Runs -> [Keys -> Nat]]
  <2> DEFINE r == task[t].run
             k == task[t].key
  <2>1. r \in Runs /\ k \in Keys
    BY <1>1 DEF TypeInv, FrameOK, Dispatch, Proceeds
  <2>2. dispatched' = [dispatched EXCEPT ![r][k] = dispatched[r][k] + 1]
    BY <1>1 DEF Dispatch
  <2>3. dispatched[r][k] + 1 \in Nat
    BY <1>0, <2>1
  <2> HIDE DEF r, k
  <2>4. QED
    BY <1>0, <2>1, <2>2, <2>3, NestedUpdate
<1>2. CASE \A t \in Tasks : ~Dispatch(t)
  <2>1. UNCHANGED dispatched
    BY <1>2 DEF Next, vars, Body, Start, Complete, Requeue, Interrupt, FailWrite, Ask,
       AskGrant, Consume, Snapshot, Decide, DeadlineTimeout, FailRead, Policy, CreateStep,
       RejectStep, Return, Settle, Await, Local, Cleanup, CancelTask, StopRead, StopStep,
       StopMove, TaskDone, DetachedCommit, Dispatcher, Claim, Spawn, Clock,
       ExpireInteraction, ExpireLease, DeadlinePasses, Api, CreateRun, PauseRequest,
       CancelRequest, Kick, Resume, Respond, Process, LateClaim, StopBegin, StopSuspend,
       StopCancel, CloseLoop, StopFinish, ProcessLoss, Restart
  <2>2. QED
    BY <1>0, <2>1
<1>3. QED
  BY <1>1, <1>2

(* The strengthened invariant holds initially.  *)
LEMMA InitType == Init => TypeInv
<1> SUFFICES ASSUME Init PROVE TypeInv
  OBVIOUS
<1>1. StoreTypeOK
  BY DEF Init, StoreInit, StoreTypeOK, Statuses, Errors, StepStatuses,
     InteractionStatuses, Leases
<1>2. FrameInv(task)
  BY IdleOK DEF Init, FrameInv
<1>3. QED
  BY <1>1, <1>2, RuntimeAssumption DEF Init, TypeInv, TypeOK, FrameInv, Modes

(* Every step preserves the strengthened invariant.  *)
LEMMA TypeStep ==
  ASSUME TypeInv, [Next]_vars
  PROVE  TypeInv'
<1>1. StoreTypeOK'
  <2>1. StoreTypeOK
    BY DEF TypeInv, TypeOK
  <2>2. CASE UNCHANGED storeVars
    BY <2>1, <2>2 DEF storeVars, runVars, stepVars, askVars, StoreTypeOK
  <2>3. QED
    BY <2>1, <2>2, NextIsStoreStep, StoreTypeStep
<1>2. QED
  BY <1>1, FramesStep, ProcTypeStep, DetachedStep, DispatchedStep
     DEF TypeInv, TypeOK, FrameInv, ProcTypeOK

(* The strengthened invariant, on which the other theorems rest.  *)
LEMMA TypeInvariant == Spec => []TypeInv
<1>1. Init => TypeInv
  BY InitType
<1>2. TypeInv /\ [Next]_vars => TypeInv'
  BY TypeStep
<1>3. QED
  BY <1>1, <1>2, PTL DEF Spec

(* Every variable keeps its type through every interleaving of tasks,      *)
(* detached transactions, control requests, stops and losses, for any      *)
(* constants: no task or thread ever writes a status the schema rejects,   *)
(* or names a row that is not there.                                       *)
THEOREM TypeCorrect == Spec => []TypeOK
<1>1. TypeInv => TypeOK
  BY DEF TypeInv
<1>2. QED
  BY <1>1, TypeInvariant, PTL

-----------------------------------------------------------------------------
(* What a transaction may do to the status of a run.  *)

(* Most transactions write a status without consulting the trigger's table *)
(* of transitions; they never need it to stop them.                        *)
LEMMA StoreStepAllowed ==
  ASSUME StoreTypeOK, StoreStep, NEW r \in Runs
  PROVE  Allowed(status[r], status'[r])
<1> USE DEF StoreTypeOK, Allowed, Active, Waiting, Terminal, storeVars, runVars
<1>1. CASE status'[r] = status[r]
  BY <1>1
<1>2. ASSUME NEW c \in Calls, WellFormed(c), Accepts(c), Commit(c)
      PROVE  Allowed(status[r], status'[r])
  <2>1. CASE c.op = "transition" /\ transition(c)
    <3>1. Allowed(status[c.run], c.to)
      BY <1>2, <2>1 DEF Accepts
    <3>2. status' = [status EXCEPT ![c.run] = c.to] /\ c.run \in Runs
      BY <2>1 DEF transition, Calls
    <3>3. QED
      BY <1>1, <3>1, <3>2
  <2>2. CASE c.op = "create_interaction" /\ create_interaction(c)
    BY <2>2 DEF create_interaction, WaitStatus, Calls
  <2>3. CASE c.op \notin {"transition", "create_interaction"}
    BY <1>1, <1>2, <2>3 DEF Commit, create_step, settle_step, abandon_step_for_retry,
       consume_single_use_leases
  <2>4. QED
    BY <1>2, <2>1, <2>2, <2>3 DEF Commit
<1>3. CASE claim_next
  BY <1>3, FirstCandidate DEF claim_next, Overdue, Candidates
<1>4. ASSUME NEW s \in Runs, NEW q \in Requests, expire_interactions(s, q)
      PROVE  Allowed(status[r], status'[r])
  BY <1>4 DEF expire_interactions
<1>5. ASSUME NEW l \in LeaseIds, expire_leases(l)
      PROVE  Allowed(status[r], status'[r])
  BY <1>1, <1>5 DEF expire_leases
<1>6. CASE suspend_queued_for_shutdown
  BY <1>1, <1>6 DEF suspend_queued_for_shutdown
<1>7. CASE recover_interrupted
  BY <1>7 DEF recover_interrupted, Recovered
<1>8. ASSUME NEW s \in Runs, create_run(s) \/ request_pause(s)
      PROVE  Allowed(status[r], status'[r])
  BY <1>8 DEF create_run, request_pause, Pausable
<1>9. ASSUME NEW s \in Runs, request_cancel(s)
      PROVE  Allowed(status[r], status'[r])
  BY <1>9 DEF request_cancel, Statuses
<1>10. ASSUME NEW s \in Runs, NEW resolution \in Resolutions,
              resume_interrupted(s, resolution)
      PROVE  Allowed(status[r], status'[r])
  BY <1>10 DEF resume_interrupted
<1>11. ASSUME NEW s \in Runs, NEW q \in Requests, NEW a \in Answers(q),
              respond_interaction(s, q, a)
      PROVE  Allowed(status[r], status'[r])
  <2>1. Allowed(status[s], AnsweredStatus(a))
    BY <1>11 DEF respond_interaction
  <2>2. status' = [status EXCEPT ![s] = AnsweredStatus(a)]
    BY <1>11 DEF respond_interaction
  <2>3. QED
    BY <1>1, <2>1, <2>2
<1>12. QED
  BY <1>1, <1>2, <1>3, <1>4, <1>5, <1>6, <1>7, <1>8, <1>9, <1>10, <1>11 DEF StoreStep

(* Only the claim makes a run active, and only a candidate.  *)
LEMMA OnlyClaimActivates ==
  ASSUME StoreTypeOK, StoreStep, NEW r \in Runs,
         status[r] \notin Active, status'[r] \in Active
  PROVE  claim_next /\ Candidates # {} /\ r = First(Candidates) /\ r \in Candidates
<1> USE DEF StoreTypeOK, Active, Waiting, Terminal, storeVars, runVars
<1>1. CASE claim_next
  BY <1>1, FirstCandidate DEF claim_next
<1>2. ASSUME NEW c \in Calls, WellFormed(c), Accepts(c), Commit(c)
      PROVE  FALSE
  <2>1. CASE c.op = "transition" /\ transition(c)
    <3>1. status' = [status EXCEPT ![c.run] = c.to] /\ c.run \in Runs
      BY <2>1 DEF transition, Calls
    <3>2. r = c.run /\ c.to = "running"
      BY <1>2, <2>1, <3>1 DEF WellFormed
    <3>3. Allowed(status[r], "running")
      BY <1>2, <2>1, <3>2 DEF Accepts
    <3>4. QED
      BY <3>3 DEF Allowed
  <2>2. CASE c.op = "create_interaction" /\ create_interaction(c)
    BY <2>2 DEF create_interaction, WaitStatus, Calls
  <2>3. CASE c.op \notin {"transition", "create_interaction"}
    BY <1>2, <2>3 DEF Commit, create_step, settle_step, abandon_step_for_retry,
       consume_single_use_leases
  <2>4. QED
    BY <1>2, <2>1, <2>2, <2>3 DEF Commit
<1>3. ~ \E s \in Runs, q \in Requests : expire_interactions(s, q)
  BY DEF expire_interactions
<1>4. ~ \E l \in LeaseIds : expire_leases(l)
  BY DEF expire_leases
<1>5. ~suspend_queued_for_shutdown
  BY DEF suspend_queued_for_shutdown
<1>6. ~recover_interrupted
  BY DEF recover_interrupted, Recovered
<1>7. ASSUME NEW s \in Runs
      PROVE  ~(create_run(s) \/ request_pause(s) \/ request_cancel(s))
  BY <1>7 DEF create_run, request_pause, request_cancel
<1>8. ASSUME NEW s \in Runs, NEW resolution \in Resolutions
      PROVE  ~resume_interrupted(s, resolution)
  BY <1>8 DEF resume_interrupted
<1>9. ASSUME NEW s \in Runs, NEW q \in Requests, NEW a \in Answers(q)
      PROVE  ~respond_interaction(s, q, a)
  BY <1>9 DEF respond_interaction, AnsweredStatus
<1>10. QED
  BY <1>1, <1>2, <1>3, <1>4, <1>5, <1>6, <1>7, <1>8, <1>9 DEF StoreStep

(* Every transaction keeps the group within its limit.  *)
LEMMA SlotStep ==
  ASSUME StoreTypeOK, SlotBound, StoreStep
  PROVE  SlotBound'
<1> DEFINE A == ActiveRuns(Group)
           B == {r \in Group : status'[r] \in Active}
<1>1. IsFiniteSet(A) /\ Cardinality(A) \in Nat
  <2>1. IsFiniteSet(Group)
    BY RunsAssumption, FS_Subset
  <2>2. A \in SUBSET Group
    BY DEF ActiveRuns
  <2>3. QED
    <3> HIDE DEF A
    <3> QED BY <2>1, <2>2, FS_Subset, FS_CardinalityType
<1>2. CASE B \subseteq A
  <2>1. Cardinality(B) <= Cardinality(A) /\ Cardinality(B) \in Nat
    <3> HIDE DEF A, B
    <3> QED BY <1>1, <1>2, FS_Subset, FS_CardinalityType
  <2>2. QED
    BY <1>1, <2>1, LimitAssumption DEF SlotBound, ActiveRuns
<1>3. CASE ~(B \subseteq A)
  <2> DEFINE x == First(Candidates)
  <2>1. \A r \in B \ A : r = x /\ r \in Candidates
    BY RunsAssumption, OnlyClaimActivates DEF ActiveRuns
  <2>2. x \in Candidates /\ x \in Group
    BY <1>3, <2>1
  <2>3. Cardinality(A) < GroupLimit
    BY <2>2 DEF Candidates
  <2>4. B \in SUBSET (A \cup {x})
    BY <2>1
  <2>5. IsFiniteSet(A \cup {x}) /\ Cardinality(A \cup {x}) <= Cardinality(A) + 1
    <3> HIDE DEF A, x
    <3> QED BY <1>1, FS_AddElement
  <2>6. Cardinality(B) <= Cardinality(A \cup {x}) /\ Cardinality(B) \in Nat
        /\ Cardinality(A \cup {x}) \in Nat
    <3> HIDE DEF A, B, x
    <3> QED BY <2>4, <2>5, FS_Subset, FS_CardinalityType
  <2>7. Cardinality(B) <= GroupLimit
    <3> HIDE DEF A, B, x
    <3> QED BY <1>1, <2>3, <2>5, <2>6, LimitAssumption
  <2>8. QED
    BY <2>7 DEF SlotBound, ActiveRuns
<1>4. QED
  BY <1>2, <1>3

(* The concurrency limit of a group holds for any number of runs, tasks    *)
(* and restarts, because claim_next is the only way to become active and   *)
(* counts planning and running runs in its own transaction.                *)
THEOREM SlotsBounded == Spec => []SlotBound
<1>1. Init => SlotBound
  <2> SUFFICES ASSUME Init PROVE SlotBound
    OBVIOUS
  <2>1. ActiveRuns(Group) = {}
    BY RunsAssumption DEF Init, StoreInit, ActiveRuns, Active
  <2>2. QED
    BY <2>1, FS_EmptySet, LimitAssumption DEF SlotBound
<1>2. TypeInv /\ SlotBound /\ [Next]_vars => SlotBound'
  <2> SUFFICES ASSUME TypeInv, SlotBound, [Next]_vars PROVE SlotBound'
    OBVIOUS
  <2>1. CASE UNCHANGED storeVars
    BY <2>1 DEF storeVars, runVars, SlotBound, ActiveRuns
  <2>2. QED
    BY <2>1, NextIsStoreStep, SlotStep DEF TypeInv, TypeOK
<1>3. QED
  BY <1>1, <1>2, TypeInvariant, PTL DEF Spec

-----------------------------------------------------------------------------
(* The runtime implements AgentLifecycle.  *)

(* Every transition the trigger allows is a move of the abstract phases.  *)
LEMMA AllowedIsMove ==
  ASSUME NEW old \in Statuses, NEW new \in Statuses, Allowed(old, new)
  PROVE  PhaseOf(new) = PhaseOf(old) \/ <<PhaseOf(old), PhaseOf(new)>> \in Lifecycle!Moves
BY DEF Allowed, Statuses, Active, Waiting, Terminal, PhaseOf, Lifecycle!Moves,
   Lifecycle!Outcomes

(* The abstract phase active is planning or running.  *)
LEMMA PhaseActive ==
  ASSUME NEW s \in Statuses
  PROVE  PhaseOf(s) = "active" <=> s \in Active
BY DEF Statuses, Active, Waiting, Terminal, PhaseOf

(* The instance's copy of Cardinality is Cardinality.  *)
LEMMA SameCardinality == \A S : Lifecycle!Cardinality(S) = Cardinality(S)
BY DEF Cardinality, Lifecycle!Cardinality

(* Every transaction is a step of AgentLifecycle.  *)
LEMMA StoreStepImplements ==
  ASSUME StoreTypeOK, StoreTypeOK', StoreStep
  PROVE  Lifecycle!Next
<1> DEFINE phase == [r \in Runs |-> PhaseOf(status[r])]
<1>1. \A r \in Runs : /\ phase[r] = PhaseOf(status[r]) /\ phase'[r] = PhaseOf(status'[r])
                      /\ status[r] \in Statuses /\ status'[r] \in Statuses
  BY DEF StoreTypeOK
<1>2. \A r \in Runs : phase'[r] = phase[r] \/ <<phase[r], phase'[r]>> \in Lifecycle!Moves
  <2> HIDE DEF phase
  <2> QED BY <1>1, StoreStepAllowed, AllowedIsMove
<1>3. ASSUME NEW r \in Runs, phase[r] # "active", phase'[r] = "active"
      PROVE  r = First(Candidates) /\ r \in Candidates
  <2>1. status[r] \notin Active /\ status'[r] \in Active
    <3> HIDE DEF phase
    <3> QED BY <1>1, <1>3, PhaseActive
  <2>2. QED
    BY <2>1, OnlyClaimActivates
<1>4. {r \in Group : phase[r] = "active"} = ActiveRuns(Group)
  <2> HIDE DEF phase
  <2> QED BY <1>1, PhaseActive, RunsAssumption DEF ActiveRuns
<1>5. ASSUME NEW r \in Runs, phase[r] # "active", phase'[r] = "active"
      PROVE  /\ r \in Group => Cardinality({s \in Group : phase[s] = "active"}) < GroupLimit
             /\ \A s \in Runs : phase[s] # "active" /\ phase'[s] = "active" => s = r
  <2>1. r \in Group => Cardinality(ActiveRuns(Group)) < GroupLimit
    BY <1>3, <1>5 DEF Candidates
  <2>2. \A s \in Runs : phase[s] # "active" /\ phase'[s] = "active" => s = r
    <3> HIDE DEF phase
    <3> QED BY <1>3, <1>5
  <2>3. QED
    <3> HIDE DEF phase
    <3> QED BY <1>4, <2>1, <2>2
<1>6. \A r \in Runs : Lifecycle!Acquires(r) <=> phase[r] # "active" /\ phase'[r] = "active"
  BY DEF Lifecycle!Acquires
<1>7. Lifecycle!Busy(Group) = {s \in Group : phase[s] = "active"}
  BY DEF Lifecycle!Busy
<1>8. \A r \in Runs : Lifecycle!Acquires(r) =>
        /\ r \in Group => Lifecycle!Cardinality(Lifecycle!Busy(Group)) < GroupLimit
        /\ \A s \in Runs : Lifecycle!Acquires(s) => s = r
  <2> HIDE DEF phase
  <2> QED BY <1>5, <1>6, <1>7, SameCardinality
<1>9. QED
  BY <1>2, <1>8 DEF Lifecycle!Next

(* The dispatcher, the tasks, the control API, detached threads, stops and *)
(* recovery together implement AgentLifecycle: ended runs keep their       *)
(* outcome, a run that never ran cannot complete or fail, and runs enter   *)
(* the active phase one at a time and only into a free slot.               *)
THEOREM RuntimeImplementsLifecycle == Spec => ImplementsLifecycle
<1>1. Init => Lifecycle!Init
  <2>1. PhaseOf("absent") = "new"
    BY DEF PhaseOf, Active, Waiting
  <2>2. QED
    BY <2>1 DEF Init, StoreInit, Lifecycle!Init
<1>2. TypeInv /\ TypeInv' /\ [Next]_vars =>
        [Lifecycle!Next]_([r \in Runs |-> PhaseOf(status[r])])
  <2> SUFFICES ASSUME TypeInv, TypeInv', [Next]_vars
               PROVE  [Lifecycle!Next]_([r \in Runs |-> PhaseOf(status[r])])
    OBVIOUS
  <2>1. CASE UNCHANGED storeVars
    <3>1. status' = status
      BY <2>1 DEF storeVars, runVars
    <3>2. QED
      BY <3>1
  <2>2. CASE StoreStep
    BY <2>2, StoreStepImplements DEF TypeInv, TypeOK
  <2>3. QED
    BY <2>1, <2>2, NextIsStoreStep
<1>3. QED
  BY <1>1, <1>2, TypeInvariant, PTL DEF Spec, ImplementsLifecycle, Lifecycle!Spec

-----------------------------------------------------------------------------
(* A waiting run waits for exactly one request.  *)

(* A run whose rows did not change waits as before.  *)
LEMMA WaitingKept ==
  ASSUME WaitingHasPending, NEW r \in Runs, status'[r] \in Waiting,
         status'[r] = status[r], interaction'[r] = interaction[r]
  PROVE  \E q \in Requests : Pending(r)' = {q} /\ status'[r] = WaitStatus(q)
BY DEF WaitingHasPending, Pending

(* Every transaction keeps waiting runs and their requests in step.  *)
LEMMA WaitingStep ==
  ASSUME StoreTypeOK, WaitingHasPending, StoreStep
  PROVE  WaitingHasPending'
<1> SUFFICES ASSUME NEW r \in Runs, status'[r] \in Waiting
             PROVE  \E q \in Requests : Pending(r)' = {q} /\ status'[r] = WaitStatus(q)
  BY DEF WaitingHasPending
<1> USE DEF StoreTypeOK, Active, Waiting, Terminal, storeVars, runVars, askVars
<1>1. CASE status'[r] = status[r] /\ interaction'[r] = interaction[r]
  BY <1>1, WaitingKept
<1>2. ASSUME NEW c \in Calls, WellFormed(c), Accepts(c), Commit(c)
      PROVE  \E q \in Requests : Pending(r)' = {q} /\ status'[r] = WaitStatus(q)
  <2>1. CASE c.op = "transition" /\ transition(c)
    BY <1>1, <1>2, <2>1 DEF transition, WellFormed, Calls
  <2>2. CASE c.op = "create_interaction" /\ create_interaction(c)
    <3>1. CASE UNCHANGED storeVars \/ c.run # r
      BY <1>1, <2>2, <3>1 DEF create_interaction, Calls
    <3>2. CASE ~UNCHANGED storeVars /\ c.run = r
      <4> DEFINE k == c.key
      <4>1. k \in Requests /\ interaction[r][k] = "none"
        BY <1>2, <2>2, <3>2 DEF create_interaction, WellFormed
      <4>2. Pending(r) = {}
        BY <1>2, <2>2, <3>2, <4>1 DEF Accepts
      <4>3. status[r] \notin Waiting
        BY <4>2 DEF WaitingHasPending
      <4>4. /\ status' = [status EXCEPT ![r] = IF @ = "running" THEN WaitStatus(k) ELSE @]
            /\ interaction' = [interaction EXCEPT ![r][k] = "pending"]
        BY <2>2, <3>2 DEF create_interaction
      <4>5. status'[r] = WaitStatus(k)
        BY <4>3, <4>4
      <4>6. \A q \in Requests : interaction'[r][q] =
              IF q = k THEN "pending" ELSE interaction[r][q]
        <5> HIDE DEF k
        <5> QED BY <4>1, <4>4
      <4>7. Pending(r)' = {k}
        <5> HIDE DEF k
        <5> QED BY <4>1, <4>2, <4>6 DEF Pending
      <4>8. QED
        BY <4>1, <4>5, <4>7
    <3>3. QED
      BY <3>1, <3>2
  <2>3. CASE c.op \notin {"transition", "create_interaction"}
    BY <1>1, <1>2, <2>3 DEF Commit, create_step, settle_step, abandon_step_for_retry,
       consume_single_use_leases
  <2>4. QED
    BY <1>2, <2>1, <2>2, <2>3 DEF Commit
<1>3. CASE claim_next
  BY <1>1, <1>3 DEF claim_next
<1>4. ASSUME NEW s \in Runs, NEW q \in Requests, expire_interactions(s, q)
      PROVE  \E p \in Requests : Pending(r)' = {p} /\ status'[r] = WaitStatus(p)
  BY <1>1, <1>4 DEF expire_interactions
<1>5. ASSUME NEW l \in LeaseIds, expire_leases(l)
      PROVE  \E q \in Requests : Pending(r)' = {q} /\ status'[r] = WaitStatus(q)
  BY <1>1, <1>5 DEF expire_leases
<1>6. CASE suspend_queued_for_shutdown
  BY <1>1, <1>6 DEF suspend_queued_for_shutdown
<1>7. CASE recover_interrupted
  BY <1>1, <1>7 DEF recover_interrupted, Recovered
<1>8. ASSUME NEW s \in Runs, create_run(s) \/ request_pause(s) \/ request_cancel(s)
      PROVE  \E q \in Requests : Pending(r)' = {q} /\ status'[r] = WaitStatus(q)
  <2>1. CASE s = r /\ ~UNCHANGED storeVars
    BY <1>8, <2>1 DEF create_run, request_pause, request_cancel
  <2>2. CASE s # r \/ UNCHANGED storeVars
    BY <1>1, <1>8, <2>2 DEF create_run, request_pause, request_cancel
  <2>3. QED
    BY <2>1, <2>2
<1>9. ASSUME NEW s \in Runs, NEW resolution \in Resolutions,
              resume_interrupted(s, resolution)
      PROVE  \E q \in Requests : Pending(r)' = {q} /\ status'[r] = WaitStatus(q)
  BY <1>1, <1>9 DEF resume_interrupted
<1>10. ASSUME NEW s \in Runs, NEW q \in Requests, NEW a \in Answers(q),
              respond_interaction(s, q, a)
      PROVE  \E p \in Requests : Pending(r)' = {p} /\ status'[r] = WaitStatus(p)
  BY <1>1, <1>10 DEF respond_interaction, AnsweredStatus
<1>11. QED
  BY <1>1, <1>2, <1>3, <1>4, <1>5, <1>6, <1>7, <1>8, <1>9, <1>10 DEF StoreStep

(* A run that waits always has exactly one pending request of the kind its *)
(* status announces, so it can be answered or expired; whatever questions  *)
(* executors ask and however answers, pauses, cancellations, expiry and    *)
(* detached create_interaction calls interleave.                           *)
THEOREM WaitingIsAnswerable == Spec => []WaitingHasPending
<1>1. Init => WaitingHasPending
  BY DEF Init, StoreInit, WaitingHasPending, Waiting
<1>2. TypeInv /\ WaitingHasPending /\ [Next]_vars => WaitingHasPending'
  <2> SUFFICES ASSUME TypeInv, WaitingHasPending, [Next]_vars PROVE WaitingHasPending'
    OBVIOUS
  <2>1. CASE UNCHANGED storeVars
    BY <2>1 DEF storeVars, runVars, askVars, WaitingHasPending, Pending
  <2>2. QED
    BY <2>1, NextIsStoreStep, WaitingStep DEF TypeInv, TypeOK
<1>3. QED
  BY <1>1, <1>2, TypeInvariant, PTL DEF Spec

=============================================================================
