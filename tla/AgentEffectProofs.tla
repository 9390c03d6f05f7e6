-------------------------- MODULE AgentEffectProofs --------------------------
(***************************************************************************)
(* Proofs about what the tasks of the agent runtime do to the world and to *)
(* the runs they drive, for every number of runs, tasks, tools, controls,  *)
(* detached calls, stops and process losses: an effectful call is started  *)
(* once and once more per retry the user authorised; a tool that needs a   *)
(* capability is started only when it was approved; an uncertain effect    *)
(* stays on record; a run nobody controls is driven by one task.           *)
(***************************************************************************)
EXTENDS AgentRuntimeProofs

(* What the frames hold beyond FrameOK.  *)
HoldsOK(f) ==
  /\ f.pc \in {"policy", "consume", "ask", "ask_grant", "create", "reject"} =>
       f.active = "none" /\ f.before = "none"
  /\ f.key \in EffectTools => f.active # "model" /\ f.before # "model"

(* The tasks between create_step of the key and the call it is for.  *)
Launching(r, k) == {t \in Tasks : task[t].pc = "dispatch" /\ task[t].run = r /\ task[t].key = k}

(* Calls of the key that were started or are about to be.  *)
Spent(r, k) == dispatched[r][k] + Cardinality(Launching(r, k))

(* The row of the attempt, if it is still there, was created for a         *)
(* rejected call: nobody starts a call for it.                             *)
Unspent(r, k, a) ==
  /\ a <= attempt[r][k]
  /\ a = attempt[r][k] => step[r][k] # "none" /\ Spent(r, k) <= authorized[r][k]

(* A frame that holds the row of a rejected call, and a detached call that *)
(* would free its key.                                                     *)
Rejected(f, r, k) == f.run = r /\ f.key = k /\ "pure" \in {f.active, f.before}
Frees(c, r, k) == c.op = "abandon_step_for_retry" /\ c.run = r /\ c.key = k

KeyInv(r, k) ==
  /\ IsFiniteSet(Launching(r, k))
  /\ Spent(r, k) <= authorized[r][k] + (IF step[r][k] = "none" THEN 0 ELSE 1)
  /\ \A t \in Tasks : Rejected(task[t], r, k) => Unspent(r, k, task[t].attempt)
  /\ \A c \in detached : Frees(c, r, k) => Unspent(r, k, c.attempt)

EffectInv ==
  /\ \A t \in Tasks : HoldsOK(task[t])
  /\ \A r \in Runs, k \in EffectTools : KeyInv(r, k)

(* The leases behind a tool call, from the policy to the start.            *)
Backed(r, k) == \E l \in LeaseIds : Backs(l, r, k)

Covered(f, r, k) ==
  /\ f.pc = "consume" =>
       f.leases # {} /\ \A l \in f.leases : Issued(l) /\ Matches(l, r, k)
  /\ f.pc \in {"create", "dispatch"} /\ "allow" \notin PolicyEffects[k] => Backed(r, k)

GrantInv ==
  /\ \A l \in LeaseIds : Issued(l) => interaction[l[1]][l[2]] = "approved"
  /\ \A r \in Runs, k \in CapTools :
       /\ dispatched[r][k] > 0 /\ "allow" \notin PolicyEffects[k] => Backed(r, k)
       /\ \A t \in Tasks : task[t].run = r /\ task[t].key = k => Covered(task[t], r, k)

(* The status of a run its task counts on.  *)
Expects(f) == IF f.pc = "start" THEN "planning" ELSE "running"

Handlers == {"fail_read", "fail_write", "stop_read", "stop_step", "stop_move"}
StopPCs == {"stop_read", "stop_step", "stop_move"}
Calm == controls = 0 /\ mode = "up"
Unasked(r) == \A q \in Requests : interaction[r][q] = "none"

RunOK(r) ==
  /\ \A t \in Drivers(r) : /\ status[r] = Expects(task[t])
                           /\ task[t].pc = "fail_write" => task[t].seen = "running"
                           /\ claimed # r
  /\ \A t, u \in Drivers(r) : t = u
  /\ claimed = r => status[r] = "planning"
  /\ status[r] \in Active => claimed = r \/ Drivers(r) # {}

(* A run that asked its user nothing is driven by one task or claimed:     *)
(* without a control no task is cancelled before a stop, and after a stop  *)
(* nothing of the process is left when recovery looks at the rows.         *)
DrivenInv ==
  /\ mode \in {"stopped", "lost"} =>
       claimed = NoRun /\ detached = {} /\ \A t \in Tasks : task[t].pc = "idle"
  /\ \A t \in Tasks : /\ task[t].pc = "idle" => task[t] = Idle
                      /\ task[t].handling => task[t].pc \in Handlers
  /\ controls = 0 => \A r \in Runs : kicks[r] = 0
  /\ Calm => /\ detached = {}
             /\ \A t \in Tasks : ~task[t].cancelled /\ task[t].pc \notin StopPCs
             /\ \A r \in Runs : Unasked(r) => RunOK(r)

-----------------------------------------------------------------------------
(* The frames. *)

(* Where a frame goes, and that one without a rejected step gets none.  *)
Inherits(f, g) ==
  "pure" \in {g.active, g.before} =>
    g.run = f.run /\ g.key = f.key /\ g.attempt = f.attempt /\ "pure" \in {f.active, f.before}

(* A step that goes on, or ends the task.  *)
Onward(f, g) ==
  /\ HoldsOK(g) /\ g.run = f.run /\ (g.cancelled => f.cancelled)
  /\ Inherits(f, g)
  /\ g.pc \in PCs \ {"idle", "start", "consume", "create", "dispatch"}
  /\ g.pc \in StopPCs => f.cancelled \/ f.pc \in StopPCs
  /\ g.pc = "fail_write" => g.seen = status[f.run]

(* A step on the way to a call, with no step row held yet.  *)
Early(f, g, pc) ==
  /\ g.pc = pc /\ g.run = f.run /\ (g.cancelled => f.cancelled)
  /\ g.active = "none" /\ g.before = "none"

(* Only the frame of t changes.  *)
Lone(t) == \A u \in Tasks \ {t} : task'[u] = task[u]

(* What going on, or ending, leaves in a frame.  *)
LEMMA AtShape ==
  ASSUME NEW f \in Frames, NEW pc
  PROVE  /\ At(f, pc).pc = pc /\ At(f, pc).run = f.run
         /\ At(f, pc).cancelled => f.cancelled
         /\ pc = "done" => At(f, pc).active = "none" /\ At(f, pc).before = "none"
                           /\ At(f, pc).key = NoKey
         /\ pc # "done" => /\ At(f, pc).key = f.key /\ At(f, pc).attempt = f.attempt
                           /\ At(f, pc).active = f.active /\ At(f, pc).before = f.active
                           /\ At(f, pc).seen = f.seen
<1>1. CASE pc = "done"
  BY <1>1 DEF At, Idle
<1>2. CASE pc # "done"
  <2>1. At(f, pc) = [f EXCEPT !.pc = pc, !.before = f.active, !.leases = {}]
    BY <1>2 DEF At
  <2> QED
    BY <1>2, <2>1 DEF Frames
<1> QED
  BY <1>1, <1>2

(* Going on from a frame is a step onward.  *)
LEMMA AtOnward ==
  ASSUME NEW f \in Frames, HoldsOK(f),
         NEW pc \in {"done", "snapshot", "fail_read", "requeue", "stop_move", "call"},
         pc = "stop_move" => f.pc \in StopPCs
  PROVE  Onward(f, At(f, pc))
<1> DEFINE g == At(f, pc)
<1>1. /\ g.pc = pc /\ g.run = f.run /\ (g.cancelled => f.cancelled)
      /\ pc = "done" => g.active = "none" /\ g.before = "none"
      /\ pc # "done" => /\ g.key = f.key /\ g.attempt = f.attempt /\ g.active = f.active
                        /\ g.before = f.active
  BY AtShape
<1>2. pc \in PCs
  BY DEF PCs, CallPCs, MovePCs
<1> HIDE DEF g
<1>3. HoldsOK(g)
  BY <1>1 DEF HoldsOK
<1>4. Inherits(f, g)
  BY <1>1 DEF Inherits
<1>5. g.pc \in PCs \ {"idle", "start", "consume", "create", "dispatch", "fail_write"}
  BY <1>1, <1>2
<1>6. g.pc \in StopPCs => f.pc \in StopPCs
  BY <1>1 DEF StopPCs
<1> QED
  BY <1>1, <1>3, <1>4, <1>5, <1>6 DEF Onward, g

(* Steps that only move the program counter.  *)
LEMMA GotoFlow ==
  ASSUME TypeInv, NEW t \in Tasks, HoldsOK(task[t]),
         NEW pc \in {"done", "snapshot", "fail_read", "requeue", "stop_move", "call"},
         pc = "stop_move" => task[t].pc \in StopPCs,
         Goto(t, pc)
  PROVE  Lone(t) /\ Onward(task[t], task'[t])
<1>1. task \in [Tasks -> Frames]
  BY DEF TypeInv, TypeOK
<1>2. Onward(task[t], At(task[t], pc))
  BY <1>1, AtOnward
<1> QED
  BY <1>1, <1>2 DEF Goto, Lone

(* An exception leads to _fail or ends the task.  *)
LEMMA RaiseFlow ==
  ASSUME TypeInv, NEW t \in Tasks, HoldsOK(task[t]), Raise(t)
  PROVE  Lone(t) /\ Onward(task[t], task'[t])
<1> DEFINE f == task[t]
           e == At(f, "fail_read")
           g == [e EXCEPT !.handling = TRUE]
<1>1. task \in [Tasks -> Frames] /\ f \in Frames
  BY DEF TypeInv, TypeOK
<1>2. Onward(f, At(f, "done")) /\ Onward(f, e)
  BY <1>1, AtOnward
<1>3. e = [f EXCEPT !.pc = "fail_read", !.before = f.active, !.leases = {}]
  BY DEF At
<1>4. /\ g.pc = e.pc /\ g.run = e.run /\ g.key = e.key /\ g.attempt = e.attempt
      /\ g.active = e.active /\ g.before = e.before /\ g.seen = e.seen
      /\ g.cancelled => e.cancelled
  BY <1>1, <1>3 DEF Frames
<1>5. Onward(f, g)
  <2> HIDE DEF g, e, f
  <2> QED BY <1>2, <1>4 DEF Onward, HoldsOK, Inherits
<1>6. task' = [task EXCEPT ![t] = At(f, "done")] \/ task' = [task EXCEPT ![t] = g]
  BY DEF Raise
<1> HIDE DEF g
<1> QED
  BY <1>1, <1>2, <1>5, <1>6 DEF Lone

(* A transaction goes on to the next point or raises.  *)
LEMMA AwaitFlow ==
  ASSUME TypeInv, NEW t \in Tasks, HoldsOK(task[t]), NEW pc,
         NEW next \in {"done", "snapshot", "stop_move"},
         next = "stop_move" => pc \in StopPCs,
         Await(t, pc, next)
  PROVE  Lone(t) /\ Onward(task[t], task'[t])
<1>1. task[t].pc = pc
  BY DEF Await, Proceeds
<1>2. Goto(t, next) \/ Raise(t)
  BY DEF Await
<1> QED
  BY <1>1, <1>2, GotoFlow, RaiseFlow

(* The snapshot and its deadline check.  *)
LEMMA SnapshotFlow ==
  ASSUME TypeInv, NEW t \in Tasks, HoldsOK(task[t]), Snapshot(t)
  PROVE  Lone(t) /\ Onward(task[t], task'[t])
<1> DEFINE f == task[t]
           pc == IF expired[f.run] THEN "fail_read" ELSE "execute"
           b == current_step[f.run] < MaxSteps
           g == [f EXCEPT !.pc = pc, !.budget = b]
<1>1. task \in [Tasks -> Frames] /\ f \in Frames /\ f.active = "none" /\ f.before = "none"
  BY DEF TypeInv, TypeOK, FrameOK, Snapshot, Local, Proceeds
<1>2. pc \in {"fail_read", "execute"}
  OBVIOUS
<1>3. g.pc = pc /\ g.run = f.run /\ g.active = "none" /\ g.before = "none" /\ (g.cancelled => f.cancelled)
  <2> HIDE DEF f, b, pc
  <2> QED BY <1>1 DEF Frames
<1>4. task' = [task EXCEPT ![t] = g]
  BY DEF Snapshot
<1> HIDE DEF g, pc
<1>5. Onward(f, g)
  BY <1>2, <1>3 DEF Onward, HoldsOK, Inherits, StopPCs, PCs
<1> QED
  BY <1>1, <1>4, <1>5 DEF Lone

(* _fail remembers the status it read.  *)
LEMMA FailReadFlow ==
  ASSUME TypeInv, NEW t \in Tasks, HoldsOK(task[t]), FailRead(t)
  PROVE  Lone(t) /\ Onward(task[t], task'[t])
<1> DEFINE f == task[t]
           s == status[f.run]
           g == [f EXCEPT !.pc = "fail_write", !.seen = s]
<1>1. task \in [Tasks -> Frames] /\ f \in Frames
  BY DEF TypeInv, TypeOK
<1>2. /\ g.pc = "fail_write" /\ g.run = f.run /\ g.key = f.key /\ g.attempt = f.attempt
      /\ g.active = f.active /\ g.before = f.before /\ g.seen = s /\ (g.cancelled => f.cancelled)
  <2> HIDE DEF f, s
  <2> QED BY <1>1 DEF Frames
<1>3. Goto(t, "done") \/ task' = [task EXCEPT ![t] = g]
  BY DEF FailRead, Goto
<1> HIDE DEF g
<1>4. Onward(f, g)
  BY <1>2 DEF Onward, HoldsOK, Inherits, StopPCs, PCs, CallPCs, MovePCs
<1> QED
  BY <1>1, <1>3, <1>4, GotoFlow DEF Lone

(* The return of a tool or a model.  *)
LEMMA ReturnFlow ==
  ASSUME TypeInv, NEW t \in Tasks, HoldsOK(task[t]), Return(t)
  PROVE  Lone(t) /\ Onward(task[t], task'[t])
<1> DEFINE f == task[t]
           G(o, next) == [f EXCEPT !.pc = "settle", !.outcome = o, !.next = next,
                                   !.before = f.active]
<1>1. task \in [Tasks -> Frames] /\ f \in Frames /\ HoldsOK(f)
  BY DEF TypeInv, TypeOK
<1>2. ASSUME NEW o, NEW next PROVE Onward(f, G(o, next))
  <2> DEFINE g == G(o, next)
  <2>1. /\ g.pc = "settle" /\ g.run = f.run /\ g.key = f.key /\ g.attempt = f.attempt
        /\ g.active = f.active /\ g.before = f.active /\ (g.cancelled => f.cancelled)
    <3> HIDE DEF f
    <3> QED BY <1>1 DEF Frames
  <2> HIDE DEF g, G, f
  <2>2. Onward(f, g)
    BY <1>1, <2>1 DEF Onward, HoldsOK, Inherits, StopPCs, PCs, CallPCs, StepPCs
  <2> QED
    BY <2>2 DEF g
<1>3. \/ \E o \in {"completed", "failed"}, next \in {"requeue", "fail_read"} :
           task' = [task EXCEPT ![t] = G(o, next)]
      \/ Raise(t)
  BY DEF Return
<1> HIDE DEF G
<1> QED
  BY <1>1, <1>2, <1>3, RaiseFlow DEF Lone

(* Settling drops the step the task held.  *)
LEMMA SettleFlow ==
  ASSUME TypeInv, NEW t \in Tasks, HoldsOK(task[t]), Settle(t)
  PROVE  Lone(t) /\ Onward(task[t], task'[t])
<1> DEFINE f == task[t]
           e == At(f, f.next)
           a == IF f.active = "model" /\ f.outcome = "failed" THEN "model" ELSE "none"
           g == [e EXCEPT !.outcome = "completed", !.next = "idle", !.active = a]
<1>1. /\ task \in [Tasks -> Frames] /\ f \in Frames /\ HoldsOK(f)
      /\ f.next \in {"requeue", "fail_read"}
  BY DEF TypeInv, TypeOK, FrameOK, Settle, Proceeds
<1>2. e = [f EXCEPT !.pc = f.next, !.before = f.active, !.leases = {}]
  BY <1>1 DEF At
<1>3. a = "none" \/ (a = "model" /\ f.active = "model")
  OBVIOUS
<1>4. /\ g.pc = f.next /\ g.run = f.run /\ g.key = f.key /\ g.attempt = f.attempt
      /\ g.active = a /\ g.before = f.active /\ (g.cancelled => f.cancelled)
  <2> HIDE DEF f, a
  <2> QED BY <1>1, <1>2 DEF Frames
<1>5. task' = [task EXCEPT ![t] = g]
  BY DEF Settle
<1>6. Onward(f, g)
  <2> HIDE DEF g, f, a
  <2> QED BY <1>1, <1>3, <1>4 DEF Onward, HoldsOK, Inherits, StopPCs, PCs, CallPCs, MovePCs
<1> HIDE DEF g
<1> QED
  BY <1>1, <1>5, <1>6 DEF Lone

(* A cancelled task ends or enters its handler with what it held.  *)
LEMMA CancelTaskFlow ==
  ASSUME TypeInv, NEW t \in Tasks, HoldsOK(task[t]), CancelTask(t)
  PROVE  Lone(t) /\ Onward(task[t], task'[t])
<1> DEFINE f == task[t]
           G(a) == [f EXCEPT !.pc = "stop_read", !.handling = TRUE, !.leases = {},
                             !.cancelled = FALSE, !.active = a]
           H == [f EXCEPT !.pc = "stop_read", !.handling = TRUE, !.leases = {},
                          !.cancelled = FALSE]
<1>1. task \in [Tasks -> Frames] /\ f \in Frames /\ HoldsOK(f) /\ f.cancelled
  BY DEF TypeInv, TypeOK, CancelTask
<1>2. ASSUME NEW g, \/ g = H
                   \/ g = G(f.before)
      PROVE  Onward(f, g)
  <2>1. /\ g.pc = "stop_read" /\ g.run = f.run /\ g.key = f.key /\ g.attempt = f.attempt
        /\ g.active \in {f.active, f.before} /\ g.before = f.before
    <3> HIDE DEF f
    <3> QED BY <1>1, <1>2 DEF Frames
  <2> HIDE DEF f, G, H
  <2> QED
    BY <1>1, <2>1 DEF Onward, HoldsOK, Inherits, StopPCs, PCs
<1>3. \/ Goto(t, "done")
      \/ task' = [task EXCEPT ![t] = H]
      \/ task' = [task EXCEPT ![t] = G(f.before)]
  BY DEF CancelTask
<1> HIDE DEF G, H
<1> QED
  BY <1>1, <1>2, <1>3, GotoFlow DEF Lone

(* The handler reads the run.  *)
LEMMA StopReadFlow ==
  ASSUME TypeInv, NEW t \in Tasks, HoldsOK(task[t]), StopRead(t)
  PROVE  Lone(t) /\ Onward(task[t], task'[t])
<1> DEFINE f == task[t]
           r == f.run
           s == IF status[r] = "interrupted" /\ error[r] = "user_paused"
                THEN "paused" ELSE status[r]
           g == [f EXCEPT !.pc = "stop_step", !.seen = s]
<1>1. task \in [Tasks -> Frames] /\ f \in Frames /\ HoldsOK(f) /\ f.pc \in StopPCs
  BY DEF TypeInv, TypeOK, StopRead, Local, Proceeds, StopPCs
<1>2. /\ g.pc = "stop_step" /\ g.run = f.run /\ g.key = f.key /\ g.attempt = f.attempt
      /\ g.active = f.active /\ g.before = f.before /\ (g.cancelled => f.cancelled)
  <2> HIDE DEF f, s
  <2> QED BY <1>1 DEF Frames
<1>3. StopNext(s) \in {"done", "stop_move"}
  BY DEF StopNext
<1>4. Goto(t, StopNext(s)) \/ task' = [task EXCEPT ![t] = g]
  BY DEF StopRead
<1> HIDE DEF g, s
<1>5. Onward(f, g)
  BY <1>1, <1>2 DEF Onward, HoldsOK, Inherits, PCs, CallPCs
<1> QED
  BY <1>1, <1>3, <1>4, <1>5, GotoFlow DEF Lone

(* The executor's choice goes to a call only past the policy.  *)
LEMMA DecideFlow ==
  ASSUME TypeInv, NEW t \in Tasks, HoldsOK(task[t]), Decide(t)
  PROVE  /\ Lone(t)
         /\ \/ Onward(task[t], task'[t])
            \/ Early(task[t], task'[t], "create") /\ task'[t].key \notin CapTools
         /\ task'[t].pc \notin {"done", "start"}
<1> DEFINE f == task[t]
           G(pc, k) == [f EXCEPT !.pc = pc, !.key = k, !.budget = TRUE]
           H(pc) == [f EXCEPT !.pc = pc, !.budget = TRUE]
<1>1. /\ task \in [Tasks -> Frames] /\ f \in Frames /\ f.active = "none" /\ f.before = "none"
  BY DEF TypeInv, TypeOK, FrameOK, Decide, Local, Proceeds
<1>2. ASSUME NEW pc, NEW k, NEW g, g = G(pc, k) \/ g = H(pc)
      PROVE  Early(f, g, pc) /\ (g = G(pc, k) => g.key = k)
  <2> HIDE DEF f
  <2> QED BY <1>1, <1>2 DEF Early, Frames
<1>3. ASSUME NEW g, NEW pc \in {"complete", "requeue", "fail_read", "ask", "reject", "policy"},
             Early(f, g, pc)
      PROVE  Onward(f, g)
  BY <1>3 DEF Early, Onward, HoldsOK, Inherits, StopPCs, PCs, CallPCs, MovePCs, AskPCs, StepPCs
<1>4. \/ \E pc \in {"complete", "requeue", "fail_read"} : task' = [task EXCEPT ![t] = H(pc)]
      \/ \E k \in Keys \cup InputKeys, pc \in {"ask", "reject", "fail_read", "policy"} :
           task' = [task EXCEPT ![t] = G(pc, k)]
      \/ \E k \in Keys \ CapTools : task' = [task EXCEPT ![t] = G("create", k)]
  <2>1. Tools \subseteq Keys
    BY DEF Keys
  <2> HIDE DEF f
  <2>2. \/ \E pc \in {"complete", "requeue", "fail_read"} :
               task' = [task EXCEPT ![t] = H(pc)]
        \/ \E q \in InputKeys : task' = [task EXCEPT ![t] = G("ask", q)]
        \/ \E k \in Tools : task' = [task EXCEPT ![t] = G(IF f.budget THEN "reject" ELSE "fail_read", k)]
        \/ \E k \in Keys :
             task' = [task EXCEPT ![t] = G(IF ~f.budget THEN "fail_read"
                             ELSE IF k \in CapTools THEN "policy" ELSE "create", k)]
    BY DEF Decide, f
  <2> HIDE DEF G, H
  <2> QED
    BY <2>1, <2>2
<1> HIDE DEF G, H
<1>5. task'[t].pc \notin {"done", "start"}
  BY <1>1, <1>2, <1>4 DEF Early
<1> QED
  BY <1>1, <1>2, <1>3, <1>4, <1>5 DEF Lone

(* Moves on the way to create_step.  *)
LEMMA EarlyFlow ==
  ASSUME TypeInv, NEW t \in Tasks, HoldsOK(task[t]), task[t].pc \in {"policy", "consume"},
         NEW pc \in {"create", "ask_grant"}, Goto(t, pc)
  PROVE  Lone(t) /\ Early(task[t], task'[t], pc) /\ task'[t].key = task[t].key
<1> DEFINE f == task[t]
           g == At(f, pc)
<1>1. task \in [Tasks -> Frames] /\ f \in Frames /\ f.active = "none"
  BY DEF TypeInv, TypeOK, HoldsOK
<1>2. Early(f, g, pc) /\ g.key = f.key
  BY <1>1, AtShape DEF Early
<1>3. task' = [task EXCEPT ![t] = g]
  BY DEF Goto
<1> HIDE DEF g
<1> QED
  BY <1>1, <1>2, <1>3 DEF Lone

(* The policy lets a call pass with leases, or where policies allow it.    *)
LEMMA PolicyFlow ==
  ASSUME TypeInv, NEW t \in Tasks, HoldsOK(task[t]), Policy(t)
  PROVE  /\ Lone(t)
         /\ \/ Onward(task[t], task'[t])
            \/ /\ Early(task[t], task'[t], "consume") /\ task'[t].key = task[t].key
               /\ task'[t].leases = active_leases_for_run(task[t].run, task[t].key)
               /\ task'[t].leases # {}
            \/ /\ Early(task[t], task'[t], "create") /\ task'[t].key = task[t].key
               /\ "allow" \in PolicyEffects[task[t].key]
<1> DEFINE f == task[t]
           M == active_leases_for_run(f.run, f.key)
           e == At(f, "consume")
           g == [e EXCEPT !.leases = M]
<1>1. f.pc = "policy" /\ f \in Frames /\ f.active = "none" /\ task \in [Tasks -> Frames]
  BY DEF Policy, Local, Proceeds, TypeInv, TypeOK, HoldsOK
<1>2. CASE M # {} /\ task' = [task EXCEPT ![t] = g]
  <2>1. /\ e.pc = "consume" /\ e.run = f.run /\ (e.cancelled => f.cancelled)
        /\ e.active = "none" /\ e.before = "none" /\ e.key = f.key
    BY <1>1, AtShape
  <2>2. e = [f EXCEPT !.pc = "consume", !.before = f.active, !.leases = {}]
    BY DEF At
  <2>3. /\ g.pc = e.pc /\ g.run = e.run /\ g.key = e.key /\ g.cancelled = e.cancelled
        /\ g.active = e.active /\ g.before = e.before /\ g.leases = M
    <3> HIDE DEF f, M
    <3> QED BY <1>1, <2>2 DEF Frames
  <2> HIDE DEF g, e, M
  <2>4. Early(f, g, "consume") /\ g.key = f.key
    BY <2>1, <2>3 DEF Early
  <2>5. Lone(t) /\ task'[t] = g
    BY <1>1, <1>2 DEF Lone
  <2> QED
    BY <1>2, <2>3, <2>4, <2>5 DEF M
<1>3. CASE Goto(t, "create") /\ "allow" \in PolicyEffects[f.key]
  BY <1>1, <1>3, EarlyFlow
<1>4. CASE Goto(t, "fail_read")
  BY <1>4, GotoFlow
<1>5. CASE Goto(t, "ask_grant")
  <2>1. Lone(t) /\ Early(task[t], task'[t], "ask_grant")
    BY <1>1, <1>5, EarlyFlow
  <2>2. Onward(task[t], task'[t])
    BY <2>1 DEF Early, Onward, HoldsOK, Inherits, StopPCs, PCs, CallPCs, AskPCs
  <2> QED
    BY <2>1, <2>2
<1> QED
  BY <1>2, <1>3, <1>4, <1>5 DEF Policy

(* The matched leases are consumed and create_step comes next.  *)
LEMMA ConsumeFlow ==
  ASSUME TypeInv, NEW t \in Tasks, HoldsOK(task[t]), Consume(t)
  PROVE  /\ Lone(t) /\ Early(task[t], task'[t], "create") /\ task'[t].key = task[t].key
         /\ consume_single_use_leases(CallOf(task[t]))
         /\ CallOf(task[t]).leases = task[t].leases
<1>1. task[t].pc = "consume"
  BY DEF Consume, Await, Proceeds
<1>2. CallOf(task[t]) = StepCall(task[t], "consume_single_use_leases", "none")
  BY <1>1 DEF CallOf
<1>3. /\ CallOf(task[t]).op = "consume_single_use_leases"
      /\ CallOf(task[t]).leases = task[t].leases
  BY <1>2 DEF StepCall
<1>4. Accepts(CallOf(task[t]))
  BY <1>3 DEF Accepts
<1>5. Goto(t, "create") /\ Commit(CallOf(task[t]))
  BY <1>4 DEF Consume, Await, Transact
<1> QED
  BY <1>1, <1>3, <1>5, EarlyFlow DEF Commit

(* create_step: the frame holds the kind of its key, and goes on to the    *)
(* call only when it created the row.                                      *)
LEMMA CreateFlow ==
  ASSUME TypeInv, NEW t \in Tasks, HoldsOK(task[t]), CreateStep(t)
  PROVE  LET f == task[t]
             g == task'[t]
         IN  /\ Lone(t) /\ HoldsOK(g)
             /\ f.pc = "create" /\ f.run \in Runs /\ f.key \in Keys
             /\ g.run = f.run /\ g.key = f.key /\ (g.cancelled => f.cancelled)
             /\ g.before = "none" /\ g.active = HeldKind(f.key)
             /\ g.pc = IF step[f.run][f.key] = "none" THEN "dispatch"
                       ELSE Replayed(f.key, step[f.run][f.key])
             /\ Transact(CallOf(f)) /\ CallOf(f) = StepCall(f, "create_step", "none")
<1> DEFINE f == task[t]
           s == step[f.run][f.key]
           pc == IF s = "none" THEN "dispatch" ELSE Replayed(f.key, s)
           a == attempt[f.run][f.key]
           h == HeldKind(f.key)
           g == [f EXCEPT !.pc = pc, !.attempt = a, !.before = f.active, !.active = h]
<1>1. /\ task \in [Tasks -> Frames] /\ f \in Frames /\ f.pc = "create" /\ f.active = "none"
      /\ f.run \in Runs /\ f.key \in Keys
  BY DEF TypeInv, TypeOK, FrameOK, HoldsOK, CreateStep, Proceeds
<1>2. /\ g.pc = pc /\ g.run = f.run /\ g.key = f.key /\ (g.cancelled => f.cancelled)
      /\ g.before = "none" /\ g.active = h
  <2> HIDE DEF f, pc, a, h
  <2> QED BY <1>1 DEF Frames
<1>3. pc \in {"dispatch", "requeue", "interrupt", "fail_read"}
  BY DEF Replayed
<1>4. f.key \in EffectTools => h = "effect"
  BY KeysAssumption DEF HeldKind
<1>5. task' = [task EXCEPT ![t] = g] /\ Transact(CallOf(f))
  BY DEF CreateStep
<1>6. CallOf(f) = StepCall(f, "create_step", "none")
  <2> HIDE DEF f
  <2> QED BY <1>1 DEF CallOf
<1>7. HoldsOK(g)
  <2> HIDE DEF g, pc, h
  <2> QED BY <1>2, <1>3, <1>4 DEF HoldsOK
<1>8. Lone(t) /\ task'[t] = g
  <2> HIDE DEF g
  <2> QED BY <1>1, <1>5 DEF Lone
<1> QED
  <2>1. HoldsOK(task'[t])
    BY <1>7, <1>8
  <2>2. task'[t].pc = pc /\ task'[t].run = f.run /\ task'[t].key = f.key
        /\ (task'[t].cancelled => f.cancelled) /\ task'[t].before = "none" /\ task'[t].active = h
    <3> HIDE DEF g, f, h, pc
    <3> QED BY <1>2, <1>8
  <2> QED
    BY <1>1, <1>5, <1>6, <1>8, <2>1, <2>2

(* The step row of a rejected call.  *)
LEMMA RejectFlow ==
  ASSUME TypeInv, NEW t \in Tasks, HoldsOK(task[t]), RejectStep(t)
  PROVE  LET f == task[t]
             g == task'[t]
         IN  /\ Lone(t) /\ f.run \in Runs /\ f.key \in Keys
             /\ Transact(CallOf(f)) /\ CallOf(f) = StepCall(f, "create_step", "none")
             /\ \/ Onward(f, g)
                \/ /\ step[f.run][f.key] = "none"
                   /\ g.pc = "settle" /\ g.run = f.run /\ g.key = f.key
                   /\ HoldsOK(g) /\ (g.cancelled => f.cancelled)
                   /\ g.attempt = attempt[f.run][f.key]
<1> DEFINE f == task[t]
           s == step[f.run][f.key]
           a == attempt[f.run][f.key]
           G(next) == [f EXCEPT !.pc = "settle", !.outcome = "failed", !.next = next,
                                !.attempt = a, !.before = f.active, !.active = "pure"]
<1>1. /\ task \in [Tasks -> Frames] /\ f \in Frames /\ f.pc = "reject" /\ f.active = "none"
      /\ f.run \in Runs /\ f.key \in Keys
  BY DEF TypeInv, TypeOK, FrameOK, HoldsOK, RejectStep, Proceeds
<1>2. ASSUME NEW next
      PROVE  /\ G(next).pc = "settle" /\ G(next).run = f.run /\ G(next).key = f.key
             /\ (G(next).cancelled => f.cancelled) /\ G(next).attempt = a
             /\ G(next).active = "pure" /\ G(next).before = "none"
  <2> HIDE DEF f, a
  <2> QED BY <1>1 DEF Frames
<1>3. CallOf(f) = StepCall(f, "create_step", "none") /\ Transact(CallOf(f))
  <2>1. Transact(CallOf(f))
    BY DEF RejectStep
  <2> HIDE DEF f
  <2> QED BY <1>1, <2>1 DEF CallOf
<1>4. \/ s = "none" /\ \E next \in {"requeue", "fail_read"} : task' = [task EXCEPT ![t] = G(next)]
      \/ Goto(t, "requeue") \/ Goto(t, "fail_read")
  BY DEF RejectStep
<1>5. ASSUME NEW next, s = "none", task' = [task EXCEPT ![t] = G(next)]
      PROVE  /\ Lone(t) /\ s = "none"
             /\ task'[t].pc = "settle" /\ task'[t].run = f.run /\ task'[t].key = f.key
             /\ HoldsOK(task'[t]) /\ (task'[t].cancelled => f.cancelled)
             /\ task'[t].attempt = a
  <2> HIDE DEF G
  <2>1. Lone(t) /\ task'[t] = G(next)
    BY <1>1, <1>5 DEF Lone
  <2>2. HoldsOK(G(next))
    BY <1>2 DEF HoldsOK
  <2> HIDE DEF f, a, s
  <2> QED
    BY <1>2, <1>5, <2>1, <2>2
<1> HIDE DEF G
<1> QED
  BY <1>1, <1>3, <1>4, <1>5, GotoFlow

(* Every other step of a task.  *)
LEMMA OnwardFlow ==
  ASSUME TypeInv, NEW t \in Tasks, HoldsOK(task[t]), Body(t) \/ Cleanup(t),
         ~Decide(t), ~Policy(t), ~Consume(t), ~CreateStep(t), ~RejectStep(t), ~TaskDone(t)
  PROVE  Lone(t) /\ Onward(task[t], task'[t])
<1>1. CASE Start(t) \/ Complete(t) \/ Requeue(t) \/ Interrupt(t) \/ FailWrite(t) \/ Ask(t) \/ AskGrant(t)
  BY <1>1, AwaitFlow DEF Start, Complete, Requeue, Interrupt, FailWrite, Ask, AskGrant
<1>2. CASE Snapshot(t) \/ FailRead(t) \/ Return(t) \/ Settle(t) \/ CancelTask(t) \/ StopRead(t)
  BY <1>2, SnapshotFlow, FailReadFlow, ReturnFlow, SettleFlow, CancelTaskFlow, StopReadFlow
<1>3. CASE DeadlineTimeout(t)
  BY <1>3, RaiseFlow DEF DeadlineTimeout
<1>4. CASE Dispatch(t)
  BY <1>4, GotoFlow DEF Dispatch
<1>5. CASE StopStep(t)
  <2>1. StopNext(task[t].seen) \in {"done", "stop_move"}
    BY DEF StopNext
  <2> QED
    BY <1>5, <2>1, AwaitFlow DEF StopStep, StopPCs
<1>6. CASE StopMove(t)
  BY <1>6, AwaitFlow DEF StopMove
<1> QED
  BY <1>1, <1>2, <1>3, <1>4, <1>5, <1>6 DEF Body, Cleanup

-----------------------------------------------------------------------------
(* The step rows of one key. *)

(* The key keeps its attempt and its row, if it has one.  *)
Kept(r, k) ==
  /\ attempt'[r][k] = attempt[r][k] /\ authorized'[r][k] = authorized[r][k]
  /\ step'[r][k] = "none" => step[r][k] = "none"

(* The user has an uncertain call retried.  *)
Retried(r, k) ==
  /\ step[r][k] = "uncertain" /\ step'[r][k] = "none"
  /\ attempt'[r][k] = attempt[r][k] + 1 /\ authorized'[r][k] = authorized[r][k] + 1

(* A running row is abandoned.  *)
Freed(r, k) ==
  /\ step[r][k] = "running" /\ step'[r][k] = "none"
  /\ attempt'[r][k] = attempt[r][k] + 1 /\ authorized'[r][k] = authorized[r][k]

(* What one committed call does to the rows of a key.  *)
LEMMA CommitKey ==
  ASSUME StoreTypeOK, NEW c \in Calls, WellFormed(c), Accepts(c), Commit(c),
         NEW r \in Runs, NEW k \in Keys
  PROVE  Kept(r, k) \/ (Freed(r, k) /\ Frees(c, r, k) /\ c.attempt = attempt[r][k])
<1>0. c.run \in Runs
  BY DEF Calls
<1> USE DEF StoreTypeOK, stepVars, askVars, runVars, storeVars
<1>1. CASE c.op = "transition" /\ transition(c)
  BY <1>1 DEF transition, Kept
<1>2. CASE c.op = "create_step" /\ create_step(c)
  <2>1. c.key \in Keys /\ "running" \in StepStatuses
    BY <1>2 DEF WellFormed, StepStatuses
  <2>2. CASE UNCHANGED storeVars
    BY <2>2 DEF Kept
  <2>3. CASE step' = [step EXCEPT ![c.run][c.key] = "running"] /\ UNCHANGED <<attempt, authorized>>
    BY <1>0, <2>1, <2>3, NestedUpdate DEF Kept
  <2> QED
    BY <1>2, <2>2, <2>3 DEF create_step
<1>3. CASE c.op = "settle_step" /\ settle_step(c)
  <2>1. c.key \in Keys /\ c.to \in StepStatuses /\ c.to # "none"
    BY <1>3 DEF WellFormed, StepStatuses
  <2>2. CASE UNCHANGED storeVars
    BY <2>2 DEF Kept
  <2>3. CASE step' = [step EXCEPT ![c.run][c.key] = c.to] /\ UNCHANGED <<attempt, authorized>>
    <3>1. step \in [Runs -> [Keys -> StepStatuses]]
      OBVIOUS
    <3>2. step'[r][k] = IF r = c.run /\ k = c.key THEN c.to ELSE step[r][k]
      <4> HIDE DEF StoreTypeOK
      <4> QED BY <1>0, <2>1, <2>3, <3>1, NestedUpdate
    <3> HIDE DEF StoreTypeOK
    <3> QED
      BY <2>1, <2>3, <3>2 DEF Kept
  <2>4. \/ UNCHANGED storeVars
        \/ step' = [step EXCEPT ![c.run][c.key] = c.to] /\ UNCHANGED <<attempt, authorized>>
    <3> HIDE DEF StoreTypeOK, stepVars, askVars, runVars, storeVars
    <3> QED BY <1>3 DEF settle_step
  <2> QED
    BY <2>2, <2>3, <2>4
<1>4. CASE c.op = "abandon_step_for_retry" /\ abandon_step_for_retry(c)
  <2>1. c.key \in Keys /\ "none" \in StepStatuses
    BY <1>4 DEF WellFormed, StepStatuses
  <2>2. step[c.run][c.key] = "running" /\ attempt[c.run][c.key] = c.attempt
    BY <1>4 DEF Accepts, StillRunning
  <2>3. attempt[c.run][c.key] + 1 \in Nat
    BY <1>0, <2>1
  <2>4. /\ step' = [step EXCEPT ![c.run][c.key] = "none"]
        /\ attempt' = [attempt EXCEPT ![c.run][c.key] = attempt[c.run][c.key] + 1]
        /\ UNCHANGED authorized
    BY <1>4 DEF abandon_step_for_retry
  <2>5. step'[r][k] = IF r = c.run /\ k = c.key THEN "none" ELSE step[r][k]
    BY <1>0, <2>1, <2>4, NestedUpdate
  <2>6. attempt'[r][k] = IF r = c.run /\ k = c.key THEN attempt[r][k] + 1 ELSE attempt[r][k]
    BY <1>0, <2>1, <2>3, <2>4, NestedUpdate
  <2> QED
    BY <1>4, <2>2, <2>4, <2>5, <2>6 DEF Kept, Freed, Frees
<1>5. CASE \/ c.op = "create_interaction" /\ create_interaction(c)
           \/ c.op = "consume_single_use_leases" /\ consume_single_use_leases(c)
  BY <1>5 DEF create_interaction, consume_single_use_leases, Kept
<1> QED
  BY <1>1, <1>2, <1>3, <1>4, <1>5 DEF Commit

(* The same for a call that may roll back.  *)
LEMMA TransactKey ==
  ASSUME StoreTypeOK, NEW c \in Calls, WellFormed(c), Transact(c),
         NEW r \in Runs, NEW k \in Keys
  PROVE  Kept(r, k) \/ (Freed(r, k) /\ Frees(c, r, k) /\ c.attempt = attempt[r][k])
<1>1. CASE Accepts(c)
  BY <1>1, CommitKey DEF Transact
<1>2. CASE ~Accepts(c)
  BY <1>2 DEF Transact, storeVars, stepVars, Kept
<1> QED
  BY <1>1, <1>2

(* What the rest of the runtime does to the rows of a tool.  *)
LEMMA OtherKey ==
  ASSUME StoreTypeOK, NEW r \in Runs, NEW k \in EffectTools,
         \/ claim_next \/ suspend_queued_for_shutdown \/ recover_interrupted
         \/ \E s \in Runs, q \in Requests : expire_interactions(s, q)
         \/ \E l \in LeaseIds : expire_leases(l)
         \/ \E s \in Runs :
              \/ create_run(s) \/ request_pause(s) \/ request_cancel(s)
              \/ \E resolution \in Resolutions : resume_interrupted(s, resolution)
              \/ \E q \in Requests : \E a \in Answers(q) : respond_interaction(s, q, a)
  PROVE  Kept(r, k) \/ Retried(r, k)
<1>0. k \in Keys /\ k \notin ModelCalls
  BY KeysAssumption DEF Keys, Tools
<1> USE <1>0 DEF StoreTypeOK, stepVars, askVars, runVars, storeVars
<1>1. CASE recover_interrupted
  <2>1. ~Abandons(r, k)
    BY DEF Abandons
  <2> QED
    BY <1>1, <2>1 DEF recover_interrupted, Kept
<1>2. ASSUME NEW s \in Runs, NEW resolution \in Resolutions, resume_interrupted(s, resolution)
      PROVE  Kept(r, k) \/ Retried(r, k)
  <2> DEFINE freed == IF resolution = "retry" THEN Uncertain(s) ELSE {}
  <2>1. /\ step' = [step EXCEPT ![s] =
             [j \in Keys |-> IF j \notin Uncertain(s) THEN step[s][j]
                             ELSE IF resolution = "retry" THEN "none" ELSE "completed"]]
        /\ attempt' = [attempt EXCEPT ![s] =
             [j \in Keys |-> IF j \in freed THEN attempt[s][j] + 1 ELSE attempt[s][j]]]
        /\ authorized' = [authorized EXCEPT ![s] =
             [j \in Keys |-> IF j \in freed THEN authorized[s][j] + 1 ELSE authorized[s][j]]]
    BY <1>2 DEF resume_interrupted
  <2>2. Uncertain(s) = {j \in Keys : step[s][j] = "uncertain"}
    BY DEF Uncertain
  <2>3. CASE r # s
    BY <2>1, <2>3 DEF Kept
  <2>4. CASE r = s /\ k \notin Uncertain(s)
    BY <2>1, <2>4 DEF Kept
  <2>5. CASE r = s /\ k \in Uncertain(s) /\ resolution = "retry"
    BY <2>1, <2>2, <2>5 DEF Retried
  <2>6. CASE r = s /\ k \in Uncertain(s) /\ resolution # "retry"
    BY <2>1, <2>6 DEF Kept
  <2> QED
    BY <2>3, <2>4, <2>5, <2>6
<1>3. CASE UNCHANGED stepVars
  BY <1>3 DEF Kept
<1> QED
  BY <1>1, <1>2, <1>3 DEF claim_next, suspend_queued_for_shutdown, expire_interactions,
     expire_leases, create_run, request_pause, request_cancel, respond_interaction

-----------------------------------------------------------------------------
(* Effects. *)

KeyTypes(r, k) ==
  /\ {dispatched[r][k], authorized[r][k], attempt[r][k]} \subseteq Nat
  /\ \A t \in Tasks : task[t].attempt \in Nat
  /\ \A c \in detached : c.attempt \in Nat

(* The types the account of a key needs.  *)
LEMMA KeyTyped ==
  ASSUME TypeInv, NEW r \in Runs, NEW k \in EffectTools
  PROVE  KeyTypes(r, k)
<1>1. k \in Keys
  BY DEF Keys, Tools
<1>2. \A t \in Tasks : task[t].attempt \in Nat
  BY DEF TypeInv, TypeOK, Frames
<1>3. \A c \in detached : c.attempt \in Nat
  BY DEF TypeInv, TypeOK, Calls
<1> QED
  BY <1>1, <1>2, <1>3 DEF TypeInv, TypeOK, StoreTypeOK, KeyTypes

(* The same in the next state.  *)
LEMMA KeyTypedNext ==
  ASSUME TypeInv', NEW r \in Runs, NEW k \in EffectTools
  PROVE  KeyTypes(r, k)'
<1>1. k \in Keys
  BY DEF Keys, Tools
<1>2. \A t \in Tasks : task'[t].attempt \in Nat
  BY DEF TypeInv, TypeOK, Frames
<1>3. \A c \in detached' : c.attempt \in Nat
  BY DEF TypeInv, TypeOK, Calls
<1> QED
  BY <1>1, <1>2, <1>3 DEF TypeInv, TypeOK, StoreTypeOK, KeyTypes

(* A step that starts no call and lets none be started.  *)
LEMMA KeyKept ==
  ASSUME NEW r \in Runs, NEW k \in EffectTools,
         KeyTypes(r, k), KeyTypes(r, k)', KeyInv(r, k),
         dispatched'[r][k] = dispatched[r][k],
         Launching(r, k)' \subseteq Launching(r, k),
         Kept(r, k) \/ Retried(r, k) \/ (Freed(r, k) /\ Unspent(r, k, attempt[r][k])),
         \A t \in Tasks : Rejected(task[t], r, k)' =>
           \/ Unspent(r, k, task'[t].attempt)
           \/ /\ step[r][k] = "none" /\ step'[r][k] # "none"
              /\ task'[t].attempt = attempt[r][k],
         \A c \in detached' : Frees(c, r, k) => Unspent(r, k, c.attempt)
  PROVE  KeyInv(r, k)'
<1> DEFINE sp == Spent(r, k)
           auth == authorized[r][k]
           att == attempt[r][k]
<1>1. /\ IsFiniteSet(Launching(r, k)')
      /\ Cardinality(Launching(r, k)') <= Cardinality(Launching(r, k))
      /\ Cardinality(Launching(r, k)') \in Nat /\ Cardinality(Launching(r, k)) \in Nat
  <2> HIDE DEF Launching
  <2> QED BY FS_Subset, FS_CardinalityType DEF KeyInv
<1>2. sp \in Nat /\ sp' \in Nat /\ sp' <= sp
  <2> HIDE DEF Launching
  <2> QED BY <1>1 DEF Spent, KeyTypes
<1>3. /\ auth \in Nat /\ att \in Nat /\ auth' \in Nat /\ att' \in Nat
      /\ sp <= auth + (IF step[r][k] = "none" THEN 0 ELSE 1)
  BY DEF KeyTypes, KeyInv
<1>4. /\ Kept(r, k) => att' = att /\ auth' = auth /\ (step'[r][k] = "none" => step[r][k] = "none")
      /\ Retried(r, k) => /\ step[r][k] = "uncertain" /\ step'[r][k] = "none"
                          /\ att' = att + 1 /\ auth' = auth + 1
      /\ Freed(r, k) => /\ step[r][k] = "running" /\ step'[r][k] = "none"
                        /\ att' = att + 1 /\ auth' = auth
  BY DEF Kept, Retried, Freed
<1>5. \A a : Unspent(r, k, a) <=> (a <= att /\ (a = att => step[r][k] # "none" /\ sp <= auth))
  BY DEF Unspent
<1>6. \A a : Unspent(r, k, a)' <=> (a <= att' /\ (a = att' => step'[r][k] # "none" /\ sp' <= auth'))
  BY DEF Unspent
<1>7. sp' <= auth' + (IF step'[r][k] = "none" THEN 0 ELSE 1)
  <2>1. CASE Kept(r, k)
    <3> HIDE DEF sp, auth, att
    <3> QED BY <1>2, <1>3, <1>4, <2>1
  <2>2. CASE Retried(r, k)
    <3> HIDE DEF sp, auth, att
    <3> QED BY <1>2, <1>3, <1>4, <2>2
  <2>3. CASE Freed(r, k) /\ Unspent(r, k, att)
    <3>1. sp <= auth
      BY <1>3, <1>5, <2>3
    <3> HIDE DEF sp, auth, att
    <3> QED BY <1>2, <1>3, <1>4, <2>3, <3>1
  <2> QED
    BY <2>1, <2>2, <2>3
<1>8. ASSUME NEW a \in Nat, Unspent(r, k, a) PROVE Unspent(r, k, a)'
  <2> HIDE DEF sp, auth, att
  <2>1. a <= att /\ (a = att => step[r][k] # "none" /\ sp <= auth)
    BY <1>5, <1>8
  <2>2. a <= att' /\ (a = att' => step'[r][k] # "none" /\ sp' <= auth')
    BY <1>2, <1>3, <1>4, <2>1
  <2> QED
    BY <1>6, <2>2
<1>9. ASSUME step[r][k] = "none", step'[r][k] # "none" PROVE Unspent(r, k, att)'
  <2> HIDE DEF sp, auth, att
  <2>1. att' = att /\ auth' = auth /\ sp' <= auth'
    BY <1>2, <1>3, <1>4, <1>9
  <2>2. att <= att' /\ (att = att' => step'[r][k] # "none" /\ sp' <= auth')
    BY <1>3, <1>9, <2>1
  <2> QED
    BY <1>6, <2>2, <2>1 DEF Unspent
<1>10. ASSUME NEW t \in Tasks, Rejected(task[t], r, k)' PROVE Unspent(r, k, task[t].attempt)'
  <2>1. task'[t].attempt \in Nat
    BY DEF KeyTypes
  <2>2. PICK a \in Nat : a = task'[t].attempt
    BY <2>1
  <2>3. Unspent(r, k, a)'
    <3>1. CASE Unspent(r, k, a)
      BY <1>8, <3>1
    <3>2. CASE step[r][k] = "none" /\ step'[r][k] # "none" /\ a = att
      BY <1>6, <1>9, <3>2, <1>3, <1>4
    <3> QED
      BY <1>10, <2>2, <3>1, <3>2
  <2> QED
    BY <2>2, <2>3 DEF Unspent
<1>11. ASSUME NEW c \in detached', Frees(c, r, k) PROVE Unspent(r, k, c.attempt)'
  <2>1. c.attempt \in Nat
    BY DEF KeyTypes
  <2> QED
    BY <1>8, <1>11, <2>1
<1> QED
  <2>1. \A c \in detached' : Frees(c, r, k)' => Unspent(r, k, c.attempt)'
    BY <1>11 DEF Frees
  <2> HIDE DEF Launching, Unspent, Rejected, Frees
  <2> QED
    BY <1>1, <1>7, <1>10, <2>1 DEF KeyInv

(* Only the holder of a rejected step asks to free the key of a tool with  *)
(* effects.                                                                *)
LEMMA FreesRejected ==
  ASSUME NEW f \in Frames, FrameOK(f), HoldsOK(f), f.pc \in CallPCs,
         NEW r \in Runs, NEW k \in EffectTools, Frees(CallOf(f), r, k)
  PROVE  Rejected(f, r, k) /\ CallOf(f).attempt = f.attempt
<1>1. CASE f.pc = "stop_step"
  <2>1. CallOf(f) = StopStepCall(f)
    BY <1>1 DEF CallOf
  <2>2. CallOf(f).run = f.run /\ CallOf(f).key = f.key /\ CallOf(f).attempt = f.attempt
    BY <2>1 DEF StopStepCall, StepCall
  <2>3. f.active # "effect"
    BY <2>1 DEF StopStepCall, StepCall, Frees
  <2>4. f.active = "pure"
    BY <1>1, <2>2, <2>3 DEF FrameOK, HoldsOK, Frees, Frames, Held
  <2> QED
    BY <2>2, <2>4 DEF Rejected, Frees
<1>2. CASE f.pc # "stop_step"
  <2>1. CallOf(f).op # "abandon_step_for_retry"
    BY <1>2 DEF CallOf, MoveCall, StepCall
  <2> QED
    BY <2>1 DEF Frees
<1> QED
  BY <1>1, <1>2

(* How a task touches the rows and the detached calls.  *)
Writes(t) == UNCHANGED storeVars \/ (task[t].pc \in CallPCs /\ Transact(CallOf(task[t])))
Leaves(t) ==
  \/ UNCHANGED detached
  \/ task[t].pc \in CallPCs /\ detached' = detached \cup {CallOf(task[t])}

(* Every step of a task writes by its call alone.  *)
LEMMA TaskWrites ==
  ASSUME NEW t \in Tasks, Body(t) \/ Cleanup(t)
  PROVE  Writes(t) /\ Leaves(t) /\ (UNCHANGED dispatched \/ Dispatch(t))
<1> USE DEF Writes, Leaves, CallPCs, StepPCs, MovePCs, AskPCs
<1>1. CASE Start(t) \/ Complete(t) \/ Requeue(t) \/ Interrupt(t) \/ FailWrite(t)
           \/ Ask(t) \/ AskGrant(t) \/ Consume(t) \/ StopStep(t) \/ StopMove(t)
  <2>1. PICK pc, next : pc \in CallPCs /\ Await(t, pc, next)
    BY <1>1 DEF Start, Complete, Requeue, Interrupt, FailWrite, Ask, AskGrant, Consume,
       StopStep, StopMove
  <2> QED
    BY <2>1 DEF Await, Proceeds
<1>2. CASE CreateStep(t) \/ RejectStep(t) \/ Settle(t)
  BY <1>2 DEF CreateStep, RejectStep, Settle, Proceeds
<1>3. CASE Snapshot(t) \/ Decide(t) \/ DeadlineTimeout(t) \/ FailRead(t) \/ Policy(t)
           \/ Return(t) \/ StopRead(t)
  BY <1>3 DEF Snapshot, Decide, DeadlineTimeout, FailRead, Policy, Return, StopRead, Local
<1>4. CASE Dispatch(t) \/ TaskDone(t)
  BY <1>4 DEF Dispatch, TaskDone
<1>5. CASE CancelTask(t)
  BY <1>5 DEF CancelTask, Leave
<1> QED
  BY <1>1, <1>2, <1>3, <1>4, <1>5 DEF Body, Cleanup

(* A step of a task that starts no call of the key.  *)
LEMMA SoftStep ==
  ASSUME TypeInv, TypeInv', EffectInv, NEW r \in Runs, NEW k \in EffectTools,
         NEW t \in Tasks, Lone(t), Writes(t), Leaves(t),
         dispatched'[r][k] = dispatched[r][k],
         ~(task'[t].pc = "dispatch" /\ task'[t].run = r /\ task'[t].key = k),
         \/ Inherits(task[t], task'[t])
         \/ Rejected(task'[t], r, k) => /\ step[r][k] = "none" /\ step'[r][k] # "none"
                                        /\ task'[t].attempt = attempt[r][k]
  PROVE  KeyInv(r, k)'
<1>1. KeyTypes(r, k) /\ KeyTypes(r, k)' /\ k \in Keys
  BY KeyTyped, KeyTypedNext DEF Keys, Tools
<1>2. /\ KeyInv(r, k) /\ HoldsOK(task[t]) /\ FrameOK(task[t]) /\ task[t] \in Frames
      /\ StoreTypeOK
  BY DEF EffectInv, TypeInv, TypeOK
<1>3. Launching(r, k)' \subseteq Launching(r, k)
  BY DEF Launching, Lone
<1>4. ASSUME Rejected(task[t], r, k) PROVE Unspent(r, k, task[t].attempt)
  BY <1>2, <1>4 DEF KeyInv
<1>5. task[t].pc \in CallPCs /\ Frees(CallOf(task[t]), r, k) =>
        Unspent(r, k, CallOf(task[t]).attempt)
  BY <1>2, <1>4, FreesRejected
<1>6. Kept(r, k) \/ (Freed(r, k) /\ Unspent(r, k, attempt[r][k]))
  <2>1. CASE UNCHANGED storeVars
    BY <2>1 DEF storeVars, stepVars, Kept
  <2>2. CASE task[t].pc \in CallPCs /\ Transact(CallOf(task[t]))
    <3>1. CallOf(task[t]) \in Calls /\ WellFormed(CallOf(task[t]))
      BY <1>2, <2>2, CallOfType
    <3>2. Kept(r, k) \/ (/\ Freed(r, k) /\ Frees(CallOf(task[t]), r, k)
                         /\ CallOf(task[t]).attempt = attempt[r][k])
      BY <1>1, <1>2, <2>2, <3>1, TransactKey
    <3> QED
      BY <1>5, <2>2, <3>2
  <2> QED
    BY <2>1, <2>2 DEF Writes
<1>7. ASSUME NEW u \in Tasks, Rejected(task[u], r, k)'
      PROVE  \/ Unspent(r, k, task'[u].attempt)
             \/ /\ step[r][k] = "none" /\ step'[r][k] # "none"
                /\ task'[u].attempt = attempt[r][k]
  <2>1. Rejected(task'[u], r, k)
    BY <1>7 DEF Rejected
  <2>2. CASE u # t
    BY <1>2, <2>1, <2>2 DEF Lone, KeyInv
  <2>3. CASE u = t /\ Inherits(task[t], task'[t])
    <3>1. Rejected(task[t], r, k) /\ task'[t].attempt = task[t].attempt
      BY <2>1, <2>3 DEF Rejected, Inherits
    <3> QED
      BY <1>4, <2>3, <3>1
  <2> QED
    BY <2>1, <2>2, <2>3
<1>8. ASSUME NEW c \in detached', Frees(c, r, k) PROVE Unspent(r, k, c.attempt)
  BY <1>2, <1>5, <1>8 DEF Leaves, KeyInv
<1> QED
  BY <1>1, <1>2, <1>3, <1>6, <1>7, <1>8, KeyKept

(* A step that creates the row of a key starts the only call of the row.   *)
LEMMA CreateKey ==
  ASSUME TypeInv, TypeInv', EffectInv, NEW r \in Runs, NEW k \in EffectTools,
         NEW t \in Tasks, CreateStep(t)
  PROVE  KeyInv(r, k)'
<1> DEFINE f == task[t]
<1>1. HoldsOK(f) /\ Writes(t) /\ Leaves(t) /\ dispatched' = dispatched /\ detached' = detached
  BY TaskWrites DEF EffectInv, Body, CreateStep
<1>2. /\ Lone(t) /\ f.pc = "create" /\ f.run \in Runs /\ f.key \in Keys
      /\ task'[t].run = f.run /\ task'[t].key = f.key
      /\ task'[t].before = "none" /\ task'[t].active = HeldKind(f.key)
      /\ task'[t].pc = IF step[f.run][f.key] = "none" THEN "dispatch"
                       ELSE Replayed(f.key, step[f.run][f.key])
      /\ Transact(CallOf(f)) /\ CallOf(f) = StepCall(f, "create_step", "none")
  BY <1>1, CreateFlow
<1>3. k \in Keys /\ (f.key = k => HeldKind(f.key) = "effect")
  BY KeysAssumption DEF HeldKind, Keys, Tools
<1>4. ~Rejected(task'[t], r, k)
  BY <1>2, <1>3 DEF Rejected
<1>5. CASE ~(task'[t].pc = "dispatch" /\ f.run = r /\ f.key = k)
  BY <1>1, <1>2, <1>4, <1>5, SoftStep
<1>6. CASE task'[t].pc = "dispatch" /\ f.run = r /\ f.key = k
  <2>1. step[r][k] = "none"
    BY <1>2, <1>6 DEF Replayed
  <2>2. /\ CallOf(f).op = "create_step" /\ CallOf(f).run = r /\ CallOf(f).key = k
    BY <1>2, <1>6 DEF StepCall
  <2>3. create_step(CallOf(f))
    <3>1. Accepts(CallOf(f))
      BY <2>2 DEF Accepts
    <3> QED
      BY <1>2, <2>2, <3>1 DEF Transact, Commit
  <2>4. step'[r][k] = "running" /\ UNCHANGED <<attempt, authorized>>
    <3>1. step' = [step EXCEPT ![r][k] = "running"] /\ UNCHANGED <<attempt, authorized>>
      BY <2>1, <2>2, <2>3 DEF create_step
    <3> QED
      BY <1>3, <3>1 DEF TypeInv, TypeOK, StoreTypeOK
  <2>5. KeyTypes(r, k) /\ KeyInv(r, k)
    BY KeyTyped DEF EffectInv
  <2>6. Launching(r, k)' = Launching(r, k) \cup {t} /\ t \notin Launching(r, k)
    BY <1>2, <1>6 DEF Launching, Lone
  <2>7. /\ IsFiniteSet(Launching(r, k)')
        /\ Cardinality(Launching(r, k)') = Cardinality(Launching(r, k)) + 1
        /\ Cardinality(Launching(r, k)) \in Nat
    <3>1. IsFiniteSet(Launching(r, k))
      BY <2>5 DEF KeyInv
    <3> HIDE DEF Launching
    <3> QED
      BY <2>6, <3>1, FS_AddElement, FS_CardinalityType
  <2>8. Spent(r, k) \in Nat /\ Spent(r, k)' = Spent(r, k) + 1
    <3> HIDE DEF Launching
    <3> QED BY <1>1, <2>5, <2>7 DEF Spent, KeyTypes
  <2>9. Spent(r, k) <= authorized[r][k]
    BY <2>1, <2>5, <2>8 DEF KeyInv, KeyTypes
  <2>10. Spent(r, k)' <= authorized'[r][k] + 1
    <3> HIDE DEF Spent
    <3> QED BY <2>4, <2>5, <2>8, <2>9 DEF KeyTypes
  <2>11. ASSUME NEW a, Unspent(r, k, a) PROVE Unspent(r, k, a)'
    BY <2>1, <2>4, <2>11 DEF Unspent
  <2>12. ASSUME NEW u \in Tasks, Rejected(task[u], r, k)' PROVE Unspent(r, k, task[u].attempt)'
    <3>1. u # t /\ task'[u] = task[u]
      BY <1>2, <1>4, <2>12 DEF Lone, Rejected
    <3>2. Unspent(r, k, task[u].attempt)
      BY <2>5, <2>12, <3>1 DEF KeyInv, Rejected
    <3>3. PICK a : a = task[u].attempt
      OBVIOUS
    <3>4. Unspent(r, k, a)'
      BY <2>11, <3>2, <3>3
    <3> QED
      BY <3>1, <3>3, <3>4 DEF Unspent
  <2>13. ASSUME NEW c \in detached', Frees(c, r, k)' PROVE Unspent(r, k, c.attempt)'
    BY <1>1, <2>5, <2>11, <2>13 DEF KeyInv, Frees
  <2> HIDE DEF Spent, Unspent, Rejected, Frees, Launching
  <2> QED
    BY <2>4, <2>7, <2>10, <2>12, <2>13 DEF KeyInv
<1> QED
  BY <1>5, <1>6

(* Starting a call moves it from about to be started to started.  *)
LEMMA DispatchKey ==
  ASSUME TypeInv, TypeInv', EffectInv, NEW r \in Runs, NEW k \in EffectTools,
         NEW t \in Tasks, Dispatch(t)
  PROVE  KeyInv(r, k)'
<1> DEFINE f == task[t]
<1>1. HoldsOK(f) /\ Writes(t) /\ Leaves(t) /\ UNCHANGED <<storeVars, detached>>
  BY TaskWrites DEF EffectInv, Body, Dispatch
<1>2. Lone(t) /\ Onward(f, task'[t])
  BY <1>1, GotoFlow DEF Dispatch
<1>3. /\ f.pc = "dispatch" /\ f.run \in Runs /\ f.key \in Keys /\ k \in Keys
      /\ dispatched' = [dispatched EXCEPT ![f.run][f.key] = @ + 1]
  BY DEF Dispatch, Proceeds, TypeInv, FrameOK, Keys, Tools
<1>4. dispatched'[r][k] = IF f.run = r /\ f.key = k THEN dispatched[r][k] + 1 ELSE dispatched[r][k]
  BY <1>3 DEF TypeInv, TypeOK
<1>5. CASE ~(f.run = r /\ f.key = k)
  BY <1>1, <1>2, <1>4, <1>5, SoftStep DEF Onward
<1>6. CASE f.run = r /\ f.key = k
  <2>1. KeyTypes(r, k) /\ KeyInv(r, k)
    BY KeyTyped DEF EffectInv
  <2>2. Launching(r, k)' = Launching(r, k) \ {t} /\ t \in Launching(r, k)
    BY <1>2, <1>3, <1>6 DEF Launching, Lone, Onward
  <2>3. /\ IsFiniteSet(Launching(r, k)')
        /\ Cardinality(Launching(r, k)') = Cardinality(Launching(r, k)) - 1
        /\ Cardinality(Launching(r, k)) \in Nat
    <3>1. IsFiniteSet(Launching(r, k))
      BY <2>1 DEF KeyInv
    <3> HIDE DEF Launching
    <3> QED
      BY <2>2, <3>1, FS_RemoveElement, FS_CardinalityType
  <2>4. Spent(r, k)' = Spent(r, k)
    <3> HIDE DEF Launching
    <3> QED BY <1>4, <1>6, <2>1, <2>3 DEF Spent, KeyTypes
  <2>5. UNCHANGED <<step, attempt, authorized>>
    BY <1>1 DEF storeVars, stepVars
  <2>6. ASSUME NEW a, Unspent(r, k, a) PROVE Unspent(r, k, a)'
    BY <2>4, <2>5, <2>6 DEF Unspent
  <2>7. ASSUME NEW u \in Tasks, Rejected(task[u], r, k)' PROVE Unspent(r, k, task[u].attempt)'
    <3>1. Rejected(task[u], r, k) /\ task'[u].attempt = task[u].attempt
      BY <1>2, <2>7 DEF Lone, Rejected, Onward, Inherits
    <3>2. Unspent(r, k, task[u].attempt)
      BY <2>1, <3>1 DEF KeyInv
    <3>3. PICK a : a = task[u].attempt
      OBVIOUS
    <3>4. Unspent(r, k, a)'
      BY <2>6, <3>2, <3>3
    <3> QED
      BY <3>1, <3>3, <3>4 DEF Unspent
  <2>8. ASSUME NEW c \in detached', Frees(c, r, k)' PROVE Unspent(r, k, c.attempt)'
    BY <1>1, <2>1, <2>6, <2>8 DEF KeyInv, Frees
  <2>9. Spent(r, k)' <= authorized'[r][k] + (IF step'[r][k] = "none" THEN 0 ELSE 1)
    BY <2>1, <2>4, <2>5 DEF KeyInv
  <2> HIDE DEF Spent, Unspent, Rejected, Frees, Launching
  <2> QED
    BY <2>3, <2>7, <2>8, <2>9 DEF KeyInv
<1> QED
  BY <1>5, <1>6

(* Outside the tasks frames are flagged, made or dropped.  *)
Same(f, g) ==
  /\ g.pc = f.pc /\ g.run = f.run /\ g.key = f.key /\ g.attempt = f.attempt
  /\ g.active = f.active /\ g.before = f.before /\ g.seen = f.seen
  /\ g.leases = f.leases
Blank(g) == g.pc \in {"idle", "start"} /\ g.active = "none" /\ g.before = "none"

Elsewhere == DetachedCommit \/ Dispatcher \/ Clock \/ Api \/ Process \/ UNCHANGED vars

(* Other steps keep the frames, start one or drop them all.  *)
LEMMA ElsewhereFlow ==
  ASSUME TypeInv, Elsewhere
  PROVE  \A t \in Tasks : Same(task[t], task'[t]) \/ Blank(task'[t])
<1>0. task \in [Tasks -> Frames]
  BY DEF TypeInv, TypeOK
<1>1. CASE UNCHANGED task
  BY <1>1 DEF Same
<1>2. ASSUME NEW f \in Frames PROVE Same(f, [f EXCEPT !.cancelled = TRUE])
  BY DEF Same, Frames
<1>2a. \A t \in Tasks : Same(task[t], task[t])
  BY DEF Same
<1>3. ASSUME NEW r \in Runs, Kick(r)
      PROVE  \A t \in Tasks : Same(task[t], task'[t])
  <2>1. \A t \in Tasks : task'[t] = task[t] \/ task'[t] = [task[t] EXCEPT !.cancelled = TRUE]
    BY <1>3 DEF Kick
  <2> QED
    BY <1>0, <1>2, <1>2a, <2>1
<1>4. CASE StopCancel \/ CloseLoop
  <2>1. \A t \in Tasks : task'[t] = task[t] \/ task'[t] = [task[t] EXCEPT !.cancelled = TRUE]
    BY <1>4 DEF StopCancel, CloseLoop
  <2> QED
    BY <1>0, <1>2, <1>2a, <2>1
<1>5. CASE ProcessLoss
  <2>1. Blank(Idle)
    BY DEF Blank, Idle
  <2> QED
    BY <1>5, <2>1 DEF ProcessLoss
<1>6. ASSUME NEW t \in Tasks, Spawn(t)
      PROVE  \A u \in Tasks : Same(task[u], task'[u]) \/ Blank(task'[u])
  <2> DEFINE g == [Idle EXCEPT !.pc = "start", !.run = claimed]
  <2>1. Blank(g)
    BY DEF Blank, Idle
  <2>2. task' = [task EXCEPT ![t] = g]
    BY <1>6 DEF Spawn
  <2> HIDE DEF g
  <2> QED
    BY <1>0, <2>1, <2>2 DEF Same
<1>7. CASE DetachedCommit \/ Clock
  BY <1>1, <1>7 DEF DetachedCommit, Clock, ExpireInteraction, ExpireLease, DeadlinePasses
<1>8. CASE Dispatcher
  BY <1>1, <1>6, <1>8 DEF Dispatcher, Claim
<1>9. CASE Api
  BY <1>1, <1>3, <1>9 DEF Api, CreateRun, PauseRequest, CancelRequest, Resume, Respond
<1>10. CASE Process
  BY <1>1, <1>4, <1>5, <1>10 DEF Process, LateClaim, StopBegin, StopSuspend, StopFinish, Restart
<1> QED
  BY <1>1, <1>7, <1>8, <1>9, <1>10 DEF Elsewhere, vars

(* A step is one of a task or comes from elsewhere.  *)
LEMMA NextCases ==
  ASSUME [Next]_vars
  PROVE  Elsewhere \/ \E t \in Tasks : Body(t) \/ Cleanup(t)
BY DEF Next, Elsewhere

(* The frames keep what they hold.  *)
LEMMA HoldsStep ==
  ASSUME TypeInv, \A t \in Tasks : HoldsOK(task[t]), [Next]_vars
  PROVE  \A t \in Tasks : HoldsOK(task[t])'
<1>1. CASE Elsewhere
  BY <1>1, ElsewhereFlow DEF Same, Blank, HoldsOK
<1>2. ASSUME NEW t \in Tasks, Body(t) \/ Cleanup(t)
      PROVE  Lone(t) /\ HoldsOK(task'[t])
  <2>1. CASE Decide(t) \/ Policy(t) \/ Consume(t)
    <3>1. /\ Lone(t)
          /\ \/ Onward(task[t], task'[t])
             \/ \E pc \in {"consume", "create"} : Early(task[t], task'[t], pc)
      BY <2>1, DecideFlow, PolicyFlow, ConsumeFlow
    <3> QED
      BY <3>1 DEF Onward, Early, HoldsOK
  <2>2. CASE CreateStep(t)
    BY <2>2, CreateFlow
  <2>3. CASE RejectStep(t)
    BY <2>3, RejectFlow DEF Onward
  <2>4. CASE TaskDone(t)
    <3>1. HoldsOK(Idle)
      BY DEF HoldsOK, Idle
    <3> QED
      BY <2>4, <3>1 DEF TaskDone, Lone, TypeInv, TypeOK
  <2> QED
    BY <1>2, <2>1, <2>2, <2>3, <2>4, OnwardFlow DEF Onward
<1>3. ASSUME NEW t \in Tasks, Body(t) \/ Cleanup(t), NEW u \in Tasks PROVE HoldsOK(task'[u])
  BY <1>2, <1>3 DEF Lone
<1> QED
  BY <1>1, <1>3, NextCases DEF HoldsOK

(* Steps outside the tasks leave the account of a key in balance.  *)
LEMMA ElsewhereKey ==
  ASSUME TypeInv, TypeInv', EffectInv, NEW r \in Runs, NEW k \in EffectTools, Elsewhere
  PROVE  KeyInv(r, k)'
<1>1. KeyTypes(r, k) /\ KeyTypes(r, k)' /\ k \in Keys
  BY KeyTyped, KeyTypedNext DEF Keys, Tools
<1>2. KeyInv(r, k) /\ StoreTypeOK
  BY DEF EffectInv, TypeInv, TypeOK
<1>3. \A t \in Tasks : Same(task[t], task'[t]) \/ Blank(task'[t])
  BY ElsewhereFlow
<1>4. Launching(r, k)' \subseteq Launching(r, k)
  BY <1>3 DEF Launching, Same, Blank
<1>5. ASSUME NEW t \in Tasks, Rejected(task[t], r, k)' PROVE Unspent(r, k, task'[t].attempt)
  <2>1. Rejected(task'[t], r, k)
    BY <1>5 DEF Rejected
  <2>2. Rejected(task[t], r, k) /\ task'[t].attempt = task[t].attempt
    BY <1>3, <2>1 DEF Same, Blank, Rejected
  <2> QED
    BY <1>2, <2>2 DEF KeyInv
<1>6. dispatched' = dispatched /\ detached' \subseteq detached
  BY DEF Elsewhere, DetachedCommit, Dispatcher, Claim, Spawn, Clock, ExpireInteraction, ExpireLease,
     DeadlinePasses, Api, CreateRun, PauseRequest, CancelRequest, Kick, Resume, Respond, Process,
     LateClaim, StopBegin, StopSuspend, StopCancel, CloseLoop, StopFinish, ProcessLoss, Restart, vars
<1>7. Kept(r, k) \/ Retried(r, k) \/ (Freed(r, k) /\ Unspent(r, k, attempt[r][k]))
  <2>1. CASE UNCHANGED stepVars
    BY <2>1 DEF Kept, stepVars
  <2>2. CASE DetachedCommit
    <3>1. PICK c \in detached : Transact(c)
      BY <2>2 DEF DetachedCommit
    <3>2. c \in Calls /\ WellFormed(c) /\ (Frees(c, r, k) => Unspent(r, k, c.attempt))
      BY <1>2, <3>1 DEF TypeInv, TypeOK, KeyInv
    <3> QED
      BY <1>1, <1>2, <3>1, <3>2, TransactKey
  <2>3. CASE Dispatcher
    BY <1>2, <2>1, <2>3, OtherKey DEF Dispatcher, Claim, Spawn, storeVars
  <2>4. CASE Clock
    BY <1>2, <2>1, <2>4, OtherKey DEF Clock, ExpireInteraction, ExpireLease, DeadlinePasses
  <2>5. CASE Api
    BY <1>2, <2>1, <2>5, OtherKey DEF Api, CreateRun, PauseRequest, CancelRequest, Kick, Resume,
       Respond, storeVars
  <2>6. CASE Process
    BY <1>2, <2>1, <2>6, OtherKey DEF Process, LateClaim, StopBegin, StopSuspend, StopCancel,
       CloseLoop, StopFinish, ProcessLoss, Restart, storeVars
  <2> QED
    BY <2>1, <2>2, <2>3, <2>4, <2>5, <2>6 DEF Elsewhere, vars, storeVars
<1> QED
  BY <1>1, <1>2, <1>4, <1>5, <1>6, <1>7, KeyKept DEF KeyInv

(* Every step preserves the accounts.  *)
LEMMA EffectStep ==
  ASSUME TypeInv, TypeInv', EffectInv, [Next]_vars
  PROVE  EffectInv'
<1>1. \A t \in Tasks : HoldsOK(task[t])'
  BY HoldsStep DEF EffectInv
<1>2. ASSUME NEW r \in Runs, NEW k \in EffectTools, NEW t \in Tasks, Body(t) \/ Cleanup(t)
      PROVE  KeyInv(r, k)'
  <2>1. HoldsOK(task[t]) /\ Writes(t) /\ Leaves(t)
    BY <1>2, TaskWrites DEF EffectInv
  <2>2. CASE CreateStep(t) \/ Dispatch(t)
    BY <2>2, CreateKey, DispatchKey
  <2>3. CASE ~CreateStep(t) /\ ~Dispatch(t)
    <3>1. dispatched' = dispatched
      BY <1>2, <2>3, TaskWrites
    <3>2. CASE RejectStep(t)
      <4>1. /\ Lone(t) /\ task[t].run \in Runs /\ task[t].key \in Keys
            /\ Transact(CallOf(task[t])) /\ CallOf(task[t]) = StepCall(task[t], "create_step", "none")
            /\ \/ Onward(task[t], task'[t])
               \/ /\ step[task[t].run][task[t].key] = "none" /\ task'[t].pc = "settle"
                  /\ task'[t].run = task[t].run /\ task'[t].key = task[t].key
                  /\ task'[t].attempt = attempt[task[t].run][task[t].key]
        BY <2>1, <3>2, RejectFlow
      <4>2. CASE Onward(task[t], task'[t])
        BY <2>1, <3>1, <4>1, <4>2, SoftStep DEF Onward
      <4>3. CASE step[task[t].run][task[t].key] = "none" /\ ~Onward(task[t], task'[t])
        <5>1. Rejected(task'[t], r, k) => task[t].run = r /\ task[t].key = k
          BY <4>1, <4>3 DEF Rejected
        <5>2. task[t].run = r /\ task[t].key = k => step'[r][k] = "running"
          <6>1. /\ CallOf(task[t]).op = "create_step" /\ CallOf(task[t]).run = task[t].run
                /\ CallOf(task[t]).key = task[t].key
            BY <4>1 DEF StepCall
          <6>2. create_step(CallOf(task[t]))
            BY <4>1, <6>1 DEF Transact, Accepts, Commit
          <6>3. step' = [step EXCEPT ![task[t].run][task[t].key] = "running"]
            BY <4>3, <6>1, <6>2 DEF create_step
          <6> QED
            BY <4>1, <6>3 DEF TypeInv, TypeOK, StoreTypeOK
        <5> QED
          BY <2>1, <3>1, <4>1, <4>3, <5>1, <5>2, SoftStep
      <4> QED
        BY <4>2, <4>3, <4>1
    <3>3. CASE ~RejectStep(t)
      <4>1. Lone(t) /\ Inherits(task[t], task'[t]) /\ task'[t].pc # "dispatch"
        <5>1. CASE Decide(t) \/ Policy(t) \/ Consume(t)
          <6>1. /\ Lone(t)
                /\ \/ Onward(task[t], task'[t])
                   \/ \E pc \in {"consume", "create"} : Early(task[t], task'[t], pc)
            BY <2>1, <5>1, DecideFlow, PolicyFlow, ConsumeFlow
          <6> QED
            BY <6>1 DEF Onward, Early, Inherits
        <5>2. CASE TaskDone(t)
          <6>1. Inherits(task[t], Idle) /\ Idle.pc # "dispatch"
            BY DEF Inherits, Idle
          <6> QED
            BY <5>2, <6>1 DEF TaskDone, Lone, TypeInv, TypeOK
        <5> QED
          BY <1>2, <2>1, <2>3, <3>3, <5>1, <5>2, OnwardFlow DEF Onward
      <4> QED
        BY <2>1, <3>1, <4>1, SoftStep
    <3> QED
      BY <3>2, <3>3
  <2> QED
    BY <2>2, <2>3
<1>3. \A r \in Runs, k \in EffectTools : KeyInv(r, k)'
  BY <1>2, ElsewhereKey, NextCases
<1> QED
  BY <1>1, <1>3 DEF EffectInv

(* They hold before the first run is created.  *)
LEMMA EffectInit == Init => EffectInv
<1> SUFFICES ASSUME Init PROVE EffectInv
  OBVIOUS
<1>1. \A t \in Tasks : /\ task[t].pc = "idle" /\ task[t].active = "none"
                       /\ task[t].before = "none"
  BY DEF Init, Idle
<1>2. ASSUME NEW r \in Runs, NEW k \in EffectTools PROVE KeyInv(r, k)
  <2>1. k \in Keys
    BY DEF Keys, Tools
  <2>2. dispatched[r][k] = 0 /\ authorized[r][k] = 0 /\ step[r][k] = "none" /\ detached = {}
    BY <2>1 DEF Init, StoreInit
  <2>3. Launching(r, k) = {}
    BY <1>1 DEF Launching
  <2>4. IsFiniteSet(Launching(r, k)) /\ Spent(r, k) = 0
    BY <2>2, <2>3, FS_EmptySet DEF Spent
  <2> QED
    BY <1>1, <2>2, <2>4 DEF KeyInv, Rejected
<1> QED
  BY <1>1, <1>2 DEF EffectInv, HoldsOK

(* However pauses, cancellations, detached transactions, stops, losses and *)
(* recoveries interleave, with any number of tasks on the same run: an     *)
(* effectful call is started at most once more than the user asked for a   *)
(* retry of it.                                                            *)
THEOREM EffectsNotRepeated == Spec => []EffectOnce
<1>1. TypeInv /\ EffectInv => EffectOnce
  <2> SUFFICES ASSUME TypeInv, EffectInv, NEW r \in Runs, NEW k \in EffectTools
               PROVE  dispatched[r][k] <= 1 + authorized[r][k]
    BY DEF EffectOnce
  <2>1. KeyTypes(r, k) /\ KeyInv(r, k)
    BY KeyTyped DEF EffectInv
  <2>2. Cardinality(Launching(r, k)) \in Nat
    <3> HIDE DEF Launching
    <3> QED BY <2>1, FS_CardinalityType DEF KeyInv
  <2>3. dispatched[r][k] + Cardinality(Launching(r, k)) <= authorized[r][k] + 1
    <3> HIDE DEF Launching
    <3> QED BY <2>1, <2>2 DEF KeyInv, Spent, KeyTypes
  <2> QED
    <3> HIDE DEF Launching
    <3> QED BY <2>1, <2>2, <2>3 DEF KeyTypes
<1>2. Init => EffectInv
  BY EffectInit
<1>3. TypeInv /\ TypeInv' /\ EffectInv /\ [Next]_vars => EffectInv'
  BY EffectStep
<1> QED
  BY <1>1, <1>2, <1>3, TypeInvariant, PTL DEF Spec

-----------------------------------------------------------------------------
(* The record of an uncertain effect. *)

(* Only resume_interrupted takes a key out of uncertain.  *)
LEMMA UncertainStep ==
  ASSUME StoreTypeOK, StoreStep, NEW r \in Runs, NEW k \in Keys,
         step[r][k] = "uncertain", step'[r][k] # "uncertain"
  PROVE  status[r] = "interrupted" /\ status'[r] = "queued"
<1> USE DEF StoreTypeOK, stepVars, askVars, runVars, storeVars
<1>1. ASSUME NEW c \in Calls, WellFormed(c), Accepts(c), Commit(c) PROVE FALSE
  <2>0. c.run \in Runs /\ {"none", "running"} \subseteq StepStatuses
    BY DEF Calls, StepStatuses
  <2>1. CASE c.op = "create_step" /\ create_step(c)
    <3>1. c.key \in Keys
      BY <1>1, <2>1 DEF WellFormed
    <3>2. \/ step' = step
          \/ step[c.run][c.key] = "none" /\ step' = [step EXCEPT ![c.run][c.key] = "running"]
      BY <2>1 DEF create_step
    <3>3. CASE step' = [step EXCEPT ![c.run][c.key] = "running"] /\ step[c.run][c.key] = "none"
      <4>1. step'[r][k] = IF r = c.run /\ k = c.key THEN "running" ELSE step[r][k]
        BY <2>0, <3>1, <3>3
      <4> QED
        BY <3>3, <4>1
    <3> QED
      BY <3>2, <3>3
  <2>2. CASE c.op = "settle_step" /\ settle_step(c)
    <3>1. c.key \in Keys /\ c.to \in StepStatuses
      BY <1>1, <2>2 DEF WellFormed, StepStatuses
    <3>2. \/ step' = step
          \/ step[c.run][c.key] = "running" /\ step' = [step EXCEPT ![c.run][c.key] = c.to]
      <4> HIDE DEF StoreTypeOK
      <4> QED BY <2>2 DEF settle_step, StillRunning
    <3>3. CASE step' = [step EXCEPT ![c.run][c.key] = c.to] /\ step[c.run][c.key] = "running"
      <4>1. step'[r][k] = IF r = c.run /\ k = c.key THEN c.to ELSE step[r][k]
        BY <2>0, <3>1, <3>3, NestedUpdate
      <4> QED
        BY <3>3, <4>1
    <3> QED
      BY <3>2, <3>3
  <2>3. CASE c.op = "abandon_step_for_retry" /\ abandon_step_for_retry(c)
    <3>1. c.key \in Keys
      BY <1>1, <2>3 DEF WellFormed
    <3>2. step[c.run][c.key] = "running" /\ step' = [step EXCEPT ![c.run][c.key] = "none"]
      BY <1>1, <2>3 DEF abandon_step_for_retry, Accepts, StillRunning
    <3>3. step \in [Runs -> [Keys -> StepStatuses]] /\ "none" \in StepStatuses
      BY <2>0
    <3>4. step'[r][k] = IF r = c.run /\ k = c.key THEN "none" ELSE step[r][k]
      <4> HIDE DEF StoreTypeOK
      <4> QED BY <2>0, <3>1, <3>2, <3>3, NestedUpdate
    <3> QED
      BY <3>2, <3>4
  <2>4. CASE UNCHANGED step
    BY <2>4
  <2> QED
    BY <1>1, <2>1, <2>2, <2>3, <2>4 DEF Commit, transition, create_interaction,
       consume_single_use_leases
<1>2. CASE recover_interrupted
  BY <1>2 DEF recover_interrupted, Abandons
<1>3. ASSUME NEW s \in Runs, NEW resolution \in Resolutions, resume_interrupted(s, resolution)
      PROVE  status[r] = "interrupted" /\ status'[r] = "queued"
  BY <1>3 DEF resume_interrupted
<1>4. CASE UNCHANGED step
  BY <1>4
<1> QED
  BY <1>1, <1>2, <1>3, <1>4 DEF StoreStep, claim_next, suspend_queued_for_shutdown,
     expire_interactions, expire_leases, create_run, request_pause, request_cancel,
     respond_interaction

(* Whatever settlement comes late, whatever another task of the run does,  *)
(* and through every recovery: an uncertain effect stays on record until   *)
(* the user resumes the interrupted run.                                   *)
THEOREM UncertainStays == Spec => UncertainHeld
<1>1. ASSUME TypeInv, [Next]_vars, NEW r \in Runs, NEW k \in Keys,
             step[r][k] = "uncertain", step'[r][k] # "uncertain"
      PROVE  status[r] = "interrupted" /\ status'[r] = "queued"
  <2>1. StoreStep \/ UNCHANGED storeVars
    BY <1>1, NextIsStoreStep
  <2>2. StoreTypeOK
    BY <1>1 DEF TypeInv, TypeOK
  <2>3. ~UNCHANGED storeVars
    BY <1>1 DEF storeVars, stepVars
  <2> QED
    BY <1>1, <2>1, <2>2, <2>3, UncertainStep
<1>2. TypeInv /\ [Next]_vars =>
        [\A r \in Runs, k \in Keys :
           step[r][k] = "uncertain" /\ step'[r][k] # "uncertain" =>
             status[r] = "interrupted" /\ status'[r] = "queued"]_vars
  BY <1>1
<1> QED
  BY <1>2, TypeInvariant, PTL DEF Spec, UncertainHeld

-----------------------------------------------------------------------------
(* Approvals. *)

(* What any transaction leaves of a lease and of the approval behind it.   *)
GrantKept(l) ==
  LET r == l[1]
      k == l[2]
  IN  /\ interaction[r][k] = "approved" => /\ interaction'[r][k] = "approved"
                                           /\ lease'[r][k] = lease[r][k]
      /\ lease'[r][k] # "none" =>
           lease'[r][k] = lease[r][k] \/ interaction'[r][k] = "approved"
      /\ revoked[r][k] => revoked'[r][k]

(* No transaction issues a lease without an approval, changes the scope of *)
(* one that is issued, or makes a revoked one good again.                  *)
LEMMA GrantStore ==
  ASSUME StoreTypeOK, StoreStep \/ UNCHANGED storeVars, NEW l \in LeaseIds
  PROVE  GrantKept(l)
<1> DEFINE r == l[1]
           k == l[2]
<1>0. r \in Runs /\ k \in CapTools /\ k \in Requests
  BY DEF LeaseIds, Requests
<1>a. GrantKept(l) <=>
        /\ interaction[r][k] = "approved" => /\ interaction'[r][k] = "approved"
                                             /\ lease'[r][k] = lease[r][k]
        /\ lease'[r][k] # "none" =>
             lease'[r][k] = lease[r][k] \/ interaction'[r][k] = "approved"
        /\ revoked[r][k] => revoked'[r][k]
  BY DEF GrantKept
<1> HIDE DEF r, k
<1> USE <1>0, <1>a DEF StoreTypeOK, stepVars, askVars, runVars, storeVars
<1>1. ASSUME NEW c \in Calls, WellFormed(c), Commit(c) PROVE GrantKept(l)
  <2>0. c.run \in Runs
    BY DEF Calls
  <2>1. CASE c.op = "create_interaction" /\ create_interaction(c)
    <3>1. c.key \in Requests /\ "pending" \in InteractionStatuses
      BY <1>1, <2>1 DEF WellFormed, InteractionStatuses
    <3>2. /\ lease' = lease /\ revoked' = revoked
          /\ \/ interaction' = interaction
             \/ /\ interaction[c.run][c.key] = "none"
                /\ interaction' = [interaction EXCEPT ![c.run][c.key] = "pending"]
      BY <2>1 DEF create_interaction
    <3>3. CASE interaction[c.run][c.key] = "none"
               /\ interaction' = [interaction EXCEPT ![c.run][c.key] = "pending"]
      <4>1. interaction'[r][k] = IF r = c.run /\ k = c.key THEN "pending" ELSE interaction[r][k]
        BY <2>0, <3>1, <3>3, NestedUpdate
      <4> QED
        BY <3>2, <3>3, <4>1
    <3> QED
      BY <3>2, <3>3
  <2>2. CASE c.op = "consume_single_use_leases" /\ consume_single_use_leases(c)
    BY <2>2 DEF consume_single_use_leases
  <2>3. CASE UNCHANGED askVars
    BY <2>3
  <2> QED
    BY <1>1, <2>1, <2>2, <2>3 DEF Commit, transition, create_step, settle_step,
       abandon_step_for_retry
<1>2. ASSUME NEW s \in Runs, NEW q \in Requests, expire_interactions(s, q) PROVE GrantKept(l)
  <2>1. "expired" \in InteractionStatuses
    BY DEF InteractionStatuses
  <2>2. interaction'[r][k] = IF r = s /\ k = q THEN "expired" ELSE interaction[r][k]
    BY <1>2, <2>1, NestedUpdate DEF expire_interactions
  <2> QED
    BY <1>2, <2>2 DEF expire_interactions
<1>3. ASSUME NEW m \in LeaseIds, expire_leases(m) PROVE GrantKept(l)
  <2>1. /\ revoked' = [revoked EXCEPT ![m[1]][m[2]] = TRUE]
        /\ lease' = lease /\ interaction' = interaction
    BY <1>3 DEF expire_leases
  <2>2. m[1] \in Runs /\ m[2] \in CapTools /\ TRUE \in BOOLEAN
    BY DEF LeaseIds
  <2>3. revoked \in [Runs -> [CapTools -> BOOLEAN]]
    OBVIOUS
  <2>4. PICK x \in Runs, y \in CapTools : revoked' = [revoked EXCEPT ![x][y] = TRUE]
    BY <2>1, <2>2
  <2>5. revoked[r][k] => revoked'[r][k]
    <3> HIDE DEF StoreTypeOK
    <3>1. CASE r # x
      BY <1>0, <2>3, <2>4, <3>1
    <3>2. CASE r = x
      <4>1. revoked'[r] = [revoked[r] EXCEPT ![y] = TRUE] /\ revoked[r] \in [CapTools -> BOOLEAN]
        BY <1>0, <2>3, <2>4, <3>2
      <4> QED
        BY <1>0, <4>1
    <3> QED
      BY <3>1, <3>2
  <2> QED
    BY <2>1, <2>5
<1>4. ASSUME NEW s \in Runs, request_cancel(s) PROVE GrantKept(l)
  <2>1. lease' = lease /\ revoked' = revoked
    BY <1>4 DEF request_cancel
  <2> DEFINE row == [q \in Requests |-> IF interaction[s][q] = "pending" THEN "cancelled"
                                        ELSE interaction[s][q]]
  <2>2. interaction' = interaction \/ interaction' = [interaction EXCEPT ![s] = row]
    BY <1>4 DEF request_cancel
  <2>6. interaction \in [Runs -> [Requests -> InteractionStatuses]]
    OBVIOUS
  <2>3. row[k] = interaction[s][k] \/ interaction[s][k] = "pending"
    OBVIOUS
  <2>4. interaction'[r] = interaction[r] \/ (r = s /\ interaction'[r] = row)
    <3> HIDE DEF row, StoreTypeOK
    <3> QED BY <1>0, <2>2, <2>6
  <2>5. interaction'[r][k] = interaction[r][k] \/ interaction[r][k] = "pending"
    <3> HIDE DEF row
    <3> QED BY <2>3, <2>4
  <2> QED
    BY <2>1, <2>5
<1>5. ASSUME NEW s \in Runs, NEW q \in Requests, NEW a \in Answers(q), respond_interaction(s, q, a)
      PROVE  GrantKept(l)
  <2>1. Resolved(a) \in InteractionStatuses
    BY DEF Resolved, InteractionStatuses
  <2>2. interaction'[r][k] = IF r = s /\ k = q THEN Resolved(a) ELSE interaction[r][k]
    BY <1>5, <2>1, NestedUpdate DEF respond_interaction
  <2>3. lease'[r][k] = IF r = s /\ k = q /\ a \in Scopes THEN a ELSE lease[r][k]
    BY <1>5 DEF respond_interaction
  <2>4. interaction[s][q] = "pending" /\ revoked' = revoked
    BY <1>5 DEF respond_interaction
  <2>5. a \in Scopes => Resolved(a) = "approved"
    BY GrantAssumption DEF Resolved
  <2> QED
    BY <2>2, <2>3, <2>4, <2>5
<1>6. CASE UNCHANGED askVars
  BY <1>6
<1> QED
  BY <1>1, <1>2, <1>3, <1>4, <1>5, <1>6 DEF StoreStep, claim_next, suspend_queued_for_shutdown,
     recover_interrupted, create_run, request_pause, resume_interrupted

(* An issued lease stays issued, with its scope, and keeps what it backs.  *)
LEMMA LeaseStays ==
  ASSUME TypeInv, GrantInv, [Next]_vars, NEW l \in LeaseIds
  PROVE  /\ Issued(l)' => interaction'[l[1]][l[2]] = "approved"
         /\ Issued(l) => Issued(l)' /\ interaction'[l[1]][l[2]] = "approved"
                        /\ (SingleUse(l)' <=> SingleUse(l))
         /\ \A r, k : Issued(l) /\ Matches(l, r, k) => Matches(l, r, k)'
         /\ \A r, k : Backs(l, r, k) => Backs(l, r, k)'
<1>1. GrantKept(l)
  BY NextIsStoreStep, GrantStore DEF TypeInv, TypeOK
<1>2. Issued(l) => interaction[l[1]][l[2]] = "approved"
  BY DEF GrantInv
<1>3. /\ Issued(l)' => interaction'[l[1]][l[2]] = "approved"
      /\ Issued(l) => Issued(l)' /\ interaction'[l[1]][l[2]] = "approved"
                     /\ (SingleUse(l)' <=> SingleUse(l))
                     /\ lease'[l[1]][l[2]] = lease[l[1]][l[2]]
      /\ revoked[l[1]][l[2]] => revoked'[l[1]][l[2]]
  BY <1>1, <1>2 DEF GrantKept, Issued, SingleUse
<1>4. \A r, k : Issued(l) /\ Matches(l, r, k) => Matches(l, r, k)'
  BY <1>3 DEF Matches
<1>5. \A r, k : Backs(l, r, k) => Backs(l, r, k)'
  BY <1>3, <1>4 DEF Backs
<1> QED
  BY <1>3, <1>4, <1>5

(* Every step preserves the leases and approvals behind the calls.         *)
LEMMA GrantStep ==
  ASSUME TypeInv, EffectInv, GrantInv, [Next]_vars
  PROVE  GrantInv'
<1>0. \A l \in LeaseIds : Issued(l)' => interaction'[l[1]][l[2]] = "approved"
  BY LeaseStays
<1> SUFFICES ASSUME NEW r \in Runs, NEW k \in CapTools
             PROVE  /\ dispatched'[r][k] > 0 /\ "allow" \notin PolicyEffects[k] => Backed(r, k)'
                    /\ \A t \in Tasks : task'[t].run = r /\ task'[t].key = k =>
                         Covered(task[t], r, k)'
  BY <1>0 DEF GrantInv
<1> DEFINE Fits(f) == f.run = r /\ f.key = k => Covered(f, r, k)
           FitsNext(g) == g.run = r /\ g.key = k =>
             /\ g.pc = "consume" =>
                  g.leases # {} /\ \A l \in g.leases : Issued(l)' /\ Matches(l, r, k)'
             /\ g.pc \in {"create", "dispatch"} /\ "allow" \notin PolicyEffects[k] =>
                  Backed(r, k)'
<1>1. Backed(r, k) => Backed(r, k)'
  BY LeaseStays DEF Backed
<1>2. \A t \in Tasks : /\ task[t] \in Frames /\ FrameOK(task[t]) /\ HoldsOK(task[t])
                       /\ Fits(task[t])
  BY DEF TypeInv, TypeOK, EffectInv, GrantInv
<1>3. ASSUME NEW f \in Frames, Fits(f), NEW g,
             Same(f, g) \/ g.pc \notin {"consume", "create", "dispatch"}
      PROVE  FitsNext(g)
  <2>1. CASE Same(f, g)
    <3>1. f.leases \subseteq LeaseIds
      BY DEF Frames
    <3>2. \A l \in LeaseIds : Issued(l) /\ Matches(l, r, k) => Issued(l)' /\ Matches(l, r, k)'
      BY LeaseStays
    <3> QED
      BY <1>1, <1>3, <2>1, <3>1, <3>2 DEF Same, Covered
  <2>2. CASE g.pc \notin {"consume", "create", "dispatch"}
    BY <2>2
  <2> QED
    BY <1>3, <2>1, <2>2
<1>4. ASSUME NEW t \in Tasks, Body(t) \/ Cleanup(t)
      PROVE  Lone(t) /\ FitsNext(task'[t])
  <2> DEFINE f == task[t]
             g == task'[t]
  <2>1. f \in Frames /\ FrameOK(f) /\ HoldsOK(f) /\ Fits(f)
    BY <1>2
  <2>2. CASE Lone(t) /\ Onward(f, g)
    BY <2>2 DEF Onward
  <2>3. CASE Decide(t)
    BY <2>1, <2>2, <2>3, DecideFlow DEF Early
  <2>4. CASE Policy(t)
    <3>1. CASE /\ Early(f, g, "consume") /\ g.key = f.key /\ Lone(t)
               /\ g.leases = active_leases_for_run(f.run, f.key) /\ g.leases # {}
      <4>1. g.pc = "consume" /\ g.run = f.run
        BY <3>1 DEF Early
      <4>2. ASSUME g.run = r, g.key = k, NEW l \in g.leases
            PROVE  Issued(l)' /\ Matches(l, r, k)'
        <5>1. l \in LeaseIds /\ Issued(l) /\ Matches(l, r, k)
          BY <3>1, <4>1, <4>2 DEF active_leases_for_run, Live
        <5> QED
          BY <5>1, LeaseStays
      <4> QED
        BY <3>1, <4>1, <4>2
    <3>2. CASE /\ Early(f, g, "create") /\ g.key = f.key /\ Lone(t)
               /\ "allow" \in PolicyEffects[f.key]
      BY <3>2 DEF Early
    <3> QED
      BY <2>1, <2>2, <2>4, <3>1, <3>2, PolicyFlow
  <2>5. CASE Consume(t)
    <3> DEFINE c == CallOf(f)
    <3>1. /\ Lone(t) /\ Early(f, g, "create") /\ g.key = f.key
          /\ consume_single_use_leases(c) /\ c.leases = f.leases
      BY <2>1, <2>5, ConsumeFlow
    <3>2. f.pc = "consume"
      BY <2>5 DEF Consume, Await, Proceeds
    <3> HIDE DEF c
    <3>3. ASSUME g.run = r, g.key = k PROVE Backed(r, k)'
      <4>1. f.run = r /\ f.key = k
        BY <3>1, <3>3 DEF Early
      <4>2. PICK l \in f.leases : Issued(l) /\ Matches(l, r, k)
        BY <2>1, <3>2, <4>1 DEF Covered
      <4>3. l \in LeaseIds /\ l = <<l[1], l[2]>> /\ l[1] \in Runs /\ l[2] \in CapTools
        BY <2>1 DEF Frames, LeaseIds
      <4>4. SingleUse(l) => revoked'[l[1]][l[2]]
        BY <3>1, <4>2, <4>3 DEF consume_single_use_leases
      <4>5. Backs(l, r, k)'
        BY <4>2, <4>3, <4>4, LeaseStays DEF Backs
      <4> QED
        BY <4>3, <4>5 DEF Backed
    <3> QED
      BY <3>1, <3>3 DEF Early
  <2>6. CASE CreateStep(t)
    <3>1. /\ Lone(t) /\ f.pc = "create" /\ g.run = f.run /\ g.key = f.key
          /\ g.pc # "consume"
      BY <2>1, <2>6, CreateFlow DEF Replayed
    <3> QED
      BY <1>1, <2>1, <3>1 DEF Covered
  <2>7. CASE RejectStep(t)
    BY <2>1, <2>2, <2>7, RejectFlow
  <2>8. CASE TaskDone(t)
    <3>1. Idle.pc = "idle"
      BY DEF Idle
    <3>2. Lone(t) /\ g = Idle
      BY <2>8 DEF TaskDone, Lone, TypeInv, TypeOK
    <3> QED
      BY <3>1, <3>2
  <2> QED
    BY <1>4, <2>1, <2>2, <2>3, <2>4, <2>5, <2>6, <2>7, <2>8, OnwardFlow
<1>5. \A t \in Tasks : FitsNext(task'[t])
  <2> HIDE DEF Fits, FitsNext
  <2>1. CASE Elsewhere
    <3>1. \A t \in Tasks : Same(task[t], task'[t])
                           \/ task'[t].pc \notin {"consume", "create", "dispatch"}
      BY <2>1, ElsewhereFlow DEF Blank
    <3> QED
      BY <1>2, <1>3, <3>1
  <2>2. ASSUME NEW t \in Tasks, Body(t) \/ Cleanup(t), NEW u \in Tasks
        PROVE  FitsNext(task'[u])
    <3>1. CASE u = t
      BY <1>4, <2>2, <3>1
    <3>2. CASE u # t
      <4>1. task'[u] = task[u] /\ Same(task[u], task[u])
        BY <1>4, <2>2, <3>2 DEF Lone, Same
      <4> QED
        BY <1>2, <1>3, <4>1
    <3> QED
      BY <3>1, <3>2
  <2> QED
    BY <2>1, <2>2, NextCases
<1>6. ASSUME "allow" \notin PolicyEffects[k], dispatched'[r][k] > 0
      PROVE  Backed(r, k)'
  <2>1. CASE dispatched' = dispatched
    BY <1>1, <1>6, <2>1 DEF GrantInv
  <2>2. ASSUME NEW t \in Tasks, Dispatch(t) PROVE Backed(r, k)'
    <3> DEFINE f == task[t]
    <3>1. /\ f.pc = "dispatch" /\ f.run \in Runs /\ f.key \in Keys /\ k \in Keys
          /\ dispatched' = [dispatched EXCEPT ![f.run][f.key] = @ + 1]
      BY <2>2, KeysAssumption DEF Dispatch, Proceeds, TypeInv, FrameOK, Keys
    <3>2. (f.run = r /\ f.key = k) \/ dispatched'[r][k] = dispatched[r][k]
      BY <3>1 DEF TypeInv, TypeOK
    <3>3. Backed(r, k)
      BY <1>2, <1>6, <3>1, <3>2 DEF GrantInv, Covered
    <3> QED
      BY <1>1, <3>3
  <2>3. CASE Elsewhere
    <3>1. dispatched' = dispatched
      BY <2>3 DEF Elsewhere, DetachedCommit, Dispatcher, Claim, Spawn, Clock, ExpireInteraction,
         ExpireLease, DeadlinePasses, Api, CreateRun, PauseRequest, CancelRequest, Kick, Resume,
         Respond, Process, LateClaim, StopBegin, StopSuspend, StopCancel, CloseLoop, StopFinish,
         ProcessLoss, Restart, vars
    <3> QED
      BY <2>1, <3>1
  <2> QED
    BY <2>1, <2>2, <2>3, TaskWrites, NextCases
<1> QED
  BY <1>5, <1>6 DEF Covered

(* Where no policy allows it outright, a tool that needs a capability is   *)
(* started only under a lease of the user's that covers the run and the    *)
(* call and that is spent by then if it was for one use, whichever call it *)
(* was approved for: through leases that expire while the call is on its   *)
(* way, pauses, restarts and several tasks of the run, for any scopes and  *)
(* any selectors.                                                          *)
THEOREM CallsAuthorized == Spec => []Authority
<1>1. TypeInv /\ GrantInv => Authority
  BY DEF GrantInv, Authority, Backed
<1>2. Init => GrantInv
  <2> SUFFICES ASSUME Init PROVE GrantInv
    OBVIOUS
  <2>1. \A t \in Tasks : task[t].pc = "idle"
    BY DEF Init, Idle
  <2>2. \A r \in Runs, k \in CapTools : lease[r][k] = "none" /\ dispatched[r][k] = 0
    BY KeysAssumption DEF Init, StoreInit, Keys
  <2>3. \A l \in LeaseIds : ~Issued(l)
    BY <2>2 DEF LeaseIds, Issued
  <2>4. \A t \in Tasks, r \in Runs, k \in CapTools : Covered(task[t], r, k)
    BY <2>1 DEF Covered
  <2>5. \A r \in Runs, k \in CapTools : ~(dispatched[r][k] > 0)
    BY <2>2
  <2> QED
    BY <2>3, <2>4, <2>5 DEF GrantInv
<1>3. TypeInv /\ EffectInv /\ GrantInv /\ [Next]_vars => GrantInv'
  BY GrantStep
<1>4. TypeInv /\ TypeInv' /\ EffectInv /\ [Next]_vars => EffectInv'
  BY EffectStep
<1> QED
  BY <1>1, <1>2, <1>3, <1>4, EffectInit, TypeInvariant, PTL DEF Spec

-----------------------------------------------------------------------------
(* Who drives a run. *)

(* An idle task takes no step and a finished one only ends.  *)
LEMMA NotIdle ==
  ASSUME NEW t \in Tasks, Body(t) \/ Cleanup(t)
  PROVE  task[t].pc # "idle" /\ (task[t].pc = "done" => TaskDone(t))
<1>2. CASE TaskDone(t) \/ CancelTask(t)
  BY <1>2 DEF TaskDone, CancelTask
<1>3. CASE Start(t) \/ Complete(t) \/ Requeue(t) \/ Interrupt(t) \/ FailWrite(t)
           \/ Ask(t) \/ AskGrant(t) \/ Consume(t) \/ StopStep(t) \/ StopMove(t)
  BY <1>3 DEF Start, Complete, Requeue, Interrupt, FailWrite, Ask, AskGrant, Consume,
     StopStep, StopMove, Await, Proceeds
<1>4. CASE Snapshot(t) \/ Decide(t) \/ DeadlineTimeout(t) \/ FailRead(t) \/ Policy(t)
           \/ CreateStep(t) \/ RejectStep(t) \/ Dispatch(t) \/ Return(t) \/ Settle(t) \/ StopRead(t)
  BY <1>4 DEF Snapshot, Decide, DeadlineTimeout, FailRead, Policy, CreateStep, RejectStep,
     Dispatch, Return, Settle, StopRead, Local, Proceeds
<1> QED
  BY <1>2, <1>3, <1>4 DEF Body, Cleanup

(* Only a task that handles an exception is in an except block.  *)
Handles(f, g) ==
  /\ g.handling => f.handling \/ g.pc \in Handlers
  /\ g.handling => g.pc # "done"

(* Going on enters no except block.  *)
LEMMA AtHandles ==
  ASSUME NEW f \in Frames, NEW pc
  PROVE  Handles(f, At(f, pc))
<1>1. CASE pc = "done"
  BY <1>1 DEF At, Idle, Handles
<1>2. CASE pc # "done"
  <2>1. At(f, pc) = [f EXCEPT !.pc = pc, !.before = f.active, !.leases = {}]
    BY <1>2 DEF At
  <2> QED
    BY <1>2, <2>1 DEF Frames, Handles
<1> QED
  BY <1>1, <1>2

(* Raising enters the one of _fail or ends the task.  *)
LEMMA RaiseHandles ==
  ASSUME TypeInv, NEW t \in Tasks, Raise(t)
  PROVE  Handles(task[t], task'[t]) /\ task'[t].pc \in {"done", "fail_read"}
<1> DEFINE f == task[t]
           e == At(f, "fail_read")
           g == [e EXCEPT !.handling = TRUE]
<1>1. task \in [Tasks -> Frames] /\ f \in Frames
  BY DEF TypeInv, TypeOK
<1>2. e = [f EXCEPT !.pc = "fail_read", !.before = f.active, !.leases = {}]
  BY DEF At
<1>3. g.pc = "fail_read"
  <2> HIDE DEF f
  <2> QED BY <1>1, <1>2 DEF Frames
<1>4. task' = [task EXCEPT ![t] = At(f, "done")] \/ task' = [task EXCEPT ![t] = g]
  BY DEF Raise
<1>5. Handles(f, At(f, "done")) /\ At(f, "done").pc = "done"
  BY <1>1, AtHandles, AtShape
<1> HIDE DEF g
<1>6. Handles(f, g)
  BY <1>3 DEF Handles, Handlers
<1> QED
  BY <1>1, <1>3, <1>4, <1>5, <1>6

(* Awaiting stays in the block the task is in.  *)
LEMMA AwaitHandles ==
  ASSUME TypeInv, NEW t \in Tasks, task[t].handling => task[t].pc \in Handlers,
         NEW pc, NEW next, pc \in Handlers => next \in Handlers \cup {"done"}, Await(t, pc, next)
  PROVE  task'[t].handling => task'[t].pc \in Handlers
<1>1. task \in [Tasks -> Frames] /\ task[t] \in Frames /\ task[t].pc = pc
  BY DEF TypeInv, TypeOK, Await, Proceeds
<1>2. CASE Raise(t)
  BY <1>2, RaiseHandles DEF Handles, Handlers
<1>3. CASE Goto(t, next)
  <2>1. task'[t] = At(task[t], next)
    BY <1>1, <1>3 DEF Goto
  <2>2. Handles(task[t], task'[t]) /\ task'[t].pc = next
    BY <1>1, <2>1, AtHandles, AtShape
  <2> QED
    BY <1>1, <2>2 DEF Handles
<1> QED
  BY <1>2, <1>3 DEF Await

(* A task that handles an exception stays in the handler.  *)
LEMMA HandlesStep ==
  ASSUME TypeInv, NEW t \in Tasks, task[t].handling => task[t].pc \in Handlers,
         Body(t) \/ Cleanup(t)
  PROVE  task'[t].handling => task'[t].pc \in Handlers
<1> DEFINE f == task[t]
<1>0. task \in [Tasks -> Frames] /\ f \in Frames
  BY DEF TypeInv, TypeOK
<1>1. CASE Start(t) \/ Complete(t) \/ Requeue(t) \/ Interrupt(t) \/ FailWrite(t)
           \/ Ask(t) \/ AskGrant(t) \/ Consume(t)
  BY <1>1, AwaitHandles DEF Start, Complete, Requeue, Interrupt, FailWrite, Ask, AskGrant,
     Consume, Handlers
<1>2. CASE StopStep(t) \/ StopMove(t)
  <2>1. StopNext(f.seen) \in {"done", "stop_move"}
    BY DEF StopNext
  <2> QED
    BY <1>2, <2>1, AwaitHandles DEF StopStep, StopMove, Handlers
<1>3. ASSUME NEW pc, Goto(t, pc), f.pc \notin Handlers \/ pc \in Handlers \cup {"done"}
      PROVE  task'[t].handling => task'[t].pc \in Handlers
  <2>1. task'[t] = At(f, pc)
    BY <1>0, <1>3 DEF Goto
  <2>2. Handles(f, task'[t]) /\ task'[t].pc = pc
    BY <1>0, <2>1, AtHandles, AtShape
  <2> QED
    BY <1>3, <2>2 DEF Handles
<1>4. CASE Policy(t) \/ Dispatch(t)
  <2>1. CASE ~\E L : task' = [task EXCEPT ![t] = [At(@, "consume") EXCEPT !.leases = L]]
    BY <1>3, <1>4, <2>1 DEF Policy, Dispatch, Local, Proceeds, Handlers
  <2>2. CASE \E L : task' = [task EXCEPT ![t] = [At(@, "consume") EXCEPT !.leases = L]]
    <3>1. PICK L : task' = [task EXCEPT ![t] = [At(@, "consume") EXCEPT !.leases = L]]
      BY <2>2
    <3>2. f.pc \notin Handlers
      BY <1>4 DEF Policy, Dispatch, Local, Proceeds, Handlers
    <3> DEFINE e == At(f, "consume")
               g == [e EXCEPT !.leases = L]
    <3>3. e = [f EXCEPT !.pc = "consume", !.before = f.active, !.leases = {}]
      BY DEF At
    <3>4. g.handling = f.handling
      <4> HIDE DEF f
      <4> QED BY <1>0, <3>3 DEF Frames
    <3>5. task'[t] = g
      BY <1>0, <3>1
    <3> HIDE DEF g
    <3> QED
      BY <3>2, <3>4, <3>5
  <2> QED
    BY <2>1, <2>2
<1>5. CASE DeadlineTimeout(t)
  BY <1>5, RaiseHandles DEF DeadlineTimeout, Handles, Handlers
<1>6. CASE Snapshot(t)
  <2> DEFINE g == [f EXCEPT !.pc = IF expired[f.run] THEN "fail_read" ELSE "execute",
                            !.budget = current_step[f.run] < MaxSteps]
  <2>1. task'[t] = g /\ f.pc \notin Handlers
    BY <1>0, <1>6 DEF Snapshot, Local, Proceeds, Handlers
  <2>2. g.handling => f.handling
    BY <1>0 DEF Frames
  <2> QED
    BY <2>1, <2>2
<1>7. CASE Decide(t)
  <2>1. f.pc \notin Handlers
    BY <1>7 DEF Decide, Local, Proceeds, Handlers
  <2>2. PICK pc, k : \/ task' = [task EXCEPT ![t] = [f EXCEPT !.pc = pc, !.key = k, !.budget = TRUE]]
                    \/ task' = [task EXCEPT ![t] = [f EXCEPT !.pc = pc, !.budget = TRUE]]
    BY <1>7 DEF Decide
  <2> DEFINE g == [f EXCEPT !.pc = pc, !.key = k, !.budget = TRUE]
             h == [f EXCEPT !.pc = pc, !.budget = TRUE]
  <2>3. (g.handling => f.handling) /\ (h.handling => f.handling)
    <3> HIDE DEF f
    <3> QED BY <1>0 DEF Frames
  <2>4. task' = [task EXCEPT ![t] = g] \/ task' = [task EXCEPT ![t] = h]
    BY <2>2
  <2> HIDE DEF g, h
  <2> QED
    BY <1>0, <2>1, <2>3, <2>4
<1>8. CASE CreateStep(t)
  <2>1. f.pc \notin Handlers
    BY <1>8 DEF CreateStep, Proceeds, Handlers
  <2>2. \E pc, a, h : task' = [task EXCEPT ![t] =
             [f EXCEPT !.pc = pc, !.attempt = a, !.before = f.active, !.active = h]]
    BY <1>8 DEF CreateStep
  <2>3. task'[t].handling => f.handling
    <3> HIDE DEF f
    <3> QED BY <1>0, <2>2 DEF Frames
  <2> QED
    BY <2>1, <2>3
<1>9. CASE RejectStep(t)
  <2>1. f.pc \notin Handlers
    BY <1>9 DEF RejectStep, Proceeds, Handlers
  <2>2. \/ \E next, a : task' = [task EXCEPT ![t] =
             [f EXCEPT !.pc = "settle", !.outcome = "failed", !.next = next,
                       !.attempt = a, !.before = f.active, !.active = "pure"]]
        \/ \E pc : Goto(t, pc)
    BY <1>9 DEF RejectStep
  <2>3. CASE \E pc : Goto(t, pc)
    BY <1>3, <2>1, <2>3
  <2>4. CASE ~\E pc : Goto(t, pc)
    <3>1. PICK next, a : task' = [task EXCEPT ![t] =
             [f EXCEPT !.pc = "settle", !.outcome = "failed", !.next = next,
                       !.attempt = a, !.before = f.active, !.active = "pure"]]
      BY <2>2, <2>4
    <3> DEFINE g == [f EXCEPT !.pc = "settle", !.outcome = "failed", !.next = next,
                              !.attempt = a, !.before = f.active, !.active = "pure"]
    <3>2. g.handling => f.handling
      <4> HIDE DEF f
      <4> QED BY <1>0 DEF Frames
    <3>3. task' = [task EXCEPT ![t] = g]
      BY <3>1
    <3> HIDE DEF g
    <3> QED
      BY <1>0, <2>1, <3>2, <3>3
  <2> QED
    BY <2>3, <2>4
<1>10. CASE Return(t)
  <2>1. f.pc \notin Handlers
    BY <1>10 DEF Return, Local, Proceeds, Handlers
  <2>2. \/ \E o, next : task' = [task EXCEPT ![t] =
             [f EXCEPT !.pc = "settle", !.outcome = o, !.next = next, !.before = f.active]]
        \/ Raise(t)
    BY <1>10 DEF Return
  <2>3. CASE Raise(t)
    BY <2>3, RaiseHandles DEF Handles, Handlers
  <2>4. CASE ~Raise(t)
    <3>1. PICK o, next : task' = [task EXCEPT ![t] =
             [f EXCEPT !.pc = "settle", !.outcome = o, !.next = next, !.before = f.active]]
      BY <2>2, <2>4
    <3> DEFINE g == [f EXCEPT !.pc = "settle", !.outcome = o, !.next = next, !.before = f.active]
    <3>2. g.handling => f.handling
      <4> HIDE DEF f
      <4> QED BY <1>0 DEF Frames
    <3>3. task' = [task EXCEPT ![t] = g]
      BY <3>1
    <3> HIDE DEF g
    <3> QED
      BY <1>0, <2>1, <3>2, <3>3
  <2> QED
    BY <2>3, <2>4
<1>11. CASE Settle(t)
  <2>1. f.pc \notin Handlers /\ f.next \in {"requeue", "fail_read"}
    BY <1>11 DEF Settle, Proceeds, Handlers, TypeInv, FrameOK
  <2>2. At(f, f.next) = [f EXCEPT !.pc = f.next, !.before = f.active, !.leases = {}]
    BY <2>1 DEF At
  <2>3. \E a : task' = [task EXCEPT ![t] =
             [At(f, f.next) EXCEPT !.outcome = "completed", !.next = "idle", !.active = a]]
    BY <1>11 DEF Settle
  <2>4. task'[t].handling => f.handling
    <3> HIDE DEF f
    <3> QED BY <1>0, <2>2, <2>3 DEF Frames
  <2> QED
    BY <2>1, <2>4
<1>12. CASE FailRead(t)
  <2>1. \/ \E x : task' = [task EXCEPT ![t] = [f EXCEPT !.pc = "fail_write", !.seen = x]]
        \/ Goto(t, "done")
    BY <1>12 DEF FailRead, Goto
  <2>2. CASE Goto(t, "done")
    BY <1>3, <2>2
  <2>3. CASE ~Goto(t, "done")
    <3>1. PICK x : task' = [task EXCEPT ![t] = [f EXCEPT !.pc = "fail_write", !.seen = x]]
      BY <2>1, <2>3
    <3> DEFINE g == [f EXCEPT !.pc = "fail_write", !.seen = x]
    <3>2. g.pc = "fail_write"
      <4> HIDE DEF f
      <4> QED BY <1>0 DEF Frames
    <3>3. task' = [task EXCEPT ![t] = g]
      BY <3>1
    <3> HIDE DEF g
    <3> QED
      BY <1>0, <3>2, <3>3 DEF Handlers
  <2> QED
    BY <2>2, <2>3
<1>13. CASE StopRead(t)
  <2>1. \/ \E x : task' = [task EXCEPT ![t] = [f EXCEPT !.pc = "stop_step", !.seen = x]]
        \/ \E x : Goto(t, StopNext(x))
    BY <1>13 DEF StopRead
  <2>2. CASE \E x : Goto(t, StopNext(x))
    BY <1>3, <2>2 DEF StopNext, Handlers
  <2>3. CASE ~\E x : Goto(t, StopNext(x))
    <3>1. PICK x : task' = [task EXCEPT ![t] = [f EXCEPT !.pc = "stop_step", !.seen = x]]
      BY <2>1, <2>3
    <3> DEFINE g == [f EXCEPT !.pc = "stop_step", !.seen = x]
    <3>2. g.pc = "stop_step"
      <4> HIDE DEF f
      <4> QED BY <1>0 DEF Frames
    <3>3. task' = [task EXCEPT ![t] = g]
      BY <3>1
    <3> HIDE DEF g
    <3> QED
      BY <1>0, <3>2, <3>3 DEF Handlers
  <2> QED
    BY <2>2, <2>3
<1>14. CASE CancelTask(t)
  <2>1. \/ Goto(t, "done")
        \/ \E a : task' = [task EXCEPT ![t] = [f EXCEPT !.pc = "stop_read", !.handling = TRUE,
                                  !.leases = {}, !.cancelled = FALSE, !.active = a]]
        \/ task' = [task EXCEPT ![t] = [f EXCEPT !.pc = "stop_read", !.handling = TRUE,
                                  !.leases = {}, !.cancelled = FALSE]]
    BY <1>14 DEF CancelTask
  <2>2. CASE Goto(t, "done")
    BY <1>3, <2>2
  <2>3. CASE ~Goto(t, "done")
    <3>1. PICK a :
            \/ task' = [task EXCEPT ![t] = [f EXCEPT !.pc = "stop_read", !.handling = TRUE,
                                  !.leases = {}, !.cancelled = FALSE, !.active = a]]
            \/ task' = [task EXCEPT ![t] = [f EXCEPT !.pc = "stop_read", !.handling = TRUE,
                                  !.leases = {}, !.cancelled = FALSE]]
      BY <2>1, <2>3
    <3> DEFINE g == [f EXCEPT !.pc = "stop_read", !.handling = TRUE, !.leases = {},
                              !.cancelled = FALSE, !.active = a]
               h == [f EXCEPT !.pc = "stop_read", !.handling = TRUE, !.leases = {},
                              !.cancelled = FALSE]
    <3>2. g.pc = "stop_read" /\ h.pc = "stop_read"
      <4> HIDE DEF f
      <4> QED BY <1>0 DEF Frames
    <3>3. task' = [task EXCEPT ![t] = g] \/ task' = [task EXCEPT ![t] = h]
      BY <3>1
    <3> HIDE DEF g, h
    <3> QED
      BY <1>0, <3>2, <3>3 DEF Handlers
  <2> QED
    BY <2>2, <2>3
<1>15. CASE TaskDone(t)
  BY <1>0, <1>15 DEF TaskDone, Idle
<1> QED
  BY <1>1, <1>2, <1>4, <1>5, <1>6, <1>7, <1>8, <1>9, <1>10, <1>11, <1>12, <1>13, <1>14, <1>15
  DEF Body, Cleanup

(* A run that asked its user something never stops having done so.  *)
LEMMA AskedStays ==
  ASSUME StoreTypeOK, StoreStep \/ UNCHANGED storeVars, NEW r \in Runs, Unasked(r)'
  PROVE  Unasked(r)
<1> SUFFICES ASSUME NEW p \in Requests PROVE interaction[r][p] = "none"
  BY DEF Unasked
<1>0. interaction'[r][p] = "none"
  BY DEF Unasked
<1> USE DEF StoreTypeOK, stepVars, askVars, runVars, storeVars
<1>1. CASE interaction' = interaction
  BY <1>0, <1>1
<1>2. ASSUME NEW s \in Runs, NEW q \in Requests, NEW v \in InteractionStatuses \ {"none"},
             interaction' = [interaction EXCEPT ![s][q] = v]
      PROVE  interaction[r][p] = "none"
  BY <1>0, <1>2
<1>3. ASSUME NEW c \in Calls, WellFormed(c), Commit(c) PROVE interaction[r][p] = "none"
  <2>1. CASE c.op = "create_interaction" /\ create_interaction(c)
    <3>1. /\ c.run \in Runs /\ c.key \in Requests
          /\ "pending" \in InteractionStatuses \ {"none"}
      BY <1>3, <2>1 DEF WellFormed, InteractionStatuses, Calls
    <3>2. \/ interaction' = interaction
          \/ interaction' = [interaction EXCEPT ![c.run][c.key] = "pending"]
      BY <2>1 DEF create_interaction
    <3> QED
      BY <1>1, <1>2, <3>1, <3>2
  <2> QED
    BY <1>1, <1>3, <2>1 DEF Commit, transition, create_step, settle_step,
       abandon_step_for_retry, consume_single_use_leases
<1>4. ASSUME NEW s \in Runs, NEW q \in Requests, expire_interactions(s, q)
      PROVE  interaction[r][p] = "none"
  <2>1. "expired" \in InteractionStatuses \ {"none"}
    BY DEF InteractionStatuses
  <2> QED
    BY <1>2, <1>4, <2>1 DEF expire_interactions
<1>5. ASSUME NEW s \in Runs, request_cancel(s) PROVE interaction[r][p] = "none"
  <2> DEFINE row == [q \in Requests |-> IF interaction[s][q] = "pending" THEN "cancelled"
                                        ELSE interaction[s][q]]
  <2>1. interaction' = interaction \/ interaction' = [interaction EXCEPT ![s] = row]
    BY <1>5 DEF request_cancel
  <2>2. row[p] = "none" => interaction[s][p] = "none"
    OBVIOUS
  <2>3. CASE interaction' = [interaction EXCEPT ![s] = row]
    <3>1. interaction'[r] = IF r = s THEN row ELSE interaction[r]
      BY <2>3
    <3> HIDE DEF row
    <3> QED
      BY <1>0, <2>2, <3>1
  <2> HIDE DEF row
  <2> QED
    BY <1>1, <2>1, <2>3
<1>6. ASSUME NEW s \in Runs, NEW q \in Requests, NEW a \in Answers(q), respond_interaction(s, q, a)
      PROVE  interaction[r][p] = "none"
  <2>1. Resolved(a) \in InteractionStatuses \ {"none"}
    BY DEF Resolved, InteractionStatuses
  <2> QED
    BY <1>2, <1>6, <2>1 DEF respond_interaction
<1>7. CASE claim_next \/ suspend_queued_for_shutdown \/ recover_interrupted
  BY <1>1, <1>7 DEF claim_next, suspend_queued_for_shutdown, recover_interrupted
<1>8. ASSUME NEW s \in Runs, create_run(s) \/ request_pause(s) \/
             (\E l \in LeaseIds : expire_leases(l))
             \/ \E resolution \in Resolutions : resume_interrupted(s, resolution)
      PROVE  interaction[r][p] = "none"
  BY <1>1, <1>8 DEF create_run, request_pause, resume_interrupted, expire_leases
<1>9. CASE UNCHANGED <<status, error, current_step, stepVars, askVars>> \/ UNCHANGED storeVars
  BY <1>1, <1>9
<1> QED
  BY <1>3, <1>4, <1>5, <1>6, <1>7, <1>8, <1>9 DEF StoreStep

(* The transition a task awaits when the run has the status it counts on.  *)
LEMMA MoveCalm ==
  ASSUME TypeInv, NEW t \in Tasks, NEW pc, NEW next, Await(t, pc, next),
         NEW c, c = CallOf(task[t]), c.op = "transition",
         NEW r \in Runs, c.run = r, status[r] \in c.expected, NEW to, c.to = to,
         Allowed(status[r], to)
  PROVE  /\ status' = [status EXCEPT ![r] = to]
         /\ task'[t].pc = next
<1>1. Accepts(c)
  BY DEF Accepts
<1>2. transition(c) /\ Goto(t, next)
  BY <1>1 DEF Await, Transact, Commit
<1>3. task \in [Tasks -> Frames] /\ task[t] \in Frames
  BY DEF TypeInv, TypeOK
<1>4. task'[t] = At(task[t], next)
  BY <1>2, <1>3 DEF Goto
<1> QED
  BY <1>2, <1>3, <1>4, AtShape DEF transition

(* A run that asks has asked.  *)
LEMMA AskCalm ==
  ASSUME TypeInv, NEW t \in Tasks, Ask(t) \/ AskGrant(t),
         NEW r \in Runs, task[t].run = r, Unasked(r)
  PROVE  ~Unasked(r)'
<1> DEFINE c == CallOf(task[t])
<1>1. /\ task[t] \in Frames /\ FrameOK(task[t]) /\ task[t].pc \in {"ask", "ask_grant"}
      /\ Transact(c)
  BY DEF TypeInv, TypeOK, Ask, AskGrant, Await, Proceeds
<1>2. c = StepCall(task[t], "create_interaction", "none")
  BY <1>1 DEF CallOf
<1>3. /\ c.op = "create_interaction" /\ c.run = task[t].run /\ c.key = task[t].key
      /\ c.run \in Runs /\ c.key \in Requests
  BY <1>1, <1>2 DEF StepCall, FrameOK, Requests
<1> HIDE DEF c
<1>4. interaction[c.run][c.key] = "none" /\ Pending(c.run) = {}
  BY <1>3 DEF Unasked, Pending
<1>5. Accepts(c)
  BY <1>3, <1>4 DEF Accepts
<1>6. create_interaction(c)
  BY <1>1, <1>3, <1>5 DEF Transact, Commit
<1>7. interaction'[c.run][c.key] = "pending"
  BY <1>3, <1>4, <1>6 DEF create_interaction, TypeInv, TypeOK, StoreTypeOK
<1> QED
  BY <1>3, <1>7 DEF Unasked

(* Where a task whose run is running goes on to when it submits no         *)
(* transition and asks nothing: it does not end.                           *)
LEMMA CalmFrame ==
  ASSUME TypeInv, NEW t \in Tasks, HoldsOK(task[t]), ~task[t].cancelled,
         task[t].handling => task[t].pc \in Handlers,
         status[task[t].run] = "running",
         \/ Snapshot(t) \/ Decide(t) \/ DeadlineTimeout(t) \/ FailRead(t) \/ Policy(t)
         \/ Consume(t) \/ CreateStep(t) \/ RejectStep(t) \/ Dispatch(t) \/ Return(t) \/ Settle(t)
  PROVE  task'[t].pc \notin {"done", "start"}
<1> DEFINE f == task[t]
<1>0. task \in [Tasks -> Frames] /\ f \in Frames
  BY DEF TypeInv, TypeOK
<1>1. ASSUME NEW pc, Goto(t, pc), pc \notin {"done", "start"}
      PROVE  task'[t].pc \notin {"done", "start"}
  <2>1. task'[t] = At(f, pc)
    BY <1>0, <1>1 DEF Goto
  <2> QED
    BY <1>0, <1>1, <2>1, AtShape
<1>2. ASSUME Raise(t), ~f.handling PROVE task'[t].pc \notin {"done", "start"}
  <2> DEFINE e == At(f, "fail_read")
             g == [e EXCEPT !.handling = TRUE]
  <2>1. e = [f EXCEPT !.pc = "fail_read", !.before = f.active, !.leases = {}]
    BY DEF At
  <2>2. g.pc = "fail_read"
    <3> HIDE DEF f
    <3> QED BY <1>0, <2>1 DEF Frames
  <2>3. task' = [task EXCEPT ![t] = g]
    BY <1>2 DEF Raise
  <2> HIDE DEF g
  <2> QED
    BY <1>0, <2>2, <2>3
<1>3a. CASE Policy(t)
  <2>1. \/ \E pc \in {"create", "fail_read", "ask_grant"} : Goto(t, pc)
        \/ \E L : task' = [task EXCEPT ![t] = [At(@, "consume") EXCEPT !.leases = L]]
    BY <1>3a DEF Policy
  <2>2. CASE \E L : task' = [task EXCEPT ![t] = [At(@, "consume") EXCEPT !.leases = L]]
    <3>1. PICK L : task' = [task EXCEPT ![t] = [At(@, "consume") EXCEPT !.leases = L]]
      BY <2>2
    <3> DEFINE e == At(f, "consume")
               g == [e EXCEPT !.leases = L]
    <3>2. e = [f EXCEPT !.pc = "consume", !.before = f.active, !.leases = {}]
      BY DEF At
    <3>3. g.pc = "consume"
      <4> HIDE DEF f
      <4> QED BY <1>0, <3>2 DEF Frames
    <3>4. task'[t] = g
      BY <1>0, <3>1
    <3> HIDE DEF g
    <3> QED
      BY <3>3, <3>4
  <2> QED
    BY <1>1, <2>1, <2>2
<1>3. CASE Policy(t) \/ Dispatch(t)
  BY <1>1, <1>3, <1>3a DEF Dispatch
<1>4. CASE Consume(t)
  BY <1>4, ConsumeFlow DEF Early
<1>5. CASE CreateStep(t)
  BY <1>5, CreateFlow DEF Replayed
<1>6. CASE DeadlineTimeout(t)
  BY <1>2, <1>6 DEF DeadlineTimeout, Local, Proceeds, Handlers
<1>7. CASE Snapshot(t)
  <2> DEFINE pc == IF expired[f.run] THEN "fail_read" ELSE "execute"
             b == current_step[f.run] < MaxSteps
             g == [f EXCEPT !.pc = pc, !.budget = b]
  <2>1. task' = [task EXCEPT ![t] = g]
    BY <1>7 DEF Snapshot
  <2>2. pc \in {"fail_read", "execute"}
    OBVIOUS
  <2>3. g.pc = pc
    <3> HIDE DEF f, pc, b
    <3> QED BY <1>0 DEF Frames
  <2> HIDE DEF g, pc
  <2> QED
    BY <1>0, <2>1, <2>2, <2>3
<1>8. CASE FailRead(t)
  <2> DEFINE g == [f EXCEPT !.pc = "fail_write", !.seen = status[f.run]]
  <2>1. task' = [task EXCEPT ![t] = g]
    BY <1>8 DEF FailRead, Terminal
  <2>2. g.pc = "fail_write"
    <3> HIDE DEF f
    <3> QED BY <1>0 DEF Frames
  <2> HIDE DEF g
  <2> QED
    BY <1>0, <2>1, <2>2
<1>9. CASE Return(t)
  <2>1. ~f.handling
    BY <1>9 DEF Return, Local, Proceeds, Handlers
  <2>2. CASE Raise(t)
    BY <1>2, <2>1, <2>2
  <2>3. CASE ~Raise(t)
    <3>1. PICK o, next : task' = [task EXCEPT ![t] =
             [f EXCEPT !.pc = "settle", !.outcome = o, !.next = next, !.before = f.active]]
      BY <1>9, <2>3 DEF Return
    <3> DEFINE g == [f EXCEPT !.pc = "settle", !.outcome = o, !.next = next, !.before = f.active]
    <3>2. g.pc = "settle"
      <4> HIDE DEF f
      <4> QED BY <1>0 DEF Frames
    <3>3. task' = [task EXCEPT ![t] = g]
      BY <3>1
    <3> HIDE DEF g
    <3> QED
      BY <1>0, <3>2, <3>3
  <2> QED
    BY <2>2, <2>3
<1>10. CASE RejectStep(t)
  <2>1. CASE \E pc : pc \notin {"done", "start"} /\ Goto(t, pc)
    BY <1>1, <2>1
  <2>2. CASE ~\E pc : pc \notin {"done", "start"} /\ Goto(t, pc)
    <3>1. PICK next, a : task' = [task EXCEPT ![t] =
             [f EXCEPT !.pc = "settle", !.outcome = "failed", !.next = next,
                       !.attempt = a, !.before = f.active, !.active = "pure"]]
      BY <1>10, <2>2 DEF RejectStep
    <3> DEFINE g == [f EXCEPT !.pc = "settle", !.outcome = "failed", !.next = next,
                              !.attempt = a, !.before = f.active, !.active = "pure"]
    <3>2. g.pc = "settle"
      <4> HIDE DEF f
      <4> QED BY <1>0 DEF Frames
    <3>3. task' = [task EXCEPT ![t] = g]
      BY <3>1
    <3> HIDE DEF g
    <3> QED
      BY <1>0, <3>2, <3>3
  <2> QED
    BY <2>1, <2>2
<1>11. CASE Settle(t)
  <2>1. f.next \in {"requeue", "fail_read"}
    BY <1>11 DEF Settle, Proceeds, TypeInv, FrameOK
  <2> DEFINE e == At(f, f.next)
             a == IF f.active = "model" /\ f.outcome = "failed" THEN "model" ELSE "none"
             g == [e EXCEPT !.outcome = "completed", !.next = "idle", !.active = a]
  <2>2. e = [f EXCEPT !.pc = f.next, !.before = f.active, !.leases = {}]
    BY <2>1 DEF At
  <2>3. g.pc = f.next
    <3> HIDE DEF f, a
    <3> QED BY <1>0, <2>2 DEF Frames
  <2>4. task' = [task EXCEPT ![t] = g]
    BY <1>11 DEF Settle
  <2> HIDE DEF g
  <2> QED
    BY <1>0, <2>1, <2>3, <2>4
<1>12. CASE Decide(t)
  BY <1>12, DecideFlow
<1> QED
  BY <1>3, <1>4, <1>5, <1>6, <1>7, <1>8, <1>9, <1>10, <1>11, <1>12

(* A task writes the status of its own run only.  *)
LEMMA TaskStatus ==
  ASSUME TypeInv, NEW t \in Tasks, Body(t) \/ Cleanup(t), NEW s \in Runs, s # task[t].run
  PROVE  status'[s] = status[s]
<1> DEFINE c == CallOf(task[t])
<1>1. Writes(t)
  BY TaskWrites
<1>2. CASE UNCHANGED storeVars
  BY <1>2 DEF storeVars, runVars
<1>3. CASE Transact(c)
  <2>1. c.run = task[t].run
    BY DEF CallOf, MoveCall, StepCall, StopStepCall
  <2> HIDE DEF c
  <2>2. status \in [Runs -> Statuses]
    BY DEF TypeInv, TypeOK, StoreTypeOK
  <2> QED
    BY <1>2, <1>3, <2>1, <2>2 DEF Transact, Commit, transition, create_step, settle_step,
       abandon_step_for_retry, create_interaction, consume_single_use_leases, storeVars, runVars
<1> QED
  BY <1>1, <1>2, <1>3 DEF Writes

(* The transactions of a task that are no transitions and ask nothing      *)
(* leave the status alone.                                                 *)
LEMMA StatusKept ==
  ASSUME TypeInv, NEW t \in Tasks, HoldsOK(task[t]),
         \/ Snapshot(t) \/ Decide(t) \/ DeadlineTimeout(t) \/ FailRead(t) \/ Policy(t)
         \/ Consume(t) \/ CreateStep(t) \/ RejectStep(t) \/ Dispatch(t) \/ Return(t) \/ Settle(t)
  PROVE  status' = status
<1> USE DEF storeVars, runVars
<1>1. CASE \/ Snapshot(t) \/ Decide(t) \/ DeadlineTimeout(t) \/ FailRead(t) \/ Policy(t)
           \/ Dispatch(t) \/ Return(t)
  BY <1>1 DEF Snapshot, Decide, DeadlineTimeout, FailRead, Policy, Dispatch, Return, Local
<1>2. CASE Consume(t)
  BY <1>2, ConsumeFlow DEF consume_single_use_leases
<1>3. CASE CreateStep(t) \/ RejectStep(t) \/ Settle(t)
  <2> DEFINE c == CallOf(task[t])
  <2>1. Transact(c) /\ task[t].pc \in {"create", "reject", "settle"}
    BY <1>3 DEF CreateStep, RejectStep, Settle, Proceeds
  <2>2. c.op \in {"create_step", "settle_step"}
    BY <2>1 DEF CallOf, StepCall
  <2> HIDE DEF c
  <2> QED
    BY <2>1, <2>2 DEF Transact, Commit, create_step, settle_step
<1> QED
  BY <1>1, <1>2, <1>3

(* A task that nobody cancels moves its run from the status it counts on   *)
(* to the next one, or out of the active statuses and ends.                *)
LEMMA CalmTask ==
  ASSUME TypeInv, NEW t \in Tasks, HoldsOK(task[t]), Body(t) \/ Cleanup(t), ~TaskDone(t),
         ~task[t].cancelled, task[t].pc \notin StopPCs,
         task[t].handling => task[t].pc \in Handlers,
         task[t].pc = "fail_write" => task[t].seen = "running",
         NEW r \in Runs, task[t].run = r, status[r] = Expects(task[t]), Unasked(r), Unasked(r)'
  PROVE  \/ task'[t].pc = "done" /\ status'[r] \notin Active
         \/ /\ task'[t].pc \notin {"done", "start"} /\ status'[r] = "running"
            /\ task'[t].pc = "fail_write" => status[r] = "running"
<1> DEFINE f == task[t]
<1>0. status \in [Runs -> Statuses]
  BY DEF TypeInv, TypeOK, StoreTypeOK
<1> USE DEF Start, Complete, Requeue, Interrupt, FailWrite
<1>1. CASE Start(t)
  <2>1. f.pc = "start"
    BY <1>1 DEF Await, Proceeds
  <2>2. status[r] = "planning"
    BY <2>1 DEF Expects
  <2> DEFINE c == CallOf(f)
  <2>3. c.op = "transition" /\ c.run = r /\ status[r] \in c.expected /\ c.to = "running"
    BY <2>1, <2>2 DEF CallOf, MoveCall
  <2>4. Allowed(status[r], "running")
    BY <2>2 DEF Allowed
  <2>5. Await(t, "start", "snapshot") /\ c = CallOf(task[t])
    BY <1>1
  <2> HIDE DEF c
  <2>6. status' = [status EXCEPT ![r] = "running"] /\ task'[t].pc = "snapshot"
    BY <2>3, <2>4, <2>5, MoveCalm
  <2> QED
    BY <1>0, <2>6
<1>2. ASSUME NEW to \in {"completed", "queued", "interrupted", "failed"}, NEW err, NEW pc,
             CallOf(f) = MoveCall(f, {"running"}, to, err), f.pc # "start", Await(t, pc, "done")
      PROVE  task'[t].pc = "done" /\ status'[r] \notin Active
  <2>1. status[r] = "running"
    BY <1>2 DEF Expects
  <2> DEFINE c == CallOf(f)
  <2>2. /\ c.op = "transition" /\ c.run = r /\ status[r] \in c.expected /\ c.to = to
        /\ Allowed(status[r], to) /\ c = CallOf(task[t])
    BY <1>2, <2>1 DEF Allowed, Terminal, MoveCall
  <2> HIDE DEF c
  <2>3. status' = [status EXCEPT ![r] = to] /\ task'[t].pc = "done"
    BY <1>2, <2>2, MoveCalm
  <2> QED
    BY <1>0, <2>3 DEF Active
<1>3. CASE Complete(t)
  <2>1. f.pc = "complete"
    BY <1>3 DEF Await, Proceeds
  <2>2. CallOf(f) = MoveCall(f, {"running"}, "completed", "keep")
    BY <2>1 DEF CallOf
  <2> QED
    BY <1>2, <1>3, <2>1, <2>2
<1>4. CASE Requeue(t)
  <2>1. f.pc = "requeue"
    BY <1>4 DEF Await, Proceeds
  <2>2. CallOf(f) = MoveCall(f, {"running"}, "queued", "keep")
    BY <2>1 DEF CallOf
  <2> QED
    BY <1>2, <1>4, <2>1, <2>2
<1>5. CASE Interrupt(t)
  <2>1. f.pc = "interrupt"
    BY <1>5 DEF Await, Proceeds
  <2>2. CallOf(f) = MoveCall(f, {"running"}, "interrupted", "uncertain")
    BY <2>1 DEF CallOf
  <2> QED
    BY <1>2, <1>5, <2>1, <2>2
<1>6. CASE FailWrite(t)
  <2>1. f.pc = "fail_write" /\ f.seen = "running"
    BY <1>6 DEF Await, Proceeds
  <2>2. CallOf(f) = MoveCall(f, {"running"}, "failed", "other")
    BY <2>1 DEF CallOf
  <2> QED
    BY <1>2, <1>6, <2>1, <2>2
<1>7. CASE Ask(t) \/ AskGrant(t)
  BY <1>7, AskCalm
<1>8. CASE CancelTask(t) \/ StopRead(t) \/ StopStep(t) \/ StopMove(t)
  BY <1>8 DEF CancelTask, StopRead, StopStep, StopMove, Local, Await, Proceeds, StopPCs
<1>9. CASE \/ Snapshot(t) \/ Decide(t) \/ DeadlineTimeout(t) \/ FailRead(t) \/ Policy(t)
           \/ Consume(t) \/ CreateStep(t) \/ RejectStep(t) \/ Dispatch(t) \/ Return(t) \/ Settle(t)
  <2>1. f.pc # "start"
    BY <1>9 DEF Snapshot, Decide, DeadlineTimeout, FailRead, Policy, Consume, CreateStep,
       RejectStep, Dispatch, Return, Settle, Local, Await, Proceeds
  <2>2. status[r] = "running"
    BY <2>1 DEF Expects
  <2>3. status' = status
    BY <1>9, StatusKept
  <2> QED
    BY <1>9, <2>2, <2>3, CalmFrame
<1> QED
  BY <1>1, <1>3, <1>4, <1>5, <1>6, <1>7, <1>8, <1>9 DEF Body, Cleanup

(* What every step of a task does to its frame.  *)
LEMMA TaskFlow ==
  ASSUME TypeInv, NEW t \in Tasks, HoldsOK(task[t]), Body(t) \/ Cleanup(t), ~TaskDone(t)
  PROVE  /\ Lone(t) /\ task'[t].run = task[t].run /\ task'[t].pc # "idle"
         /\ task'[t].cancelled => task[t].cancelled
         /\ task'[t].pc \in StopPCs => task[t].cancelled \/ task[t].pc \in StopPCs
         /\ task'[t].pc = "fail_write" => task'[t].seen = status[task[t].run]
<1>1. CASE Decide(t) \/ Policy(t) \/ Consume(t)
  <2>1. /\ Lone(t)
        /\ \/ Onward(task[t], task'[t])
           \/ \E pc \in {"consume", "create"} : Early(task[t], task'[t], pc)
    BY <1>1, DecideFlow, PolicyFlow, ConsumeFlow
  <2> QED
    BY <2>1 DEF Onward, Early, StopPCs
<1>2. CASE CreateStep(t)
  BY <1>2, CreateFlow DEF Replayed, StopPCs
<1>3. CASE RejectStep(t)
  BY <1>3, RejectFlow DEF Onward, StopPCs
<1> QED
  BY <1>1, <1>2, <1>3, OnwardFlow DEF Onward

(* A step of a task leaves the process alone, but for its own entry and    *)
(* the call it leaves behind when it is cancelled.                         *)
LEMMA TaskProcess ==
  ASSUME NEW t \in Tasks, Body(t) \/ Cleanup(t)
  PROVE  UNCHANGED <<mode, claimed, kicks, controls>> /\ (CancelTask(t) \/ UNCHANGED detached)
<1> USE DEF procVars
<1>1. CASE \/ Start(t) \/ Complete(t) \/ Requeue(t) \/ Interrupt(t) \/ FailWrite(t)
           \/ Ask(t) \/ AskGrant(t) \/ Consume(t) \/ StopStep(t) \/ StopMove(t)
  BY <1>1 DEF Start, Complete, Requeue, Interrupt, FailWrite, Ask, AskGrant, Consume,
     StopStep, StopMove, Await
<1>2. CASE \/ Snapshot(t) \/ Decide(t) \/ DeadlineTimeout(t) \/ FailRead(t) \/ Policy(t)
           \/ CreateStep(t) \/ RejectStep(t) \/ Dispatch(t) \/ Return(t) \/ Settle(t) \/ StopRead(t)
  BY <1>2 DEF Snapshot, Decide, DeadlineTimeout, FailRead, Policy, CreateStep, RejectStep,
     Dispatch, Return, Settle, StopRead, Local
<1>3. CASE CancelTask(t) \/ TaskDone(t)
  BY <1>3 DEF CancelTask, TaskDone
<1> QED
  BY <1>1, <1>2, <1>3 DEF Body, Cleanup

(* A run whose status, claim and drivers stay as they are stays driven.  *)
LEMMA RunKept ==
  ASSUME NEW r \in Runs, RunOK(r), status'[r] = status[r], claimed' = r <=> claimed = r,
         Drivers(r)' = Drivers(r), \A t \in Drivers(r) : task'[t] = task[t]
  PROVE  RunOK(r)'
<1>1. ASSUME NEW t \in Drivers(r) PROVE Expects(task[t])' = Expects(task[t])
  BY <1>1 DEF Expects
<1> QED
  BY <1>1 DEF RunOK

(* Steps of tasks keep every run driven once.  *)
LEMMA DrivenTask ==
  ASSUME TypeInv, EffectInv, DrivenInv, NEW t \in Tasks, Body(t) \/ Cleanup(t)
  PROVE  DrivenInv'
<1> DEFINE f == task[t]
<1>0. /\ task \in [Tasks -> Frames] /\ f \in Frames /\ HoldsOK(f) /\ NoRun \notin Runs
      /\ StoreTypeOK /\ Idle.run = NoRun /\ Idle.pc = "idle" /\ ~Idle.handling
      /\ ~Idle.cancelled
  BY RuntimeAssumption DEF TypeInv, TypeOK, EffectInv, Idle
<1>1. /\ mode' = mode /\ claimed' = claimed /\ kicks' = kicks /\ controls' = controls
      /\ CancelTask(t) \/ detached' = detached
  BY TaskProcess
<1>2. f.pc # "idle" /\ (f.pc = "done" => TaskDone(t))
  BY NotIdle
<1>3. mode \notin {"stopped", "lost"}
  BY <1>2 DEF DrivenInv
<1>4. Lone(t) /\ (TaskDone(t) => task'[t] = Idle)
  <2>1. CASE TaskDone(t)
    BY <1>0, <2>1 DEF TaskDone, Lone
  <2> QED
    BY <1>0, <2>1, TaskFlow
<1>5. /\ task'[t].pc = "idle" => task'[t] = Idle
      /\ task'[t].handling => task'[t].pc \in Handlers
  <2>1. CASE TaskDone(t)
    BY <1>0, <1>4, <2>1
  <2>2. CASE ~TaskDone(t)
    BY <1>0, <2>2, TaskFlow, HandlesStep DEF DrivenInv
  <2> QED
    BY <2>1, <2>2
<1>6. ASSUME NEW u \in Tasks
      PROVE  /\ task'[u].pc = "idle" => task'[u] = Idle
             /\ task'[u].handling => task'[u].pc \in Handlers
  BY <1>4, <1>5 DEF Lone, DrivenInv
<1>7. ASSUME Calm' PROVE Calm /\ ~CancelTask(t)
  BY <1>1, <1>7 DEF Calm, CancelTask, DrivenInv
<1>8. ASSUME Calm', NEW u \in Tasks PROVE ~task'[u].cancelled /\ task'[u].pc \notin StopPCs
  <2>1. CASE TaskDone(t)
    BY <1>0, <1>4, <1>7, <1>8, <2>1 DEF Lone, DrivenInv, StopPCs
  <2>2. CASE ~TaskDone(t)
    BY <1>0, <1>4, <1>7, <1>8, <2>2, TaskFlow DEF Lone, DrivenInv
  <2> QED
    BY <2>1, <2>2
<1>9. ASSUME Calm', NEW r \in Runs, Unasked(r)' PROVE RunOK(r)'
  <2>1. Calm /\ Unasked(r) /\ RunOK(r)
    <3>1. StoreStep \/ UNCHANGED storeVars
      BY NextIsStoreStep DEF Next
    <3> QED
      BY <1>0, <1>7, <1>9, <3>1, AskedStays DEF DrivenInv
  <2>2. CASE f.run # r
    <3>1. task'[t].run # r
      <4>1. CASE TaskDone(t)
        BY <1>0, <1>4, <4>1
      <4> QED
        BY <1>0, <2>2, <4>1, TaskFlow
    <3>2. status'[r] = status[r]
      BY <2>2, TaskStatus
    <3>3. Drivers(r)' = Drivers(r) /\ \A u \in Drivers(r) : task'[u] = task[u]
      BY <1>4, <2>2, <3>1 DEF Drivers, Lone
    <3> QED
      BY <1>1, <2>1, <3>2, <3>3, RunKept
  <2>3. CASE f.run = r /\ TaskDone(t)
    <3>1. status' = status /\ f.pc = "done"
      BY <2>3 DEF TaskDone, storeVars, runVars
    <3>2. Drivers(r)' = Drivers(r) /\ \A u \in Drivers(r) : task'[u] = task[u]
      BY <1>0, <1>4, <2>3, <3>1 DEF Drivers, Lone
    <3> QED
      BY <1>1, <2>1, <3>1, <3>2, RunKept
  <2>4. CASE f.run = r /\ ~TaskDone(t)
    <3>1. t \in Drivers(r)
      BY <1>2, <2>4 DEF Drivers
    <3>2. /\ Drivers(r) = {t} /\ status[r] = Expects(f) /\ claimed # r
          /\ f.pc = "fail_write" => f.seen = "running"
      BY <2>1, <3>1 DEF RunOK
    <3>3. /\ ~f.cancelled /\ f.pc \notin StopPCs /\ (f.handling => f.pc \in Handlers)
      BY <2>1 DEF DrivenInv
    <3>4. \/ task'[t].pc = "done" /\ status'[r] \notin Active
          \/ /\ task'[t].pc \notin {"done", "start"} /\ status'[r] = "running"
             /\ task'[t].pc = "fail_write" => status[r] = "running"
      BY <1>0, <1>9, <2>1, <2>4, <3>2, <3>3, CalmTask
    <3>5. /\ task'[t].run = r /\ (task'[t].pc = "fail_write" => task'[t].seen = status[r])
      BY <1>0, <2>4, TaskFlow
    <3>6. Drivers(r)' \subseteq {t} /\ (t \in Drivers(r)' <=> task'[t].pc # "done")
      BY <1>4, <3>2, <3>5 DEF Drivers, Lone
    <3>7. CASE task'[t].pc = "done" /\ status'[r] \notin Active
      BY <1>1, <3>2, <3>6, <3>7 DEF RunOK
    <3>8. CASE /\ task'[t].pc \notin {"done", "start"} /\ status'[r] = "running"
               /\ task'[t].pc = "fail_write" => status[r] = "running"
      <4>1. Expects(task[t])' = "running"
        BY <3>8 DEF Expects
      <4>2. task'[t].pc = "fail_write" => task'[t].seen = "running"
        BY <3>5, <3>8
      <4> QED
        BY <1>1, <3>2, <3>6, <3>8, <4>1, <4>2 DEF RunOK
    <3> QED
      BY <3>4, <3>7, <3>8
  <2> QED
    BY <2>2, <2>3, <2>4
<1> QED
  BY <1>1, <1>3, <1>6, <1>7, <1>8, <1>9 DEF DrivenInv

(* The steps outside the tasks that leave a calm process calm.  *)
LEMMA DrivenCalm ==
  ASSUME TypeInv, TypeInv', DrivenInv, Elsewhere, Calm, Calm', NEW r \in Runs, Unasked(r)'
  PROVE  RunOK(r)'
<1>0. /\ StoreTypeOK /\ NoRun \notin Runs /\ RunOK(r) /\ Unasked(r) /\ mode = "up" /\ mode' = "up"
      /\ task \in [Tasks -> Frames] /\ Idle.run = NoRun
  <2>1. StoreTypeOK /\ task \in [Tasks -> Frames]
    BY DEF TypeInv, TypeOK
  <2>2. StoreStep \/ UNCHANGED storeVars
    BY NextIsStoreStep DEF Elsewhere, Next
  <2> QED
    BY <2>1, <2>2, AskedStays, RuntimeAssumption DEF DrivenInv, Calm, Idle
<1> USE DEF storeVars, runVars, askVars, procVars
<1>1. ASSUME status'[r] = status[r], claimed' = claimed, task' = task PROVE RunOK(r)'
  <2>1. Drivers(r)' = Drivers(r)
    BY <1>1 DEF Drivers
  <2> QED
    BY <1>0, <1>1, <2>1, RunKept
<1>2. ASSUME NEW s \in Runs, s # r, NEW v, status' = [status EXCEPT ![s] = v]
      PROVE  status'[r] = status[r]
  BY <1>0, <1>2 DEF StoreTypeOK
<1>3. ~DetachedCommit /\ ~StopBegin /\ ~StopSuspend /\ ~StopCancel /\ ~CloseLoop
      /\ ~StopFinish /\ ~ProcessLoss /\ ~Restart /\ ~LateClaim
  BY <1>0 DEF DetachedCommit, StopBegin, StopSuspend, StopCancel, CloseLoop, StopFinish, ProcessLoss,
     Restart, LateClaim, DrivenInv, TypeInv
<1>4. ASSUME NEW s \in Runs PROVE ~Kick(s) /\ ~PauseRequest(s) /\ ~CancelRequest(s) /\ ~Resume(s)
  BY DEF Kick, PauseRequest, CancelRequest, Resume, Control, Calm, DrivenInv
<1>5. ASSUME NEW s \in Runs, NEW q \in Requests, interaction[s][q] = "pending" PROVE s # r
  BY <1>0, <1>5 DEF Unasked
<1>6. CASE Clock
  <2>1. CASE ExpireInteraction
    <3>1. PICK s \in Runs, q \in Requests : expire_interactions(s, q)
      BY <2>1 DEF ExpireInteraction
    <3>2. s # r /\ \E v : status' = [status EXCEPT ![s] = v]
      BY <1>5, <3>1 DEF expire_interactions
    <3> QED
      BY <1>1, <1>2, <2>1, <3>2 DEF ExpireInteraction
  <2>2. CASE ExpireLease \/ \E s \in Runs : DeadlinePasses(s)
    BY <1>1, <2>2 DEF ExpireLease, expire_leases, DeadlinePasses
  <2> QED
    BY <1>6, <2>1, <2>2 DEF Clock
<1>7. ASSUME NEW s \in Runs, Respond(s) PROVE RunOK(r)'
  <2>1. s # r /\ \E v : status' = [status EXCEPT ![s] = v]
    BY <1>5, <1>7 DEF Respond, respond_interaction
  <2> QED
    BY <1>1, <1>2, <1>7, <2>1 DEF Respond
<1>8. ASSUME NEW s \in Runs, CreateRun(s) PROVE RunOK(r)'
  <2>1. /\ status[s] = "absent" /\ status' = [status EXCEPT ![s] = "queued"]
        /\ claimed' = claimed /\ task' = task
    BY <1>8 DEF CreateRun, create_run
  <2>2. CASE s = r
    <3>1. Drivers(r) = {} /\ claimed # r
      BY <1>0, <2>1, <2>2 DEF RunOK, Expects
    <3>2. Drivers(r)' = {} /\ status'[r] = "queued"
      BY <1>0, <2>1, <2>2, <3>1 DEF Drivers, StoreTypeOK
    <3> QED
      BY <2>1, <3>1, <3>2 DEF RunOK, Active
  <2> QED
    BY <1>1, <1>2, <2>1, <2>2
<1>9. CASE Claim
  <2>1. /\ claim_next /\ claimed = NoRun /\ task' = task
        /\ claimed' = IF Candidates = {} THEN NoRun ELSE First(Candidates)
    BY <1>9 DEF Claim
  <2>2. status'[r] = IF r \in Overdue THEN "cancelled"
                     ELSE IF Candidates # {} /\ r = First(Candidates) THEN "planning"
                     ELSE status[r]
    BY <2>1 DEF claim_next
  <2>3. /\ r \in Candidates => status[r] = "queued" /\ r \notin Overdue
        /\ r \in Overdue => status[r] = "queued"
    BY DEF Candidates, Overdue
  <2>4. Candidates # {} => First(Candidates) \in Candidates
    BY FirstCandidate
  <2>5. Drivers(r)' = Drivers(r) /\ \A t \in Drivers(r) : Expects(task[t])' = Expects(task[t])
    BY <2>1 DEF Drivers, Expects
  <2>6. CASE status[r] = "queued"
    <3>1. Drivers(r) = {}
      BY <1>0, <2>6 DEF RunOK, Expects
    <3> QED
      BY <1>0, <2>1, <2>2, <2>3, <2>4, <2>5, <2>6, <3>1 DEF RunOK, Active
  <2>7. CASE status[r] # "queued"
    <3>1. status'[r] = status[r] /\ claimed' # r
      BY <1>0, <2>1, <2>2, <2>3, <2>4, <2>7
    <3> QED
      BY <1>0, <2>1, <2>5, <3>1, RunKept
  <2> QED
    BY <2>6, <2>7
<1>10. ASSUME NEW t \in Tasks, Spawn(t) PROVE RunOK(r)'
  <2> DEFINE g == [Idle EXCEPT !.pc = "start", !.run = claimed]
  <2>1. g.pc = "start" /\ g.run = claimed
    BY DEF Idle
  <2>2. /\ task' = [task EXCEPT ![t] = g] /\ claimed # NoRun /\ claimed' = NoRun
        /\ status' = status /\ task[t].pc = "idle"
    BY <1>10 DEF Spawn
  <2> HIDE DEF g
  <2>3. /\ task'[t] = g /\ Lone(t) /\ task[t].run = NoRun
    BY <1>0, <2>2 DEF Lone, DrivenInv
  <2>4. CASE claimed = r
    <3>1. Drivers(r) = {} /\ status[r] = "planning"
      BY <1>0, <2>4 DEF RunOK
    <3>2. Drivers(r)' = {t}
      BY <2>1, <2>3, <2>4, <3>1 DEF Drivers, Lone
    <3>3. Expects(task[t])' = "planning"
      BY <2>1, <2>3 DEF Expects
    <3> QED
      BY <1>0, <2>1, <2>2, <2>3, <3>1, <3>2, <3>3 DEF RunOK
  <2>5. CASE claimed # r
    <3>1. Drivers(r)' = Drivers(r) /\ \A u \in Drivers(r) : task'[u] = task[u]
      BY <1>0, <2>1, <2>3, <2>5 DEF Drivers, Lone
    <3> QED
      BY <1>0, <2>2, <2>5, <3>1, RunKept
  <2> QED
    BY <2>4, <2>5
<1>11. CASE UNCHANGED vars
  BY <1>1, <1>11 DEF vars
<1> QED
  BY <1>3, <1>4, <1>6, <1>7, <1>8, <1>9, <1>10, <1>11 DEF Elsewhere, Dispatcher, Api, Process

(* How the steps outside the tasks begin and end a calm stretch.  *)
CalmKept ==
  /\ mode' \in {"stopped", "lost"} =>
       claimed' = NoRun /\ detached' = {} /\ \A t \in Tasks : task'[t].pc = "idle"
  /\ controls' = 0 => \A r \in Runs : kicks'[r] = 0
  /\ Calm' /\ ~Calm => Restart
  /\ Calm' /\ Calm =>
       /\ detached' = detached
       /\ \A t \in Tasks : task'[t] = task[t] \/ (task'[t].pc = "start" /\ ~task'[t].cancelled)

(* Only a restart begins a calm stretch.  *)
LEMMA CalmStep ==
  ASSUME TypeInv, DrivenInv, Elsewhere
  PROVE  CalmKept
<1>0. /\ task \in [Tasks -> Frames] /\ Idle.pc = "idle" /\ controls \in Nat
      /\ mode \in {"up", "stopped", "lost"} => claimed # InFlight
  BY DEF TypeInv, TypeOK, Idle
<1> USE DEF DrivenInv, Calm, CalmKept, procVars
<1>1. CASE DetachedCommit
  BY <1>1 DEF DetachedCommit
<1>2. CASE Claim
  BY <1>2 DEF Claim
<1>3. ASSUME NEW t \in Tasks, Spawn(t) PROVE CalmKept
  <2> DEFINE g == [Idle EXCEPT !.pc = "start", !.run = claimed]
  <2>1. g.pc = "start" /\ ~g.cancelled
    BY DEF Idle
  <2>2. /\ task' = [task EXCEPT ![t] = g] /\ UNCHANGED <<mode, kicks, controls, detached>>
        /\ mode = "up"
    BY <1>3 DEF Spawn
  <2> HIDE DEF g
  <2> QED
    BY <1>0, <2>1, <2>2
<1>4. CASE Clock
  BY <1>4 DEF Clock, ExpireInteraction, ExpireLease, DeadlinePasses
<1>5. ASSUME NEW r \in Runs, CreateRun(r) \/ Respond(r) PROVE CalmKept
  BY <1>5 DEF CreateRun, Respond
<1>6. ASSUME NEW r \in Runs, PauseRequest(r) \/ CancelRequest(r) \/ Resume(r) PROVE CalmKept
  <2>1. mode = "up" /\ mode' = "up" /\ controls' = controls + 1
    BY <1>6 DEF PauseRequest, CancelRequest, Resume, Control
  <2> QED
    BY <1>0, <2>1
<1>7. ASSUME NEW r \in Runs, Kick(r) PROVE CalmKept
  <2>1. /\ kicks[r] > 0 /\ UNCHANGED <<mode, claimed, controls, detached>>
        /\ \A t \in Tasks : task[t].pc = "idle" => task'[t] = task[t]
    BY <1>7 DEF Kick
  <2>2. controls # 0
    BY <2>1
  <2> QED
    BY <2>1, <2>2
<1>8. CASE LateClaim
  BY <1>0, <1>8 DEF LateClaim
<1>9. CASE StopBegin \/ StopSuspend \/ StopCancel \/ CloseLoop
  BY <1>9 DEF StopBegin, StopSuspend, StopCancel, CloseLoop
<1>10. CASE StopFinish
  BY <1>10 DEF StopFinish
<1>11. CASE ProcessLoss
  BY <1>0, <1>11 DEF ProcessLoss
<1>12. CASE Restart
  BY <1>12 DEF Restart
<1>13. CASE UNCHANGED vars
  BY <1>13 DEF vars
<1> QED
  BY <1>1, <1>2, <1>3, <1>4, <1>5, <1>6, <1>7, <1>8, <1>9, <1>10, <1>11, <1>12, <1>13
  DEF Elsewhere, Dispatcher, Api, Process

(* Other steps keep every run driven once.  *)
LEMMA DrivenElsewhere ==
  ASSUME TypeInv, TypeInv', DrivenInv, Elsewhere
  PROVE  DrivenInv'
<1>0. /\ task \in [Tasks -> Frames] /\ Idle.run = NoRun /\ Idle.pc = "idle" /\ ~Idle.handling
      /\ ~Idle.cancelled /\ NoRun \notin Runs /\ controls \in Nat
  BY RuntimeAssumption DEF TypeInv, TypeOK, Idle
<1>1. ASSUME NEW f \in Frames
      PROVE  LET g == [f EXCEPT !.cancelled = TRUE]
             IN  g.pc = f.pc /\ g.run = f.run /\ (g.handling => f.handling)
  BY DEF Frames
<1>2. ASSUME NEW t \in Tasks
      PROVE  /\ task'[t].pc = "idle" => task'[t] = Idle
             /\ task'[t].handling => task'[t].pc \in Handlers
  <2>1. CASE task'[t] = task[t]
    BY <2>1 DEF DrivenInv
  <2>2. CASE task[t].pc # "idle" /\ task'[t] = [task[t] EXCEPT !.cancelled = TRUE]
    BY <1>0, <1>1, <2>2 DEF DrivenInv
  <2>3. CASE task'[t] = Idle
    BY <1>0, <2>3
  <2>4. CASE Spawn(t)
    <3> DEFINE g == [Idle EXCEPT !.pc = "start", !.run = claimed]
    <3>1. g.pc = "start" /\ ~g.handling
      BY DEF Idle
    <3>2. task' = [task EXCEPT ![t] = g]
      BY <2>4 DEF Spawn
    <3> HIDE DEF g
    <3> QED
      BY <1>0, <3>1, <3>2
  <2>5. CASE \E u \in Tasks \ {t} : Spawn(u)
    BY <1>0, <2>1, <2>5 DEF Spawn
  <2>6. CASE StopCancel \/ CloseLoop \/ \E r \in Runs : Kick(r)
    BY <2>1, <2>2, <2>6 DEF StopCancel, CloseLoop, Kick
  <2>7. CASE ProcessLoss
    BY <2>3, <2>7 DEF ProcessLoss
  <2>8. CASE UNCHANGED task
    BY <2>1, <2>8
  <2> QED
    BY <2>4, <2>5, <2>6, <2>7, <2>8 DEF Elsewhere, DetachedCommit, Dispatcher, Claim, Clock,
       ExpireInteraction, ExpireLease, DeadlinePasses, Api, CreateRun, PauseRequest,
       CancelRequest, Resume, Respond, Process, LateClaim, StopBegin, StopSuspend, StopFinish,
       Restart, vars
<1>3. CalmKept
  BY CalmStep
<1>4. ASSUME Calm', ~Calm
      PROVE  /\ detached' = {} /\ claimed' = NoRun
             /\ \A t \in Tasks : task'[t] = Idle
             /\ \A r \in Runs : status'[r] \notin Active
  <2>1. Restart
    BY <1>3, <1>4 DEF CalmKept
  <2>2. /\ mode \in {"stopped", "lost"} /\ recover_interrupted
        /\ UNCHANGED <<claimed, task, detached>>
    BY <2>1 DEF Restart
  <2>3. \A r \in Runs : status'[r] = Recovered(r)
    BY <2>2 DEF recover_interrupted
  <2>4. \A r \in Runs : Recovered(r) \notin Active
    BY DEF Recovered, Active
  <2> QED
    BY <2>2, <2>3, <2>4 DEF DrivenInv
<1>5. ASSUME Calm'
      PROVE  detached' = {} /\ \A t \in Tasks : ~task'[t].cancelled /\ task'[t].pc \notin StopPCs
  <2>1. CASE Calm
    BY <1>3, <1>5, <2>1 DEF CalmKept, DrivenInv, StopPCs
  <2>2. CASE ~Calm
    BY <1>0, <1>4, <1>5, <2>2 DEF StopPCs
  <2> QED
    BY <2>1, <2>2
<1>6. ASSUME Calm', NEW r \in Runs, Unasked(r)' PROVE RunOK(r)'
  <2>1. CASE Calm
    BY <1>6, <2>1, DrivenCalm
  <2>2. CASE ~Calm
    <3>1. Drivers(r)' = {}
      BY <1>0, <1>4, <1>6, <2>2 DEF Drivers
    <3> QED
      BY <1>0, <1>4, <1>6, <2>2, <3>1 DEF RunOK
  <2> QED
    BY <2>1, <2>2
<1> QED
  BY <1>2, <1>3, <1>5, <1>6 DEF CalmKept, DrivenInv

(* As long as nobody pauses, resumes or cancels, a run that asked its user *)
(* nothing is driven by exactly one party while it is planning or running, *)
(* and by none otherwise: for any number of runs, tasks, stops, process    *)
(* losses, late claims and detached writes, recover_interrupted leaves no  *)
(* active run behind and claims never meet a run that has a task.          *)
THEOREM RunsDrivenOnce == Spec => []DrivenOnce
<1>1. TypeInv /\ DrivenInv => DrivenOnce
  <2> SUFFICES ASSUME TypeInv, DrivenInv, mode = "up", controls = 0, NEW r \in Runs, Unasked(r)
      PROVE  /\ status[r] \in Active <=> (claimed = r \/ Drivers(r) # {})
             /\ Cardinality(Drivers(r)) <= (IF claimed = r THEN 0 ELSE 1)
    BY DEF DrivenOnce, Unasked
  <2>1. RunOK(r)
    BY DEF DrivenInv, Calm
  <2>2. status[r] \in Active <=> (claimed = r \/ Drivers(r) # {})
    BY <2>1 DEF RunOK, Expects, Active
  <2>3. CASE Drivers(r) = {}
    BY <2>2, <2>3, FS_EmptySet
  <2>4. ASSUME NEW t \in Drivers(r) PROVE Cardinality(Drivers(r)) = 1 /\ claimed # r
    <3>1. Drivers(r) = {t} /\ claimed # r
      BY <2>1, <2>4 DEF RunOK
    <3> QED
      BY <3>1, FS_Singleton
  <2> QED
    BY <2>2, <2>3, <2>4
<1>2. Init => DrivenInv
  <2> SUFFICES ASSUME Init PROVE DrivenInv
    OBVIOUS
  <2>1. /\ mode = "up" /\ claimed = NoRun /\ detached = {} /\ \A r \in Runs : kicks[r] = 0
        /\ \A r \in Runs : status[r] = "absent"
        /\ \A t \in Tasks : task[t] = Idle
    BY DEF Init, StoreInit
  <2>2. Idle.pc = "idle" /\ Idle.run = NoRun /\ ~Idle.handling /\ ~Idle.cancelled
    BY DEF Idle
  <2>3. \A r \in Runs : Drivers(r) = {} /\ claimed # r
    BY <2>1, <2>2, RuntimeAssumption DEF Drivers
  <2>4. \A r \in Runs : RunOK(r)
    BY <2>1, <2>3 DEF RunOK, Active
  <2> QED
    BY <2>1, <2>2, <2>4 DEF DrivenInv, StopPCs
<1>3. TypeInv /\ TypeInv' /\ EffectInv /\ DrivenInv /\ [Next]_vars => DrivenInv'
  BY DrivenTask, DrivenElsewhere, NextCases
<1>4. TypeInv /\ TypeInv' /\ EffectInv /\ [Next]_vars => EffectInv'
  BY EffectStep
<1> QED
  BY <1>1, <1>2, <1>3, <1>4, EffectInit, TypeInvariant, PTL DEF Spec
=============================================================================
