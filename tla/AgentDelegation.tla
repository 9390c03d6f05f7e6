--------------------------- MODULE AgentDelegation ---------------------------
(* Delegation between agent runs: the agent.delegate tool, the wait of a     *)
(* parent for its child, and the cancellation of a tree of runs.  What one   *)
(* task does between two delegations is AgentRuntime's subject; here it is   *)
(* "work" that ends the run, asks the user, or goes back to the queue.       *)
(*                                                                           *)
(* Three kinds of actors: the tasks and the dispatcher on the event loop,    *)
(* the reads that asyncio.to_thread moves off it, and the cancel endpoint,   *)
(* which is a plain function and so runs on a thread of its own.             *)
EXTENDS Integers, FiniteSets

CONSTANTS
  Runs,               \* agent runs, those a delegation may create included
  ParentOf,           \* the run that delegates to r, or NoRun for a root
  NoRun,
  Timeout,            \* definition.timeout_seconds, in ticks
  Askers,             \* runs whose agent may ask the user
  CancelRuns,         \* runs the user may cancel
  GlobalConcurrency,  \* AgentRuntime.global_concurrency
  MaxChildRuns,       \* AgentRepository.MAX_CHILD_RUNS
  MaxDelegationDepth, \* AgentRepository.MAX_DELEGATION_DEPTH
  \* bounds
  Horizon,            \* the clock stops here
  LastAnswer,         \* the user answers no later than this
  MaxCancels          \* cancel requests

ASSUME DelegationAssumption ==
  /\ NoRun \notin Runs
  /\ ParentOf \in [Runs -> Runs \cup {NoRun}]
  /\ Timeout \in [Runs -> Nat]
  /\ Askers \subseteq Runs /\ CancelRuns \subseteq Runs
  /\ {GlobalConcurrency, MaxChildRuns, MaxDelegationDepth,
      Horizon, LastAnswer, MaxCancels} \subseteq Nat

VARIABLES
  status,     \* agent_runs.status
  deadline,   \* agent_runs.deadline_at
  since,      \* agent_runs.updated_at of a run that waits for the user
  pc,         \* where the task of the run is; "none": no entry in _tasks
  callee,     \* the child the task delegates to
  seen,       \* the child status get_run last returned to the task
  timer,      \* when the wait of the task times out
  cancelled,  \* task.cancel() was called on the task
  event,      \* _terminal_events: none, open (registered), set (popped)
  claimed,    \* the run the dispatcher has claimed and not yet spawned
  cancel,     \* the cancel() in progress
  cancels,    \* cancel requests so far
  now

rowVars == <<status, deadline, since>>
taskVars == <<pc, callee, seen, timer, cancelled>>
apiVars == <<cancel, cancels>>
vars == <<rowVars, taskVars, event, claimed, apiVars, now>>

Terminal == {"completed", "failed", "cancelled"}
Active == {"planning", "running"}
Statuses == {"absent", "queued", "waiting"} \cup Active \cup Terminal
Reading == [read1 |-> "got1", read2 |-> "got2", read3 |-> "got3"]
Delegating == {"read1", "got1", "read2", "got2", "wait", "read3", "got3"}
PCs == {"none", "start", "work", "answered", "errored", "done"} \cup Delegating
NoCancel == [pc |-> "idle", todo |-> {}]

(* Every variable holds a value of its kind.                                 *)
TypeOK ==
  /\ status \in [Runs -> Statuses]
  /\ deadline \in [Runs -> Nat]
  /\ since \in [Runs -> Nat]
  /\ pc \in [Runs -> PCs]
  /\ callee \in [Runs -> Runs \cup {NoRun}]
  /\ seen \in [Runs -> Statuses]
  /\ timer \in [Runs -> Nat]
  /\ cancelled \in [Runs -> BOOLEAN]
  /\ event \in [Runs -> {"none", "open", "set"}]
  /\ claimed \in Runs \cup {NoRun}
  /\ cancel \in [pc : {"idle", "commit", "notify"}, todo : SUBSET Runs]
  /\ cancels \in 0..MaxCancels
  /\ now \in 0..Horizon

-----------------------------------------------------------------------------
(* The tree. *)

Children(p) == {c \in Runs : ParentOf[c] = p}

(* The proper ancestors of r; a tree is never deeper than it has runs.       *)
Ancestors(r) ==
  LET up[n \in 0..Cardinality(Runs)] ==
        IF n = 0 THEN {ParentOf[r]} \ {NoRun}
        ELSE up[n - 1] \cup ({ParentOf[a] : a \in up[n - 1]} \ {NoRun})
  IN up[Cardinality(Runs)]

Depth(r) == Cardinality(Ancestors(r))

list_descendants(r) == {d \in Runs : r \in Ancestors(d) /\ status[d] # "absent"}

Init ==
  /\ status = [r \in Runs |-> IF ParentOf[r] = NoRun THEN "queued" ELSE "absent"]
  /\ deadline = [r \in Runs |-> IF ParentOf[r] = NoRun THEN Timeout[r] ELSE 0]
  /\ since = [r \in Runs |-> 0]
  /\ pc = [r \in Runs |-> "none"]
  /\ callee = [r \in Runs |-> NoRun]
  /\ seen = [r \in Runs |-> "absent"]
  /\ timer = [r \in Runs |-> 0]
  /\ cancelled = [r \in Runs |-> FALSE]
  /\ event = [r \in Runs |-> "none"]
  /\ claimed = NoRun
  /\ cancel = NoCancel
  /\ cancels = 0
  /\ now = 0

-----------------------------------------------------------------------------
(* The dispatcher. *)

Overdue == {r \in Runs : status[r] = "queued" /\ deadline[r] <= now}
Claimable == {r \in Runs : status[r] = "queued" /\ deadline[r] > now}
HasSlot == Cardinality({r \in Runs : pc[r] # "none"}) < GlobalConcurrency

(* claim_next: one transaction that cancels the overdue rows of the queue,   *)
(* telling nobody, and moves a row to planning.  Priority and age, which     *)
(* choose among the candidates, are left out.                                *)
Claim ==
  /\ claimed = NoRun /\ HasSlot
  /\ \E r \in Claimable \cup {NoRun} :
       /\ r = NoRun => Claimable = {} /\ Overdue # {}
       /\ claimed' = r
       /\ status' = [s \in Runs |-> IF s \in Overdue THEN "cancelled"
                                    ELSE IF s = r THEN "planning" ELSE status[s]]
  /\ UNCHANGED <<deadline, since, taskVars, event, apiVars, now>>

(* Back on the loop.  A task of the run that has ended but whose callback is *)
(* still to come is AgentRuntime's subject; here the callback comes first.   *)
Spawn ==
  /\ claimed # NoRun
  /\ pc[claimed] = "none"
  /\ pc' = [pc EXCEPT ![claimed] = "start"]
  /\ claimed' = NoRun
  /\ UNCHANGED <<rowVars, callee, seen, timer, cancelled, event, apiVars, now>>

(* _notify_run_terminal: pops the event and sets it.                         *)
Notify(r) == event' = [event EXCEPT ![r] = IF @ = "open" THEN "set" ELSE @]

(* _task_done.                                                               *)
TaskDone(r) ==
  /\ pc[r] = "done"
  /\ pc' = [pc EXCEPT ![r] = "none"]
  /\ IF status[r] \in Terminal THEN Notify(r) ELSE UNCHANGED event
  /\ UNCHANGED <<rowVars, callee, seen, timer, cancelled, claimed, apiVars, now>>

-----------------------------------------------------------------------------
(* A task. *)

(* The task is at pc and no CancelledError is on its way to it.              *)
At(r, l) == pc[r] = l /\ ~cancelled[r]
Goto(r, l) == pc' = [pc EXCEPT ![r] = l]

(* The delegate call is over and its frame gone.                             *)
Leave(r, l) ==
  /\ Goto(r, l)
  /\ callee' = [callee EXCEPT ![r] = NoRun]
  /\ seen' = [seen EXCEPT ![r] = "absent"]
  /\ timer' = [timer EXCEPT ![r] = 0]

(* transition(): a move from a status that is not the expected one raises,   *)
(* and the handler finds a finished run and leaves it.                       *)
Move(r, expected, to) ==
  status' = [status EXCEPT ![r] = IF @ = expected THEN to ELSE @]

Start(r) ==
  /\ At(r, "start")
  /\ Move(r, "planning", "running")
  /\ Goto(r, IF status[r] = "planning" THEN "work" ELSE "done")
  /\ UNCHANGED <<deadline, since, callee, seen, timer, cancelled, event, claimed, apiVars, now>>

(* A step that is no delegation.  Asking the user ends the task; the row     *)
(* keeps the time of its last write.                                         *)
Finish(r) ==
  /\ At(r, "work")
  /\ \E to \in {"completed", "failed", "queued"}
               \cup (IF r \in Askers THEN {"waiting"} ELSE {}) :
       /\ Move(r, "running", to)
       /\ since' = [since EXCEPT ![r] = IF to = "waiting" THEN now ELSE @]
  /\ Goto(r, "done")
  /\ UNCHANGED <<deadline, callee, seen, timer, cancelled, event, claimed, apiVars, now>>

(* create_run's conditions on the parent.                                    *)
MayCreate(p, c) ==
  /\ status[p] \in Active
  /\ Depth(c) <= MaxDelegationDepth
  /\ Cardinality({d \in Children(p) : status[d] # "absent"}) < MaxChildRuns

(* The deadline of the child: create_run bounds it by the parent's.          *)
ChildDeadline(p, c) ==
  IF now + Timeout[c] <= deadline[p] THEN now + Timeout[c] ELSE deadline[p]

(* delegate() up to its first await: finds the child of the request key, or  *)
(* creates it; the wait will last until one tick after the child's deadline. *)
Delegate(p) ==
  /\ At(p, "work")
  /\ \E c \in Children(p) :
       IF status[c] = "absent" /\ ~MayCreate(p, c)
       THEN Goto(p, "errored") /\ UNCHANGED <<rowVars, callee, timer>>
       ELSE /\ status' = [status EXCEPT ![c] = IF @ = "absent" THEN "queued" ELSE @]
            /\ deadline' = [deadline EXCEPT ![c] =
                              IF status[c] = "absent" THEN ChildDeadline(p, c) ELSE @]
            /\ callee' = [callee EXCEPT ![p] = c]
            /\ timer' = [timer EXCEPT ![p] = deadline'[c] + 1]
            /\ Goto(p, "read1")
            /\ UNCHANGED since
  /\ UNCHANGED <<seen, cancelled, event, claimed, apiVars, now>>

(* get_run on a thread: what it returns may be stale when the task resumes.  *)
ReadStatus(p) ==
  /\ pc[p] \in DOMAIN Reading /\ ~cancelled[p]
  /\ seen' = [seen EXCEPT ![p] = status[callee[p]]]
  /\ Goto(p, Reading[pc[p]])
  /\ UNCHANGED <<rowVars, callee, timer, cancelled, event, claimed, apiVars, now>>

Outcome(s) == IF s = "completed" THEN "answered" ELSE "errored"

(* The first read: a finished child is returned, or the event is registered. *)
Register(p) ==
  /\ At(p, "got1")
  /\ IF seen[p] \in Terminal
     THEN Leave(p, Outcome(seen[p])) /\ UNCHANGED event
     ELSE /\ event' = [event EXCEPT ![callee[p]] = "open"]
          /\ Goto(p, "read2")
          /\ UNCHANGED <<callee, seen, timer>>
  /\ UNCHANGED <<rowVars, cancelled, claimed, apiVars, now>>

(* Variant: the wait begins without looking at what the second read found.   *)
ConfirmBlindly(p) ==
  /\ At(p, "got2")
  /\ Goto(p, "wait")
  /\ UNCHANGED <<rowVars, callee, seen, timer, cancelled, event, claimed, apiVars, now>>

(* The second read, which closes the registration race.                      *)
Confirm(p) ==
  /\ At(p, "got2")
  /\ Goto(p, IF seen[p] \in Terminal THEN "read3" ELSE "wait")
  /\ UNCHANGED <<rowVars, callee, seen, timer, cancelled, event, claimed, apiVars, now>>

Woken(p) ==
  /\ At(p, "wait")
  /\ event[callee[p]] = "set"
  /\ event' = [event EXCEPT ![callee[p]] = "none"]
  /\ Goto(p, "read3")
  /\ UNCHANGED <<rowVars, callee, seen, timer, cancelled, claimed, apiVars, now>>

(* Variant: the wait has no timeout.                                         *)
NeverTimesOut(p) == FALSE /\ UNCHANGED vars

(* asyncio.wait_for gives up; the gateway reports tool_timeout.              *)
WaitTimesOut(p) ==
  /\ At(p, "wait")
  /\ now >= timer[p]
  /\ Leave(p, "errored")
  /\ UNCHANGED <<rowVars, cancelled, event, claimed, apiVars, now>>

(* The timeout of the tool itself, which does not depend on the child's.     *)
ToolTimesOut(p) ==
  /\ pc[p] \in Delegating /\ ~cancelled[p]
  /\ Leave(p, "errored")
  /\ UNCHANGED <<rowVars, cancelled, event, claimed, apiVars, now>>

Result(p) ==
  /\ At(p, "got3")
  /\ Leave(p, Outcome(seen[p]))
  /\ UNCHANGED <<rowVars, cancelled, event, claimed, apiVars, now>>

(* The tool step is settled: a result goes back to the queue for the next    *)
(* decision, an error does too or fails the run.                             *)
Settle(p) ==
  /\ pc[p] \in {"answered", "errored"} /\ ~cancelled[p]
  /\ \E to \in {"queued"} \cup (IF pc[p] = "errored" THEN {"failed"} ELSE {}) :
       Move(p, "running", to)
  /\ Goto(p, "done")
  /\ UNCHANGED <<deadline, since, callee, seen, timer, cancelled, event, claimed, apiVars, now>>

(* CancelledError: the row was cancelled first, so the handler leaves it.    *)
Unwind(r) ==
  /\ cancelled[r]
  /\ pc[r] \notin {"none", "done"}
  /\ Leave(r, "done")
  /\ cancelled' = [cancelled EXCEPT ![r] = FALSE]
  /\ UNCHANGED <<rowVars, event, claimed, apiVars, now>>

-----------------------------------------------------------------------------
(* The user and the clock. *)

(* respond_interaction with an answer: the run is queued again, its deadline *)
(* moved by the time it has waited (_resume_deadline).                       *)
Answer(r) ==
  /\ status[r] = "waiting"
  /\ now <= LastAnswer
  /\ status' = [status EXCEPT ![r] = "queued"]
  /\ deadline' = [deadline EXCEPT ![r] = @ + (now - since[r])]
  /\ since' = [since EXCEPT ![r] = 0]
  /\ UNCHANGED <<taskVars, event, claimed, apiVars, now>>

(* respond_interaction with a denial, or expire_interactions: the run fails  *)
(* in the store, where no task of it is left.                                *)
DenyOrExpire(r) ==
  /\ status[r] = "waiting"
  /\ status' = [status EXCEPT ![r] = "failed"]
  /\ UNCHANGED <<deadline, since, taskVars, event, claimed, apiVars, now>>

Tick ==
  /\ now < Horizon
  /\ now' = now + 1
  /\ UNCHANGED <<rowVars, taskVars, event, claimed, apiVars>>

-----------------------------------------------------------------------------
(* AgentRuntime.cancel: lists the descendants once, then for each one that   *)
(* was not finished, deepest first, and at last for the run itself: commits  *)
(* the cancellation, wakes the waiter, cancels the task.                     *)

CancelList(r) ==
  /\ cancel.pc = "idle"
  /\ r \in CancelRuns /\ cancels < MaxCancels
  /\ status[r] # "absent"
  /\ cancels' = cancels + 1
  /\ cancel' = [pc |-> "commit",
                todo |-> {r} \cup {d \in list_descendants(r) : status[d] \notin Terminal}]
  /\ UNCHANGED <<rowVars, taskVars, event, claimed, now>>

Deepest == CHOOSE d \in cancel.todo : \A e \in cancel.todo : Depth(e) <= Depth(d)

CancelCommit ==
  /\ cancel.pc = "commit"
  /\ status' = [status EXCEPT ![Deepest] = IF @ \in Terminal THEN @ ELSE "cancelled"]
  /\ cancel' = [cancel EXCEPT !.pc = "notify"]
  /\ UNCHANGED <<deadline, since, taskVars, event, claimed, cancels, now>>

CancelNotify ==
  /\ cancel.pc = "notify"
  /\ Notify(Deepest)
  /\ cancelled' = [cancelled EXCEPT ![Deepest] = @ \/ pc[Deepest] \notin {"none", "done"}]
  /\ LET rest == cancel.todo \ {Deepest}
     IN cancel' = IF rest = {} THEN NoCancel ELSE [pc |-> "commit", todo |-> rest]
  /\ UNCHANGED <<rowVars, pc, callee, seen, timer, claimed, cancels, now>>

-----------------------------------------------------------------------------
Loop(r) ==
  \/ Start(r) \/ Finish(r) \/ Delegate(r) \/ ReadStatus(r) \/ Register(r)
  \/ Confirm(r) \/ Woken(r) \/ WaitTimesOut(r) \/ Result(r) \/ Settle(r)
  \/ Unwind(r) \/ TaskDone(r)

User(r) == Answer(r) \/ DenyOrExpire(r) \/ CancelList(r)

Next ==
  \/ Claim \/ Spawn \/ Tick \/ CancelCommit \/ CancelNotify
  \/ \E r \in Runs : Loop(r) \/ ToolTimesOut(r) \/ User(r)

Spec == Init /\ [][Next]_vars

(* The event loop runs every task that can go on, the dispatcher polls, and  *)
(* time passes.  The user and the tool's own timeout owe nothing.            *)
FairSpec ==
  /\ Spec
  /\ WF_vars(Claim) /\ WF_vars(Spawn) /\ WF_vars(Tick)
  /\ \A r \in Runs : WF_vars(Loop(r))

-----------------------------------------------------------------------------
(* The wait is not lost: when a parent waits for a child that has ended      *)
(* within its deadline and asks its user nothing, its event is set, or the   *)
(* task of the child or a cancel() is still to set it.  About the order of   *)
(* wait_for_terminal's reads and registration against _notify_run_terminal.  *)
(* (The denial of a request and the sweep of claim_next end a run in the     *)
(* store and wake nobody: the parent waits until its timeout.)               *)
NoLostWake ==
  \A p \in Runs :
    (/\ pc[p] = "wait" /\ ~cancelled[p] /\ status[callee[p]] \in Terminal
     /\ callee[p] \notin Askers /\ deadline[callee[p]] > now)
      => \/ event[callee[p]] = "set"
         \/ pc[callee[p]] # "none"
         \/ claimed = callee[p]
         \/ cancel.pc = "notify" /\ Deepest = callee[p]

(* A wait for a child always ends, even when every slot is held by a run     *)
(* that waits for a child nobody can start, or when the child waits for a    *)
(* user who never answers.  About the timeout delegate() passes on.          *)
DelegationReturns ==
  \A p \in {r \in Runs : Children(r) # {}} : pc[p] = "wait" ~> pc[p] # "wait"
=============================================================================
