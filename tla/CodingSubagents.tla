--------------------------- MODULE CodingSubagents ---------------------------
(* The coordinator of coding subagents: a root run starts children, waits    *)
(* for them without holding a slot (agent_deferred_waits), and shares one    *)
(* token budget with them (coding_model_reservations).  maintain(), which    *)
(* the dispatcher calls on every pass, answers the waits, settles what a     *)
(* lost process left open and ends the children of a root that has ended.    *)
(* Every step below is one transaction; the process may be lost between any  *)
(* two.                                                                      *)
EXTENDS Integers, FiniteSets, FiniteSetsExt

CONSTANTS
  Root, Children,
  GlobalConcurrency,  \* AgentRuntime.global_concurrency
  MaxActive,          \* concurrency_limit of the children's group
  RootTokens, ParentReserve,  \* subagents/policy.py
  ChildTokens,        \* the child's budget.max_model_tokens
  InputBound,         \* the estimate of one call's input
  MaxOutput,          \* the output cap of one call (2048)
  \* bounds
  MaxAnswer,          \* total_tokens of one answer
  MaxCalls,           \* model calls of a run
  MaxWaits,           \* waits the root registers
  MaxCrashes, MaxPauses

Runs == {Root} \cup Children
Calls == 1..MaxCalls

ASSUME SubagentAssumption ==
  /\ Root \notin Children
  /\ IsFiniteSet(Children)
  /\ {GlobalConcurrency, MaxActive, RootTokens, ParentReserve, ChildTokens, InputBound,
      MaxOutput, MaxAnswer, MaxCalls, MaxWaits, MaxCrashes, MaxPauses} \subseteq Nat
  /\ ParentReserve <= RootTokens

VARIABLES
  \* the store
  status,     \* agent_runs.status; planning counts as running
  overdue,    \* agent_runs.deadline_at has passed
  bound,      \* coding_subagents: the children with a host binding
  wait,       \* agent_deferred_waits: the row of the root, or NoWait
  call,       \* run_steps.status of the last wait call of the root
  tool,       \* a subagent_start step of the root is running
  step,       \* run_steps.status of the model calls of a run
  usage,      \* run_steps.output_json of a completed model call: its tokens
  book,       \* coding_model_reservations
  \* the process
  up,
  pc,         \* where the task of the run is; "none": no entry in _tasks
  arg,        \* the child the start call of the root creates
  spent,      \* the usage the provider reported to the task
  cancelled,  \* task.cancel() was called on the task
  answering,  \* maintain() has settled the wait step, not yet deleted the row
  listed,     \* the children cancel() of the root has listed, or NoList
  \* bounds
  waits, crashes, pauses

runVars == <<status, overdue, bound>>
waitVars == <<wait, call>>
budgetVars == <<step, usage, book>>
taskVars == <<pc, arg, spent, cancelled>>
boundVars == <<waits, crashes, pauses>>
vars == <<runVars, waitVars, tool, budgetVars, up, taskVars, answering, listed, boundVars>>

Terminal == {"completed", "failed", "cancelled"}
Statuses == {"absent", "queued", "running", "interrupted"} \cup Terminal
NoWait == [ids |-> {}, mode |-> "all", due |-> FALSE]
NoList == {Root}
NotCharged == -1
NoRow == [reserved |-> 0, charged |-> NotCharged]
PCs == {"none", "decide", "create", "bind", "return", "reserve", "calling", "settle",
        "charge", "requeue", "done"}

(* Every variable holds a value of its kind.                                 *)
TypeOK ==
  /\ status \in [Runs -> Statuses]
  /\ overdue \in [Runs -> BOOLEAN]
  /\ bound \subseteq Children
  /\ wait \in [ids : SUBSET Children, mode : {"any", "all"}, due : BOOLEAN]
  /\ call \in {"none", "running", "completed", "cancelled"}
  /\ tool \in BOOLEAN
  /\ step \in [Runs -> [Calls -> {"none", "running", "completed", "failed", "cancelled",
                                 "uncertain"}]]
  /\ usage \in [Runs -> [Calls -> Nat]]
  /\ book \in [Runs -> [Calls -> [reserved : Nat, charged : Nat \cup {NotCharged}]]]
  /\ up \in BOOLEAN
  /\ pc \in [Runs -> PCs]
  /\ arg \in Children \cup {Root}
  /\ spent \in [Runs -> Nat]
  /\ cancelled \in [Runs -> BOOLEAN]
  /\ answering \in BOOLEAN
  /\ listed \in SUBSET Children \cup {NoList}
  /\ waits \in 0..MaxWaits /\ crashes \in 0..MaxCrashes /\ pauses \in 0..MaxPauses

Init ==
  /\ status = [r \in Runs |-> IF r = Root THEN "queued" ELSE "absent"]
  /\ overdue = [r \in Runs |-> FALSE]
  /\ bound = {}
  /\ wait = NoWait /\ call = "none" /\ tool = FALSE
  /\ step = [r \in Runs |-> [k \in Calls |-> "none"]]
  /\ usage = [r \in Runs |-> [k \in Calls |-> 0]]
  /\ book = [r \in Runs |-> [k \in Calls |-> NoRow]]
  /\ up = TRUE
  /\ pc = [r \in Runs |-> "none"]
  /\ arg = Root
  /\ spent = [r \in Runs |-> 0]
  /\ cancelled = [r \in Runs |-> FALSE]
  /\ answering = FALSE
  /\ listed = NoList
  /\ waits = 0 /\ crashes = 0 /\ pauses = 0

-----------------------------------------------------------------------------
(* The budget. *)

(* Variant: a call whose usage is not known yet counts for nothing.          *)
HeldWhenCharged(b) == IF b.charged = NotCharged THEN 0 ELSE b.charged

(* COALESCE(charged_tokens, reserved_tokens).                                *)
Held(b) == IF b.charged = NotCharged THEN b.reserved ELSE b.charged

run_used(r) == SumFunction([k \in Calls |-> Held(book[r][k])])
used == SumFunction([r \in Runs |-> run_used(r)])

(* What the run may still reserve, input and output together.                *)
Allowance(r) ==
  IF r = Root THEN RootTokens - used
  ELSE Min({RootTokens - used - ParentReserve, ChildTokens - run_used(r)})

-----------------------------------------------------------------------------
(* A task. *)

At(r, l) == up /\ pc[r] = l /\ ~cancelled[r]
Goto(r, l) == pc' = [pc EXCEPT ![r] = l]
Move(r, to) == status' = [status EXCEPT ![r] = IF @ = "running" THEN to ELSE @]

(* The run ends by itself: an answer, a failed step, an exhausted budget.    *)
Finish(r) ==
  /\ At(r, "decide")
  /\ \E to \in {"completed", "failed"} : Move(r, to)
  /\ Goto(r, "done")
  /\ UNCHANGED <<overdue, bound, waitVars, tool, budgetVars, up, arg, spent, cancelled,
                 answering, listed, boundVars>>

(* subagent_start: the tool step is recorded, then start() runs on a thread. *)
StartTool ==
  /\ At(Root, "decide")
  /\ \E c \in Children \ bound : arg' = c
  /\ tool' = TRUE
  /\ Goto(Root, "create")
  /\ UNCHANGED <<runVars, waitVars, budgetVars, up, spent, cancelled, answering, listed,
                 boundVars>>

(* create_run under the key of the request: a child that an earlier attempt  *)
(* created is found again.  A refusal is returned to the model.              *)
CreateChild ==
  /\ At(Root, "create")
  /\ IF status[Root] = "running" /\ RootTokens - used > ParentReserve
     THEN /\ status' = [status EXCEPT ![arg] = IF @ = "absent" THEN "queued" ELSE @]
          /\ Goto(Root, "bind")
     ELSE Goto(Root, "return") /\ UNCHANGED status
  /\ UNCHANGED <<overdue, bound, waitVars, tool, budgetVars, up, arg, spent, cancelled,
                 answering, listed, boundVars>>

(* The second transaction of start(): the host binding.                      *)
BindChild ==
  /\ up /\ pc[Root] = "bind"
  /\ bound' = bound \cup {arg}
  /\ Goto(Root, "return")
  /\ UNCHANGED <<status, overdue, waitVars, tool, budgetVars, up, arg, spent, cancelled,
                 answering, listed, boundVars>>

(* The tool step is settled.                                                 *)
ReturnTool ==
  /\ At(Root, "return")
  /\ tool' = FALSE
  /\ arg' = Root
  /\ Goto(Root, "requeue")
  /\ UNCHANGED <<runVars, waitVars, budgetVars, up, spent, cancelled, answering, listed,
                 boundVars>>

Requeue(r) ==
  /\ At(r, "requeue")
  /\ Move(r, "queued")
  /\ Goto(r, "done")
  /\ UNCHANGED <<overdue, bound, waitVars, tool, budgetVars, up, arg, spent, cancelled,
                 answering, listed, boundVars>>

(* register_wait: one transaction records the step and the wait and takes    *)
(* the root off its slot, unless somebody has ended or paused it.            *)
RegisterWait ==
  /\ At(Root, "decide")
  /\ waits < MaxWaits
  /\ \E ids \in (SUBSET bound) \ {{}}, mode \in {"any", "all"} :
       IF status[Root] = "running"
       THEN /\ wait' = [ids |-> ids, mode |-> mode, due |-> FALSE]
            /\ call' = "running"
            /\ waits' = waits + 1
            /\ Move(Root, "queued")
       ELSE UNCHANGED <<status, waitVars, waits>>
  /\ Goto(Root, "done")
  /\ UNCHANGED <<overdue, bound, tool, budgetVars, up, arg, spent, cancelled,
                 answering, listed, crashes, pauses>>

(* The model call a task is at is the last one its run has started; a call   *)
(* that a pause and a loss of the process left running stays behind it.      *)
Fresh(r) == {k \in Calls : step[r][k] = "none"}
Own(r) == {k \in Calls \ Fresh(r) : \A j \in Calls : j > k => j \in Fresh(r)}

StartModel(r) ==
  /\ At(r, "decide")
  /\ Fresh(r) # {}
  /\ step' = [step EXCEPT ![r][Min(Fresh(r))] = "running"]
  /\ Goto(r, "reserve")
  /\ UNCHANGED <<runVars, waitVars, tool, usage, book, up, arg, spent, cancelled,
                 answering, listed, boundVars>>

(* reserve_model; without an allowance for the input the run fails.          *)
ReserveModel(r) ==
  /\ At(r, "reserve")
  /\ \E k \in Own(r) :
       IF Allowance(r) > InputBound
       THEN /\ book' = [book EXCEPT ![r][k].reserved =
                          InputBound + Min({MaxOutput, Allowance(r) - InputBound})]
            /\ Goto(r, "calling")
            /\ UNCHANGED <<status, step>>
       ELSE /\ step' = [step EXCEPT ![r][k] = "failed"]
            /\ Move(r, "failed")
            /\ Goto(r, "done")
            /\ UNCHANGED book
  /\ UNCHANGED <<overdue, bound, waitVars, tool, usage, up, arg, spent, cancelled,
                 answering, listed, boundVars>>

(* The provider reports what it likes: input_bound is an estimate, and no    *)
(* one compares the report with the reservation.  An answer without usage    *)
(* counts for what was reserved.                                             *)
ModelAnswers(r) ==
  /\ At(r, "calling")
  /\ \E k \in Own(r) : \E t \in 0..MaxAnswer \cup {book[r][k].reserved} :
       spent' = [spent EXCEPT ![r] = t]
  /\ Goto(r, "settle")
  /\ UNCHANGED <<runVars, waitVars, tool, budgetVars, up, arg, cancelled, answering, listed,
                 boundVars>>

(* A failed call fails its run, but the root compacts a context that is too  *)
(* long and goes on.                                                         *)
ModelFails(r) ==
  /\ At(r, "calling")
  /\ \E k \in Own(r) : step' = [step EXCEPT ![r][k] = "failed"]
  /\ \E to \in {"failed"} \cup (IF r = Root THEN {"queued"} ELSE {}) : Move(r, to)
  /\ Goto(r, "done")
  /\ UNCHANGED <<overdue, bound, waitVars, tool, usage, book, up, arg, spent, cancelled,
                 answering, listed, boundVars>>

(* settle_step with the response.                                            *)
SettleModelStep(r) ==
  /\ At(r, "settle")
  /\ \E k \in Own(r) :
       /\ step' = [step EXCEPT ![r][k] = "completed"]
       /\ usage' = [usage EXCEPT ![r][k] = spent[r]]
  /\ spent' = [spent EXCEPT ![r] = 0]
  /\ Goto(r, "charge")
  /\ UNCHANGED <<runVars, waitVars, tool, book, up, arg, cancelled, answering, listed,
                 boundVars>>

Uncharged(r) == {k \in Calls : step[r][k] = "completed" /\ book[r][k].charged = NotCharged}

(* settle_model of those among the calls K that are not charged yet.         *)
Charged(r, K) ==
  [k \in Calls |-> IF k \in K \cap Uncharged(r)
                   THEN [book[r][k] EXCEPT !.charged = usage[r][k]]
                   ELSE book[r][k]]

ChargeModel(r) ==
  /\ At(r, "charge")
  /\ book' = [book EXCEPT ![r] = Charged(r, Own(r))]
  /\ Goto(r, "requeue")
  /\ UNCHANGED <<runVars, waitVars, tool, step, usage, up, arg, spent, cancelled,
                 answering, listed, boundVars>>

(* CancelledError: the step of the task is given up, so that a later attempt *)
(* may take its place; the row was ended or paused before.  The thread that  *)
(* is in start() goes on, and binds the child it has created.                *)
Unwind(r) ==
  /\ up /\ cancelled[r] /\ pc[r] \notin {"none", "bind", "done"}
  /\ step' = [step EXCEPT ![r] =
       [k \in Calls |-> IF k \in Own(r) /\ pc[r] \in {"reserve", "calling", "settle"}
                        THEN "cancelled" ELSE step[r][k]]]
  /\ tool' = (tool /\ r # Root)
  /\ arg' = IF r = Root THEN Root ELSE arg
  /\ spent' = [spent EXCEPT ![r] = 0]
  /\ cancelled' = [cancelled EXCEPT ![r] = FALSE]
  /\ Goto(r, "done")
  /\ UNCHANGED <<runVars, waitVars, usage, book, up, answering, listed, boundVars>>

TaskDone(r) ==
  /\ up /\ pc[r] = "done"
  /\ Goto(r, "none")
  /\ cancelled' = [cancelled EXCEPT ![r] = FALSE]
  /\ UNCHANGED <<runVars, waitVars, tool, budgetVars, up, arg, spent, answering, listed,
                 boundVars>>

-----------------------------------------------------------------------------
(* One pass of the dispatcher: maintain(), then the claims. *)

Ended(c) == status[c] \in Terminal

(* Variant: a wait has no deadline.                                          *)
AnswerableByChildren ==
  IF wait.mode = "any" THEN \E c \in wait.ids : Ended(c) ELSE \A c \in wait.ids : Ended(c)

Answerable ==
  \/ Ended(Root)
  \/ wait.due
  \/ IF wait.mode = "any" THEN \E c \in wait.ids : Ended(c) ELSE \A c \in wait.ids : Ended(c)

(* Variant: the row of the wait is deleted before its step is settled.       *)
DeleteFirst ==
  /\ up /\ ~answering /\ wait # NoWait /\ Answerable
  /\ wait' = NoWait
  /\ UNCHANGED <<runVars, call, tool, budgetVars, up, taskVars, answering, listed, boundVars>>

(* settle_step leaves a step alone that an earlier pass has settled.         *)
SettleWait ==
  /\ up /\ ~answering /\ wait # NoWait /\ Answerable
  /\ call' = IF call # "running" THEN call
             ELSE IF Ended(Root) THEN "cancelled" ELSE "completed"
  /\ answering' = TRUE
  /\ UNCHANGED <<runVars, wait, tool, budgetVars, up, taskVars, listed, boundVars>>

DeleteWait ==
  /\ up /\ answering
  /\ wait' = NoWait
  /\ answering' = FALSE
  /\ UNCHANGED <<runVars, call, tool, budgetVars, up, taskVars, listed, boundVars>>

(* Variant: maintain() settles no budget.                                    *)
NeverReconcile(r) == FALSE /\ UNCHANGED vars

(* "Reconcile completed responses after a process loss".                     *)
Reconcile(r) ==
  /\ up /\ Uncharged(r) # {}
  /\ book' = [book EXCEPT ![r] = Charged(r, Calls)]
  /\ UNCHANGED <<runVars, waitVars, tool, step, usage, up, taskVars, answering, listed,
                 boundVars>>

Cancel(S) ==
  /\ status' = [r \in Runs |-> IF r \in S /\ ~Ended(r) THEN "cancelled" ELSE status[r]]
  /\ cancelled' = [r \in Runs |-> cancelled[r] \/ (r \in S /\ pc[r] \notin {"none", "done"})]

Started == {c \in Children : status[c] # "absent"}

(* Variant: only a root the user has cancelled takes its children with it.   *)
EndsOnlyWithCancelled ==
  /\ up /\ status[Root] = "cancelled"
  /\ \E c \in bound : ~Ended(c)
  /\ Cancel({c \in Started : ~Ended(c)})
  /\ UNCHANGED <<overdue, bound, waitVars, tool, budgetVars, up, pc, arg, spent, answering,
                 listed, boundVars>>

(* The children of a root that has ended, however it has.                    *)
EndsChildren ==
  /\ up /\ Ended(Root)
  /\ \E c \in bound : ~Ended(c)
  /\ Cancel({c \in Started : ~Ended(c)})
  /\ UNCHANGED <<overdue, bound, waitVars, tool, budgetVars, up, pc, arg, spent, answering,
                 listed, boundVars>>

HasSlot == Cardinality({r \in Runs : pc[r] # "none"}) < GlobalConcurrency
Overdue == {r \in Runs : status[r] = "queued" /\ overdue[r]}
Claimable ==
  {r \in Runs :
    /\ status[r] = "queued" /\ ~overdue[r]
    /\ r = Root => wait = NoWait
    /\ r \in Children => /\ r \in bound
                         /\ Cardinality({c \in Children : status[c] = "running"}) < MaxActive}

(* claim_next and the task it starts.  A task of the run that has not ended  *)
(* yet is AgentRuntime's subject; here it ends first.                        *)
Claim ==
  /\ up /\ ~answering /\ HasSlot
  /\ \E r \in Claimable : /\ pc[r] = "none"
                          /\ Goto(r, "decide")
                          /\ status' = [s \in Runs |-> IF s \in Overdue THEN "cancelled"
                                                       ELSE IF s = r THEN "running"
                                                       ELSE status[s]]
  /\ UNCHANGED <<overdue, bound, waitVars, tool, budgetVars, up, arg, spent, cancelled,
                 answering, listed, boundVars>>

(* The same call when it finds nothing to claim.                             *)
Sweep ==
  /\ up /\ ~answering /\ HasSlot
  /\ Claimable = {} /\ Overdue # {}
  /\ status' = [s \in Runs |-> IF s \in Overdue THEN "cancelled" ELSE status[s]]
  /\ UNCHANGED <<overdue, bound, waitVars, tool, budgetVars, up, taskVars, answering, listed,
                 boundVars>>

-----------------------------------------------------------------------------
(* The clock, the user and the process. *)

(* A wait ends no later than its root, a child no later than its root.       *)
DeadlinePasses(r) ==
  /\ status[r] \notin Terminal \cup {"absent"} /\ ~overdue[r]
  /\ overdue' = [s \in Runs |-> overdue[s] \/ s = r \/ (r = Root /\ s \in Started)]
  /\ wait' = IF r = Root /\ wait # NoWait THEN [wait EXCEPT !.due = TRUE] ELSE wait
  /\ UNCHANGED <<status, bound, call, tool, budgetVars, up, taskVars, answering, listed,
                 boundVars>>

WaitFallsDue ==
  /\ wait # NoWait /\ ~wait.due
  /\ wait' = [wait EXCEPT !.due = TRUE]
  /\ UNCHANGED <<runVars, call, tool, budgetVars, up, taskVars, answering, listed, boundVars>>

(* The user cancels the root: cancel() lists the descendants, then ends them *)
(* and the root; AgentDelegation has its steps one by one.                   *)
CancelLists ==
  /\ up /\ listed = NoList /\ ~Ended(Root)
  /\ listed' = {c \in Started : ~Ended(c)}
  /\ UNCHANGED <<runVars, waitVars, tool, budgetVars, up, taskVars, answering, boundVars>>

CancelEnds ==
  /\ up /\ listed # NoList
  /\ Cancel(listed \cup {Root})
  /\ listed' = NoList
  /\ UNCHANGED <<overdue, bound, waitVars, tool, budgetVars, up, pc, arg, spent, answering,
                 boundVars>>

(* The user pauses the root and its children, and resumes them.  A step that *)
(* recovery left uncertain is to be tried again, or taken for completed; an  *)
(* answer without usage is charged what was reserved.                        *)
Pause ==
  /\ up /\ pauses < MaxPauses
  /\ status[Root] \in {"queued", "running"}
  /\ pauses' = pauses + 1
  /\ LET paused == {r \in Runs : status[r] \in {"queued", "running"}}
     IN /\ status' = [r \in Runs |-> IF r \in paused THEN "interrupted" ELSE status[r]]
        /\ cancelled' = [r \in Runs |-> cancelled[r]
                                          \/ (r \in paused /\ pc[r] \notin {"none", "done"})]
  /\ UNCHANGED <<overdue, bound, waitVars, tool, budgetVars, up, pc, arg, spent, answering,
                 listed, waits, crashes>>

Resume ==
  /\ up /\ status[Root] = "interrupted"
  /\ LET resumed == {r \in Runs : status[r] = "interrupted"}
         unsure(r, k) == r \in resumed /\ step[r][k] = "uncertain"
     IN  /\ status' = [r \in Runs |-> IF r \in resumed THEN "queued" ELSE status[r]]
         /\ overdue' = [r \in Runs |-> overdue[r] /\ r \notin resumed]
         /\ \E to \in {"failed", "completed"} :
              /\ step' = [r \in Runs |-> [k \in Calls |->
                           IF unsure(r, k) THEN to ELSE step[r][k]]]
              /\ usage' = [r \in Runs |-> [k \in Calls |->
                            IF unsure(r, k) /\ to = "completed" THEN book[r][k].reserved
                            ELSE usage[r][k]]]
  /\ UNCHANGED <<bound, waitVars, tool, book, up, taskVars, answering, listed, boundVars>>

ProcessLoss ==
  /\ up /\ crashes < MaxCrashes
  /\ up' = FALSE
  /\ crashes' = crashes + 1
  /\ pc' = [r \in Runs |-> "none"]
  /\ arg' = Root
  /\ spent' = [r \in Runs |-> 0]
  /\ cancelled' = [r \in Runs |-> FALSE]
  /\ answering' = FALSE
  /\ listed' = NoList
  /\ UNCHANGED <<runVars, waitVars, tool, budgetVars, waits, pauses>>

(* recover_interrupted: a tool step under way leaves its run to the user,    *)
(* with all its open steps; any other run is queued again with its model     *)
(* calls given up.                                                           *)
Restart ==
  /\ ~up
  /\ up' = TRUE
  /\ LET lost == {r \in Runs : status[r] = "running"}
         unsure(r) == r = Root /\ tool
     IN /\ status' = [r \in Runs |-> IF r \notin lost THEN status[r]
                                     ELSE IF unsure(r) THEN "interrupted"
                                     ELSE "queued"]
        /\ overdue' = [r \in Runs |-> overdue[r] /\ r \notin lost]
        /\ step' = [r \in Runs |-> [k \in Calls |->
             IF r \in lost /\ step[r][k] = "running"
             THEN IF unsure(r) THEN "uncertain" ELSE "cancelled"
             ELSE step[r][k]]]
        /\ tool' = (tool /\ Root \notin lost)
  /\ UNCHANGED <<bound, waitVars, usage, book, taskVars, answering, listed, boundVars>>

-----------------------------------------------------------------------------
Task(r) ==
  \/ Finish(r) \/ Requeue(r) \/ StartModel(r) \/ ReserveModel(r) \/ ModelAnswers(r)
  \/ ModelFails(r) \/ SettleModelStep(r) \/ ChargeModel(r)

RootTask == StartTool \/ CreateChild \/ ReturnTool \/ RegisterWait

Clock == WaitFallsDue \/ \E r \in Runs : DeadlinePasses(r)

User == CancelLists \/ CancelEnds \/ Pause \/ Resume

Next ==
  \/ \E r \in Runs : Task(r) \/ Unwind(r) \/ TaskDone(r) \/ Reconcile(r)
  \/ RootTask \/ BindChild \/ SettleWait \/ DeleteWait \/ EndsChildren \/ Claim \/ Sweep
  \/ Clock \/ User \/ ProcessLoss \/ Restart

Spec == Init /\ [][Next]_vars

(* The dispatcher passes again and again, a lost process is started again, a *)
(* cancelled task ends and time goes by.  Nothing is asked of the model, the *)
(* user or a run that is not cancelled.                                      *)
FairSpec ==
  /\ Spec
  /\ WF_vars(Restart) /\ WF_vars(SettleWait) /\ WF_vars(DeleteWait) /\ WF_vars(BindChild)
  /\ WF_vars(EndsChildren) /\ WF_vars(Sweep) /\ WF_vars(WaitFallsDue)
  /\ \A r \in Runs : /\ WF_vars(Unwind(r)) /\ WF_vars(TaskDone(r)) /\ WF_vars(Reconcile(r))
                     /\ WF_vars(DeadlinePasses(r))

-----------------------------------------------------------------------------
(* Every wait call of the root gets exactly one result: the root does not go *)
(* on before the step is settled, and while the step is open a wait row says *)
(* who will settle it, whatever process loss, pause or cancel comes between. *)
WaitPaired ==
  /\ status[Root] = "running" => call # "running"
  /\ call = "running" => wait # NoWait

(* What a call takes of the budget: its reservation, or what it used of it.  *)
Taken(b) == IF b.charged \in 0..b.reserved THEN b.charged ELSE b.reserved
TakenOf(r) == SumFunction([k \in Calls |-> Taken(book[r][k])])

(* What providers report beyond the reservations of their calls apart, which *)
(* settle_model charges but nothing can hold back, the tree never takes more *)
(* than the root budget, and its children leave the parent its reserve,      *)
(* however reservations, settlements and process losses interleave: an       *)
(* overrun stops further reservations, it never lets more through.  About    *)
(* reserve_model against settle_model.                                       *)
BudgetHeld ==
  /\ SumFunction([r \in Runs |-> TakenOf(r)]) <= RootTokens
  /\ SumFunction([c \in Children |-> TakenOf(c)]) <= RootTokens - ParentReserve

(* A wait ends, whatever the children, the model and the user do.  About     *)
(* maintain(), the deadline of the wait and the restart of the process.      *)
WaitEnds == (wait # NoWait) ~> (wait = NoWait)

(* Children that have not ended, but for those paused without a binding.     *)
Stragglers ==
  {c \in Started : ~Ended(c) /\ (status[c] = "interrupted" => c \in bound)}

(* When the root has ended, however it has, its children end: those it had   *)
(* started, those a concurrent start() was still creating, and one that a    *)
(* process loss left without its binding, unless the user had paused that.   *)
ChildrenEnd == (Ended(Root) /\ Stragglers # {}) ~> (Stragglers = {})

(* A completed model call is charged what it used, even when the process is  *)
(* lost, or the task cancelled, before it can settle its reservation.        *)
ChargesSettle == \A r \in Runs : (Uncharged(r) # {}) ~> (Uncharged(r) = {})
=============================================================================
