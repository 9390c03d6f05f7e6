------------------------ MODULE AgentDelegationProofs ------------------------
(***************************************************************************)
(* Proofs about AgentDelegation for any forest of runs, any deadlines,     *)
(* limits and cancels: a parent that waits for a child is not forgotten.   *)
(***************************************************************************)
EXTENDS AgentDelegation, TLAPS

(* The parts of the types that the argument needs.                         *)
WakeTypes ==
  /\ status \in [Runs -> Statuses]
  /\ pc \in [Runs -> PCs]
  /\ callee \in [Runs -> Runs \cup {NoRun}]
  /\ seen \in [Runs -> Statuses]
  /\ event \in [Runs -> {"none", "open", "set"}]
  /\ cancel \in [pc : {"idle", "commit", "notify"}, todo : SUBSET Runs]
  /\ deadline \in [Runs -> Int] /\ since \in [Runs -> Int] /\ now \in Int

(* The child ended by itself or by a cancel().                             *)
Ended(c) == status[c] \in Terminal /\ c \notin Askers /\ deadline[c] > now

(* The event of the child is set, or somebody is still to set it.          *)
Waking(c) ==
  \/ event[c] = "set" \/ pc[c] # "none" \/ claimed = c
  \/ cancel.pc = "notify" /\ Deepest = c

(* A task that has read a child as unfinished after it had registered.     *)
Committed(p) == pc[p] = "wait" \/ (pc[p] = "got2" /\ seen[p] \notin Terminal)

ParentOK(p) ==
  /\ pc[p] \in Delegating => callee[p] \in Runs /\ ParentOf[callee[p]] = p
  /\ pc[p] \in {"read2", "got2", "wait"} => event[callee[p]] # "none"
  /\ Committed(p) /\ Ended(callee[p]) => Waking(callee[p])

WakeInv ==
  /\ WakeTypes
  /\ \A r \in Runs : status[r] = "waiting" => r \in Askers
  /\ \A p \in Runs : ParentOK(p)

-----------------------------------------------------------------------------
(* Which run a cancel() handles next depends on its list alone.            *)
LEMMA SameDeepest ==
  ASSUME cancel.todo' = cancel.todo
  PROVE  Deepest' = Deepest
BY DEF Deepest

(* A step that leaves the task of p alone, ends no child on the quiet and  *)
(* forgets no wake that is under way keeps the promise to p.               *)
LEMMA KeptPromise ==
  ASSUME NEW p \in Runs, WakeTypes, ParentOK(p),
         pc'[p] = pc[p], callee'[p] = callee[p], seen'[p] = seen[p],
         \A c \in Runs : ParentOf[c] = p =>
           /\ event[c] # "none" => event'[c] # "none"
           /\ Ended(c)' /\ event[c] # "none" => (Ended(c) /\ ~Waking(c)) \/ Waking(c)'
  PROVE  ParentOK(p)'
<1>1. CASE pc[p] \notin Delegating
  BY <1>1 DEF ParentOK, Committed, Delegating
<1>2. CASE pc[p] \in Delegating
  <2>1. PICK c \in Runs : c = callee[p] /\ ParentOf[c] = p
    BY <1>2 DEF ParentOK
  <2>2. pc[p] \in {"read2", "got2", "wait"} => event[c] # "none"
    BY <2>1 DEF ParentOK
  <2>3. /\ Committed(p)' = Committed(p)
        /\ Committed(p) => pc[p] \in {"read2", "got2", "wait"}
    BY DEF Committed
  <2>4. Committed(p) /\ Ended(c) => Waking(c)
    BY <2>1 DEF ParentOK
  <2>5. Committed(p)' /\ Ended(c)' => Waking(c)'
    BY <2>1, <2>2, <2>3, <2>4
  <2>6. Committed(p)' /\ Ended(callee[p])' => Waking(callee[p])'
    BY <2>1, <2>5 DEF Ended, Waking
  <2> QED
    BY <2>1, <2>2, <2>6 DEF ParentOK
<1> QED
  BY <1>1, <1>2

(* Every step keeps the types.  *)
LEMMA TypesNext ==
  ASSUME DelegationAssumption, WakeInv, [Next]_vars
  PROVE  WakeTypes'
<1> WakeTypes /\ \A p \in Runs : ParentOK(p)
  BY DEF WakeInv
<1> USE DEF WakeTypes, rowVars, taskVars, apiVars, Goto, Leave, Move, Notify
<1> Terminal \subseteq Statuses /\ {"absent", "queued", "waiting", "planning", "running"} \subseteq Statuses
  BY DEF Statuses, Active, Terminal
<1> PCs = {"none", "start", "work", "answered", "errored", "done",
           "read1", "got1", "read2", "got2", "wait", "read3", "got3"}
  BY DEF PCs, Delegating
<1>1. CASE Claim
  BY <1>1 DEF Claim, Terminal
<1>2. CASE Spawn
  BY <1>2 DEF Spawn
<1>3. CASE Tick
  BY <1>3 DEF Tick
<1>4. CASE CancelCommit
  BY <1>4 DEF CancelCommit, Terminal
<1>5. CASE CancelNotify
  BY <1>5 DEF CancelNotify, NoCancel
<1>6. ASSUME NEW r \in Runs, Loop(r) PROVE WakeTypes'
  <2>1. CASE Start(r)
    BY <2>1 DEF Start
  <2>2. CASE Finish(r)
    BY <2>2 DEF Finish, Terminal
  <2>3. CASE Delegate(r)
    BY <2>3 DEF Delegate, Children, ChildDeadline, DelegationAssumption
  <2>4. CASE ReadStatus(r)
    <3>1. Reading[pc[r]] \in PCs
      BY <2>4 DEF ReadStatus, Reading
    <3>2. callee[r] \in Runs
      BY <2>4 DEF ReadStatus, Reading, ParentOK, Delegating
    <3> QED
      BY <2>4, <3>1, <3>2 DEF ReadStatus
  <2>5. CASE Register(r)
    BY <2>5 DEF Register, Outcome
  <2>6. CASE Confirm(r)
    BY <2>6 DEF Confirm
  <2>7. CASE Woken(r)
    BY <2>7 DEF Woken
  <2>8. CASE WaitTimesOut(r)
    BY <2>8 DEF WaitTimesOut
  <2>9. CASE Result(r)
    BY <2>9 DEF Result, Outcome
  <2>10. CASE Settle(r)
    BY <2>10 DEF Settle, Terminal
  <2>11. CASE Unwind(r)
    BY <2>11 DEF Unwind
  <2>12. CASE TaskDone(r)
    BY <2>12 DEF TaskDone
  <2> QED
    BY <1>6, <2>1, <2>2, <2>3, <2>4, <2>5, <2>6, <2>7, <2>8, <2>9, <2>10, <2>11, <2>12
    DEF Loop
<1>7. ASSUME NEW r \in Runs, ToolTimesOut(r) PROVE WakeTypes'
  BY <1>7 DEF ToolTimesOut
<1>8. ASSUME NEW r \in Runs, User(r) PROVE WakeTypes'
  <2>1. CASE Answer(r)
    BY <2>1 DEF Answer
  <2>2. CASE DenyOrExpire(r)
    BY <2>2 DEF DenyOrExpire, Terminal
  <2>3. CASE CancelList(r)
    BY <2>3 DEF CancelList, list_descendants
  <2> QED
    BY <1>8, <2>1, <2>2, <2>3 DEF User
<1>9. CASE UNCHANGED vars
  BY <1>9 DEF vars
<1> QED
  BY <1>1, <1>2, <1>3, <1>4, <1>5, <1>6, <1>7, <1>8, <1>9 DEF Next

(* Only a run that may ask its user waits for him.                         *)
LEMMA AskersNext ==
  ASSUME DelegationAssumption, WakeInv, [Next]_vars, NEW q \in Runs, status'[q] = "waiting"
  PROVE  q \in Askers
<1> WakeTypes /\ (status[q] = "waiting" => q \in Askers)
  BY DEF WakeInv
<1> USE DEF WakeTypes, rowVars, taskVars, apiVars, Move
<1>1. CASE Claim
  BY <1>1 DEF Claim
<1>2. CASE Spawn \/ Tick \/ CancelNotify \/ UNCHANGED vars
  BY <1>2 DEF Spawn, Tick, CancelNotify, vars
<1>3. CASE CancelCommit
  BY <1>3 DEF CancelCommit
<1>4. ASSUME NEW r \in Runs, Loop(r) PROVE q \in Askers
  <2>1. CASE Finish(r)
    BY <2>1 DEF Finish
  <2>2. CASE Start(r) \/ Delegate(r) \/ Settle(r)
    BY <2>2 DEF Start, Delegate, Settle
  <2> QED
    BY <1>4, <2>1, <2>2
    DEF Loop, ReadStatus, Register, Confirm, Woken, WaitTimesOut, Result, Unwind, TaskDone
<1>5. ASSUME NEW r \in Runs, ToolTimesOut(r) \/ User(r) PROVE q \in Askers
  BY <1>5 DEF ToolTimesOut, User, Answer, DenyOrExpire, CancelList
<1> QED
  BY <1>1, <1>2, <1>3, <1>4, <1>5 DEF Next

-----------------------------------------------------------------------------
(* A step of p's own delegation, with every other run at rest.             *)
LEMMA OwnStep ==
  ASSUME DelegationAssumption, WakeInv, WakeTypes', NEW p \in Runs,
         \/ ReadStatus(p) \/ Register(p) \/ Confirm(p) \/ Woken(p)
         \/ WaitTimesOut(p) \/ Result(p) \/ ToolTimesOut(p) \/ Unwind(p)
  PROVE  ParentOK(p)'
<1> WakeTypes /\ ParentOK(p)
  BY DEF WakeInv
<1> USE DEF WakeTypes, rowVars, taskVars, apiVars, Goto, Leave
<1>1. CASE ReadStatus(p)
  <2>1. PICK c \in Runs : c = callee[p] /\ ParentOf[c] = p
    BY <1>1 DEF ReadStatus, Reading, ParentOK, Delegating
  <2>2. pc'[p] \in {"got1", "got2", "got3"} /\ callee'[p] = c /\ seen'[p] = status[c]
    BY <1>1, <2>1 DEF ReadStatus, Reading
  <2>3. pc'[p] = "got2" => pc[p] = "read2"
    BY <1>1 DEF ReadStatus, Reading
  <2>4. UNCHANGED event /\ status' = status
    BY <1>1 DEF ReadStatus
  <2>5. pc'[p] = "got2" => event'[c] # "none"
    BY <2>1, <2>3, <2>4 DEF ParentOK
  <2> QED
    BY <2>1, <2>2, <2>4, <2>5 DEF ParentOK, Committed, Ended
<1>2. CASE Register(p)
  <2>1. PICK c \in Runs : c = callee[p] /\ ParentOf[c] = p
    BY <1>2 DEF Register, At, ParentOK, Delegating
  <2>2. \/ pc'[p] \in {"answered", "errored"}
        \/ pc'[p] = "read2" /\ callee'[p] = c /\ event'[c] = "open"
    BY <1>2, <2>1 DEF Register, At, Outcome
  <2> QED
    BY <2>1, <2>2 DEF ParentOK, Committed, Delegating
<1>3. CASE Confirm(p)
  <2>1. PICK c \in Runs : c = callee[p] /\ ParentOf[c] = p /\ event[c] # "none"
    BY <1>3 DEF Confirm, At, ParentOK, Delegating
  <2>2. /\ pc'[p] \in {"read3", "wait"} /\ callee'[p] = c
        /\ UNCHANGED <<status, deadline, now, event, claimed, cancel>>
        /\ pc[p] = "got2" /\ pc' = [pc EXCEPT ![p] = pc'[p]]
        /\ pc'[p] = "wait" => seen[p] \notin Terminal
    BY <1>3, <2>1 DEF Confirm, At
  <2>3. pc'[p] = "wait" /\ Ended(c) => Waking(c)
    BY <2>1, <2>2 DEF ParentOK, Committed
  <2>4. Deepest' = Deepest
    BY <2>2, SameDeepest
  <2>5. pc'[p] = "wait" /\ Ended(c)' => Waking(c)'
    BY <2>2, <2>3, <2>4 DEF Ended, Waking
  <2> QED
    BY <2>1, <2>2, <2>5 DEF ParentOK, Committed, Ended, Waking
<1>4. CASE Woken(p)
  BY <1>4 DEF Woken, At, ParentOK, Committed, Delegating
<1>5. CASE WaitTimesOut(p) \/ Result(p) \/ ToolTimesOut(p) \/ Unwind(p)
  <2>1. pc'[p] \in {"errored", "answered", "done"}
    BY <1>5 DEF WaitTimesOut, Result, ToolTimesOut, Unwind, Outcome
  <2> QED
    BY <2>1 DEF ParentOK, Committed, Delegating
<1> QED
  BY <1>1, <1>2, <1>3, <1>4, <1>5

(* A step of p outside its delegation, or its beginning.                   *)
LEMMA PlainStep ==
  ASSUME DelegationAssumption, WakeInv, NEW p \in Runs,
         Start(p) \/ Finish(p) \/ Delegate(p) \/ Settle(p) \/ TaskDone(p)
  PROVE  ParentOK(p)'
<1> WakeTypes
  BY DEF WakeInv
<1> USE DEF WakeTypes, Goto
<1>1. CASE Start(p) \/ Finish(p) \/ Settle(p) \/ TaskDone(p)
  <2>1. pc'[p] \in {"work", "done", "none"}
    BY <1>1 DEF Start, Finish, Settle, TaskDone
  <2> QED
    BY <2>1 DEF ParentOK, Committed, Delegating
<1>2. CASE Delegate(p)
  <2>1. PICK c \in Children(p) :
          \/ pc'[p] = "errored"
          \/ pc'[p] = "read1" /\ callee'[p] = c
    BY <1>2 DEF Delegate
  <2>2. c \in Runs /\ ParentOf[c] = p
    BY DEF Children
  <2> QED
    BY <2>1, <2>2 DEF ParentOK, Committed, Delegating
<1> QED
  BY <1>1, <1>2

-----------------------------------------------------------------------------
(* A step that neither ends c nor wakes its parent nor takes away what is  *)
(* still to wake it.                                                       *)
LEMMA Quiet ==
  ASSUME WakeTypes, WakeTypes', NEW c \in Runs,
         status'[c] = status[c], deadline'[c] = deadline[c], now <= now',
         event'[c] = event[c],
         pc[c] # "none" => pc'[c] # "none",
         claimed = c => claimed' = c,
         cancel.pc = "notify" => UNCHANGED cancel
  PROVE  Ended(c)' => (Ended(c) /\ ~Waking(c)) \/ Waking(c)'
<1>1. Ended(c)' => Ended(c)
  BY DEF Ended, WakeTypes
<1>2. cancel.pc = "notify" /\ Deepest = c => cancel'.pc = "notify" /\ Deepest' = c
  BY SameDeepest
<1>3. Waking(c) => Waking(c)'
  BY <1>2 DEF Waking
<1> QED
  BY <1>1, <1>3

(* A step of the task of another run: whatever it ends is its own run,     *)
(* whose task is then still there; whatever event it takes down is that of *)
(* a child of its own.                                                     *)
LEMMA OthersStep ==
  ASSUME DelegationAssumption, WakeInv, WakeTypes', NEW p \in Runs, NEW r \in Runs, r # p,
         Loop(r) \/ ToolTimesOut(r)
  PROVE  ParentOK(p)'
<1> WakeTypes /\ ParentOK(p) /\ ParentOK(r)
  BY DEF WakeInv
<1> NoRun \notin Runs
  BY DEF DelegationAssumption
<1> USE DEF WakeTypes, rowVars, taskVars, apiVars, Goto, Leave, Move, Notify
<1>1. CASE Start(r) \/ Finish(r) \/ Settle(r)
  <2>1. /\ pc' = [pc EXCEPT ![r] = pc'[r]] /\ pc'[r] \in {"work", "done"}
        /\ status' = [status EXCEPT ![r] = status'[r]]
        /\ UNCHANGED <<deadline, callee, seen, event, claimed, cancel, now>>
    BY <1>1 DEF Start, Finish, Settle
  <2>2. ASSUME NEW c \in Runs
        PROVE  Ended(c)' => (Ended(c) /\ ~Waking(c)) \/ Waking(c)'
    <3>1. CASE c = r
      BY <2>1, <3>1 DEF Waking
    <3>2. CASE c # r
      BY <2>1, <3>2, Quiet
    <3> QED
      BY <3>1, <3>2
  <2> QED
    BY <2>1, <2>2, KeptPromise
<1>2. CASE Delegate(r)
  <2>1. PICK d \in Children(r) :
          /\ \A c \in Runs : c # d => status'[c] = status[c] /\ deadline'[c] = deadline[c]
          /\ pc' = [pc EXCEPT ![r] = pc'[r]] /\ pc'[r] \in {"errored", "read1"}
          /\ callee'[p] = callee[p]
          /\ UNCHANGED <<seen, event, claimed, cancel, now>>
    BY <1>2 DEF Delegate
  <2>2. ASSUME NEW c \in Runs, ParentOf[c] = p
        PROVE  Ended(c)' => (Ended(c) /\ ~Waking(c)) \/ Waking(c)'
    BY <2>1, <2>2, Quiet DEF Children
  <2> QED
    BY <2>1, <2>2, KeptPromise
<1>3. CASE ReadStatus(r) \/ Confirm(r) \/ WaitTimesOut(r) \/ Result(r) \/ ToolTimesOut(r) \/ Unwind(r)
  <2>1. /\ pc' = [pc EXCEPT ![r] = pc'[r]] /\ pc'[r] # "none"
        /\ callee'[p] = callee[p] /\ seen'[p] = seen[p]
        /\ UNCHANGED <<status, deadline, event, claimed, cancel, now>>
    BY <1>3 DEF ReadStatus, Reading, Confirm, WaitTimesOut, Result, Outcome, ToolTimesOut, Unwind
  <2>2. ASSUME NEW c \in Runs
        PROVE  Ended(c)' => (Ended(c) /\ ~Waking(c)) \/ Waking(c)'
    BY <2>1, Quiet
  <2> QED
    BY <2>1, <2>2, KeptPromise
<1>4. CASE Register(r) \/ Woken(r)
  <2>1. PICK d \in Runs : d = callee[r] /\ ParentOf[d] = r
    BY <1>4 DEF Register, Woken, At, ParentOK, Delegating
  <2>2. /\ pc' = [pc EXCEPT ![r] = pc'[r]] /\ pc'[r] # "none"
        /\ callee'[p] = callee[p] /\ seen'[p] = seen[p]
        /\ \A c \in Runs : c # d => event'[c] = event[c]
        /\ UNCHANGED <<status, deadline, claimed, cancel, now>>
    BY <1>4, <2>1 DEF Register, Woken, Outcome
  <2>3. ASSUME NEW c \in Runs, ParentOf[c] = p
        PROVE  /\ Ended(c)' => (Ended(c) /\ ~Waking(c)) \/ Waking(c)'
               /\ event'[c] = event[c]
    BY <2>1, <2>2, <2>3, Quiet
  <2> QED
    BY <2>2, <2>3, KeptPromise
<1>5. CASE TaskDone(r)
  <2>1. /\ pc' = [pc EXCEPT ![r] = "none"]
        /\ UNCHANGED <<status, deadline, callee, seen, claimed, cancel, now>>
        /\ \A c \in Runs : c # r => event'[c] = event[c]
        /\ event[r] # "none" => event'[r] # "none"
        /\ status[r] \in Terminal /\ event[r] # "none" => event'[r] = "set"
    BY <1>5 DEF TaskDone
  <2>2. ASSUME NEW c \in Runs, event[c] # "none"
        PROVE  Ended(c)' => (Ended(c) /\ ~Waking(c)) \/ Waking(c)'
    <3>1. CASE c = r
      BY <2>1, <2>2, <3>1 DEF Waking, Ended
    <3>2. CASE c # r
      BY <2>1, <3>2, Quiet
    <3> QED
      BY <3>1, <3>2
  <2> QED
    BY <2>1, <2>2, KeptPromise
<1> QED
  BY <1>1, <1>2, <1>3, <1>4, <1>5 DEF Loop

(* The dispatcher, the clock, the user and a cancel().  A run the store    *)
(* ends without a task is overdue or may ask its user; a run a cancel()    *)
(* ends is the one it wakes the parent of next.                            *)
LEMMA StoreStep ==
  ASSUME DelegationAssumption, WakeInv, WakeTypes', NEW p \in Runs,
         \/ Claim \/ Spawn \/ Tick \/ CancelCommit \/ CancelNotify
         \/ \E r \in Runs : User(r)
  PROVE  ParentOK(p)'
<1> WakeTypes /\ ParentOK(p) /\ \A r \in Runs : status[r] = "waiting" => r \in Askers
  BY DEF WakeInv
<1> NoRun \notin Runs
  BY DEF DelegationAssumption
<1> USE DEF WakeTypes, rowVars, taskVars, apiVars, Notify
<1>1. CASE Claim
  <2>1. /\ UNCHANGED <<deadline, pc, callee, seen, event, cancel, now>>
        /\ claimed = NoRun
    BY <1>1 DEF Claim
  <2>2. ASSUME NEW c \in Runs
        PROVE  Ended(c)' => (Ended(c) /\ ~Waking(c)) \/ Waking(c)'
    <3>1. CASE c \in Overdue
      BY <2>1, <3>1 DEF Ended, Overdue
    <3>2. CASE c \notin Overdue
      <4>1. status'[c] = "planning" \/ status'[c] = status[c]
        BY <1>1, <3>2 DEF Claim
      <4>2. CASE status'[c] = "planning"
        BY <4>2 DEF Ended, Terminal
      <4>3. CASE status'[c] = status[c]
        BY <2>1, <4>3, Quiet
      <4> QED
        BY <4>1, <4>2, <4>3
    <3> QED
      BY <3>1, <3>2
  <2> QED
    BY <2>1, <2>2, KeptPromise
<1>2. CASE Spawn
  <2>1. /\ UNCHANGED <<status, deadline, callee, seen, event, cancel, now>>
        /\ claimed \in Runs => pc' = [pc EXCEPT ![claimed] = "start"]
        /\ \A c \in Runs : pc[c] # "none" => pc'[c] # "none"
        /\ \A c \in Runs : pc'[c] = pc[c] \/ (pc[c] = "none" /\ pc'[c] = "start")
    BY <1>2 DEF Spawn
  <2>2. ASSUME NEW c \in Runs
        PROVE  Ended(c)' => (Ended(c) /\ ~Waking(c)) \/ Waking(c)'
    <3>1. CASE c = claimed
      BY <2>1, <3>1 DEF Waking
    <3>2. CASE c # claimed
      BY <2>1, <3>2, Quiet
    <3> QED
      BY <3>1, <3>2
  <2>3. CASE pc'[p] = pc[p]
    BY <2>1, <2>2, <2>3, KeptPromise
  <2>4. CASE pc'[p] = "start"
    BY <2>4 DEF ParentOK, Committed, Delegating
  <2> QED
    BY <2>1, <2>3, <2>4
<1>3. CASE Tick
  <2>1. UNCHANGED <<status, deadline, pc, callee, seen, event, claimed, cancel>> /\ now <= now'
    BY <1>3 DEF Tick
  <2>2. \A c \in Runs : Ended(c)' => (Ended(c) /\ ~Waking(c)) \/ Waking(c)'
    BY <2>1, Quiet
  <2> QED
    BY <2>1, <2>2, KeptPromise
<1>4. CASE CancelCommit
  <2>1. /\ UNCHANGED <<deadline, pc, callee, seen, event, claimed, now>>
        /\ cancel.pc = "commit" /\ cancel'.pc = "notify" /\ cancel'.todo = cancel.todo
        /\ \A c \in Runs : c # Deepest => status'[c] = status[c]
    BY <1>4 DEF CancelCommit
  <2>2. Deepest' = Deepest
    BY <2>1, SameDeepest
  <2>3. ASSUME NEW c \in Runs
        PROVE  Ended(c)' => (Ended(c) /\ ~Waking(c)) \/ Waking(c)'
    <3>1. CASE c = Deepest
      BY <2>1, <2>2, <3>1 DEF Waking
    <3>2. CASE c # Deepest
      BY <2>1, <3>2, Quiet
    <3> QED
      BY <3>1, <3>2
  <2> QED
    BY <2>1, <2>3, KeptPromise
<1>5. CASE CancelNotify
  <2>1. /\ UNCHANGED <<status, deadline, pc, callee, seen, claimed, now>>
        /\ \A c \in Runs : c # Deepest => event'[c] = event[c]
        /\ \A c \in Runs : event[c] # "none" => event'[c] # "none"
        /\ \A c \in Runs : c = Deepest /\ event[c] # "none" => event'[c] = "set"
    BY <1>5 DEF CancelNotify
  <2>2. ASSUME NEW c \in Runs, event[c] # "none"
        PROVE  Ended(c)' => (Ended(c) /\ ~Waking(c)) \/ Waking(c)'
    <3>1. CASE c = Deepest
      BY <2>1, <2>2, <3>1 DEF Waking
    <3>2. CASE c # Deepest
      <4>1. Ended(c)' => Ended(c)
        BY <2>1 DEF Ended
      <4>2. Waking(c) => Waking(c)'
        BY <2>1, <3>2 DEF Waking
      <4> QED
        BY <4>1, <4>2
    <3> QED
      BY <3>1, <3>2
  <2> QED
    BY <2>1, <2>2, KeptPromise
<1>6. ASSUME NEW r \in Runs, Answer(r) \/ DenyOrExpire(r) PROVE ParentOK(p)'
  <2>1. /\ UNCHANGED <<pc, callee, seen, event, claimed, cancel, now>>
        /\ \A c \in Runs : c # r => status'[c] = status[c] /\ deadline'[c] = deadline[c]
        /\ r \in Askers
    BY <1>6 DEF Answer, DenyOrExpire
  <2>2. ASSUME NEW c \in Runs
        PROVE  Ended(c)' => (Ended(c) /\ ~Waking(c)) \/ Waking(c)'
    <3>1. CASE c = r
      BY <2>1, <3>1 DEF Ended
    <3>2. CASE c # r
      BY <2>1, <3>2, Quiet
    <3> QED
      BY <3>1, <3>2
  <2> QED
    BY <2>1, <2>2, KeptPromise
<1>7. ASSUME NEW r \in Runs, CancelList(r) PROVE ParentOK(p)'
  <2>1. UNCHANGED <<status, deadline, pc, callee, seen, event, claimed, now>> /\ cancel.pc = "idle"
    BY <1>7 DEF CancelList
  <2>2. \A c \in Runs : Ended(c)' => (Ended(c) /\ ~Waking(c)) \/ Waking(c)'
    BY <2>1, Quiet
  <2> QED
    BY <2>1, <2>2, KeptPromise
<1> QED
  BY <1>1, <1>2, <1>3, <1>4, <1>5, <1>6, <1>7 DEF User

-----------------------------------------------------------------------------
(* The initial state satisfies the invariant.  *)
LEMMA WakeInit ==
  ASSUME DelegationAssumption, Init
  PROVE  WakeInv
<1>1. WakeTypes
  BY DEF DelegationAssumption, Init, WakeTypes, Statuses, PCs, NoCancel
<1>2. \A r \in Runs : status[r] # "waiting" /\ ParentOK(r)
  BY DEF Init, ParentOK, Committed, Delegating
<1> QED
  BY <1>1, <1>2 DEF WakeInv

(* Every step preserves it.  *)
LEMMA WakeNext ==
  ASSUME DelegationAssumption, WakeInv, [Next]_vars
  PROVE  WakeInv'
<1>1. WakeTypes'
  BY TypesNext
<1>2. \A r \in Runs : status'[r] = "waiting" => r \in Askers
  BY AskersNext
<1>3. ASSUME NEW p \in Runs PROVE ParentOK(p)'
  <2>1. ASSUME NEW r \in Runs, Loop(r) \/ ToolTimesOut(r) PROVE ParentOK(p)'
    <3>1. CASE r # p
      BY <1>1, <2>1, <3>1, OthersStep
    <3>2. CASE r = p
      BY <1>1, <2>1, <3>2, OwnStep, PlainStep DEF Loop
    <3> QED
      BY <3>1, <3>2
  <2>2. CASE UNCHANGED vars
    <3>1. UNCHANGED <<status, deadline, pc, callee, seen, event, claimed, cancel, now>>
      BY <2>2 DEF vars, rowVars, taskVars, apiVars
    <3>2. Deepest' = Deepest
      BY <3>1, SameDeepest
    <3> QED
      BY <3>1, <3>2 DEF WakeInv, ParentOK, Committed, Ended, Waking
  <2> QED
    BY <1>1, <2>1, <2>2, StoreStep DEF Next
<1> QED
  BY <1>1, <1>2, <1>3 DEF WakeInv

(* A parent is never left waiting for a child that ended by itself or by a *)
(* cancel() within its deadline: its event is set, or somebody who is to   *)
(* set it is on the way.  For any forest of runs, any number of children   *)
(* that end, time out and are cancelled while their parents read their     *)
(* status off the loop, register and go to wait.                           *)
THEOREM WaitsNotForgotten == Spec => []NoLostWake
<1>1. WakeInv => NoLostWake
  <2> SUFFICES ASSUME WakeInv, NEW p \in Runs, pc[p] = "wait", Ended(callee[p])
               PROVE  Waking(callee[p])
    BY DEF NoLostWake, Ended, Waking
  <2> QED
    BY DEF WakeInv, ParentOK, Committed
<1> QED
  BY <1>1, WakeInit, WakeNext, DelegationAssumption, PTL DEF Spec
=============================================================================
