-------------------------- MODULE WorkerScheduler --------------------------
(***************************************************************************)
(* WorkerJobScheduler (ai2apps/worker_scheduler.py): the queue in front of *)
(* the Model Workers.                                                      *)
(*                                                                         *)
(* The scheduler lives on one event loop and no body holding its lock      *)
(* awaits, so each method runs without interleaving.  Most methods end in  *)
(* _dispatch_locked: its sweep of late tickets is part of the action, its  *)
(* loop is the actions Grant and DispatchDone, during which `dispatching`  *)
(* holds every other action back.                                          *)
(*                                                                         *)
(* What does interleave is the wake-up of acquire(): a waiter is resolved  *)
(* in one step and its task resumes in a later one.  Between them the      *)
(* timer of wait_for or a task.cancel() may still reach the task, and the  *)
(* ticket may be granted or expired by another call.                       *)
(***************************************************************************)
EXTENDS WorkerResources

CONSTANTS
  MaxHeavy,           \* max_heavy_compute_slots
  WorkerSlots,        \* _worker_slots with default_worker_slots
  MaxActivePerActor, MaxQueueDepth, MaxQueuedPerActor, MaxQueuedPerApp,
  AgingInterval,      \* aging_interval_seconds
  GateReasons,        \* reasons the sweeper may pause background work
  MaxTime             \* bound: the clock

ASSUME SchedulerAssumption ==
  /\ MaxHeavy \in Nat \ {0} /\ MaxTime \in Nat /\ AgingInterval \in Nat \ {0}
  /\ WorkerSlots \in [Workers -> Nat \ {0}]
  /\ {MaxActivePerActor, MaxQueueDepth, MaxQueuedPerActor, MaxQueuedPerApp}
       \subseteq Nat \ {0}

VARIABLES
  now,          \* the monotonic clock
  call,         \* where each acquire() caller is
  queued,       \* _queued
  active,       \* _active
  waiter,       \* _waiters: the future each call awaits
  interrupt,    \* who called task.cancel() on the waiting task
  created,      \* ticket.created_at
  started,      \* ticket.started_at
  order,        \* ticket.sequence
  dispatches,   \* _actor_dispatches
  gates,        \* _background_gate_reasons
  closed,       \* _closed
  ended,        \* _completed + _failed + _cancelled + _expired
  sequence,     \* _sequence
  dispatching   \* inside _dispatch_locked

ticketVars == <<created, started, order, sequence>>
hostVars == <<now, gates, closed>>
vars == <<resourceVars, ticketVars, hostVars, call, queued, active, waiter,
          interrupt, dispatches, ended, dispatching>>

Calls == {"idle", "waiting", "holding", "over"}
Waiters == {"none", "pending", "lease", "timeout", "cancelled"}
Interrupts == {"none", "timer", "cancel"}

SchedulerInit ==
  /\ ResourcesInit
  /\ now = 0 /\ gates = {} /\ closed = FALSE /\ dispatching = FALSE
  /\ queued = {} /\ active = {} /\ ended = 0 /\ sequence = 0
  /\ call = [j \in Jobs |-> "idle"]
  /\ waiter = [j \in Jobs |-> "none"]
  /\ interrupt = [j \in Jobs |-> "none"]
  /\ created = [j \in Jobs |-> 0]
  /\ started = [j \in Jobs |-> 0]
  /\ order = [j \in Jobs |-> 0]
  /\ dispatches = [a \in Actors |-> 0]

Late(j) == Job[j].timeout # NoTimeout /\ created[j] + Job[j].timeout <= now

-----------------------------------------------------------------------------
(* _effective_rank: aging lifts every class but never above foreground.    *)
EffectiveRank(j) ==
  LET aged == (now - created[j]) \div AgingInterval
  IN  IF Job[j].rank = 0 THEN 0
      ELSE IF Job[j].rank > aged + 1 THEN Job[j].rank - aged ELSE 1

DispatchesOf(j) ==
  IF Job[j].actor = NoActor THEN 0 ELSE dispatches[Job[j].actor]

(* The deadlines of two tickets as the second component of _priority.      *)
SoonerDeadline(i, j) ==
  /\ Job[i].timeout # NoTimeout
  /\ \/ Job[j].timeout = NoTimeout
     \/ created[i] + Job[i].timeout < created[j] + Job[j].timeout
SameDeadline(i, j) == ~SoonerDeadline(i, j) /\ ~SoonerDeadline(j, i)

(* _priority: the tuple order.  sequence decides every tie, because        *)
(* created_at grows with it.                                               *)
Before(i, j) ==
  \/ EffectiveRank(i) < EffectiveRank(j)
  \/ /\ EffectiveRank(i) = EffectiveRank(j)
     /\ \/ SoonerDeadline(i, j)
        \/ /\ SameDeadline(i, j)
           /\ \/ DispatchesOf(i) < DispatchesOf(j)
              \/ DispatchesOf(i) = DispatchesOf(j) /\ order[i] < order[j]

Background(j) == Job[j].rank \in {3, 4}
Foreground(j) == Job[j].rank \in {0, 1}

(* Variant: the slots of the worker are not counted.                       *)
RunnableOnBusyWorker(j) ==
  /\ Background(j) => gates = {} /\ \A i \in queued \ {j} : ~Foreground(i)
  /\ Job[j].actor # NoActor =>
       Cardinality({i \in active : Job[i].actor = Job[j].actor}) < MaxActivePerActor

(* _runnable: background work also yields to foreground work in the queue. *)
Runnable(j) ==
  /\ Background(j) => gates = {} /\ \A i \in queued \ {j} : ~Foreground(i)
  /\ Job[j].actor # NoActor =>
       Cardinality({i \in active : Job[i].actor = Job[j].actor}) < MaxActivePerActor
  /\ Cardinality({i \in active : Job[i].worker = Job[j].worker})
       < WorkerSlots[Job[j].worker]

Grantable == {j \in queued : Runnable(j) /\ Admits(j)}

-----------------------------------------------------------------------------
(* _expire_locked over the tickets Q with futures W; count is what the     *)
(* caller has added to the counters already.                               *)
Sweep(Q, W, count) ==
  LET late == {j \in Q \cap queued : Late(j)}
  IN  /\ queued' = Q \ late
      /\ waiter' = [j \in Jobs |->
                      IF j \in late /\ W[j] = "pending" THEN "timeout" ELSE W[j]]
      /\ ended' = ended + count + Cardinality(late)

(* Variant: a dispatch that does not expire late tickets first.            *)
DispatchUnswept(Q, W, count) ==
  /\ queued' = Q /\ waiter' = W /\ ended' = ended + count
  /\ dispatching' = TRUE

(* The start of _dispatch_locked.  A ticket queued in this step has a      *)
(* positive timeout and is not late.                                       *)
Dispatch(Q, W, count) == Sweep(Q, W, count) /\ dispatching' = TRUE

Settle(S, W) ==
  [j \in Jobs |-> IF j \in S /\ W[j] = "pending" THEN "cancelled" ELSE W[j]]

(* One turn of the loop: the first candidate in priority order that the    *)
(* resource manager admits.                                                *)
Grant(j) ==
  /\ dispatching /\ Cardinality(active) < MaxHeavy
  /\ j \in Grantable /\ \A i \in Grantable \ {j} : Before(j, i)
  /\ queued' = queued \ {j}
  /\ active' = active \cup {j}
  /\ reservations' = reservations \cup {j}
  /\ started' = [started EXCEPT ![j] = now]
  /\ waiter' = [waiter EXCEPT ![j] = IF @ = "pending" THEN "lease" ELSE @]
  /\ dispatches' = [a \in Actors |-> dispatches[a] + IF a = Job[j].actor THEN 1 ELSE 0]
  /\ UNCHANGED <<evicting, pinned, headroom, hostVars, call, interrupt, created,
                 order, sequence, ended, dispatching>>

DispatchDone ==
  /\ dispatching
  /\ Cardinality(active) >= MaxHeavy \/ Grantable = {}
  /\ dispatching' = FALSE
  /\ UNCHANGED <<resourceVars, ticketVars, hostVars, call, queued, active, waiter,
                 interrupt, dispatches, ended>>

-----------------------------------------------------------------------------
Refused(j) ==
  \/ Job[j].timeout = 0
  \/ closed
  \/ Cardinality(queued) >= MaxQueueDepth
  \/ /\ Job[j].actor # NoActor
     /\ Cardinality({i \in queued : Job[i].actor = Job[j].actor}) >= MaxQueuedPerActor
  \/ /\ Job[j].app # NoApp
     /\ Cardinality({i \in queued : Job[i].app = Job[j].app}) >= MaxQueuedPerApp

(* acquire() up to its await.                                              *)
Acquire(j) ==
  /\ ~dispatching /\ call[j] = "idle" /\ ~Refused(j)
  /\ call' = [call EXCEPT ![j] = "waiting"]
  /\ sequence' = sequence + 1
  /\ order' = [order EXCEPT ![j] = sequence + 1]
  /\ created' = [created EXCEPT ![j] = now]
  /\ Dispatch(queued \cup {j}, [waiter EXCEPT ![j] = "pending"], 0)
  /\ UNCHANGED <<resourceVars, hostVars, active, interrupt, dispatches, started>>

AcquireRefused(j) ==
  /\ ~dispatching /\ call[j] = "idle" /\ Refused(j)
  /\ call' = [call EXCEPT ![j] = "over"]
  /\ UNCHANGED <<resourceVars, ticketVars, hostVars, queued, active, waiter,
                 interrupt, dispatches, ended, dispatching>>

(* The timer of wait_for cancels the waiting task.  The loop runs timers   *)
(* after the callbacks that were ready before them, so it overtakes the    *)
(* wake-up of a lease only when the lease was given after the deadline.    *)
TimerFires(j) ==
  /\ ~dispatching /\ call[j] = "waiting" /\ interrupt[j] = "none" /\ Late(j)
  /\ \/ waiter[j] = "pending"
     \/ waiter[j] = "lease" /\ started[j] >= created[j] + Job[j].timeout
  /\ interrupt' = [interrupt EXCEPT ![j] = "timer"]
  /\ waiter' = Settle({j}, waiter)
  /\ UNCHANGED <<resourceVars, ticketVars, hostVars, call, queued, active,
                 dispatches, ended, dispatching>>

(* task.cancel() of the calling task, before or after the waiter is done.  *)
CancelCaller(j) ==
  /\ ~dispatching /\ call[j] = "waiting" /\ interrupt[j] # "cancel"
  /\ interrupt' = [interrupt EXCEPT ![j] = "cancel"]
  /\ waiter' = Settle({j}, waiter)
  /\ UNCHANGED <<resourceVars, ticketVars, hostVars, call, queued, active,
                 dispatches, ended, dispatching>>

ResumeWithLease(j) ==
  /\ ~dispatching /\ call[j] = "waiting"
  /\ interrupt[j] = "none" /\ waiter[j] = "lease"
  /\ call' = [call EXCEPT ![j] = "holding"]
  /\ UNCHANGED <<resourceVars, ticketVars, hostVars, queued, active, waiter,
                 interrupt, dispatches, ended, dispatching>>

(* The end of a ticket that is no longer queued nor active: nothing to do. *)
LeaveAsIs ==
  UNCHANGED <<resourceVars, queued, active, waiter, ended, dispatching>>

(* _expire_ticket and cancel: only a queued ticket is removed.             *)
RemoveQueued(j) ==
  /\ j \in queued
  /\ Dispatch(queued \ {j}, Settle({j}, waiter), 1)
  /\ UNCHANGED <<resourceVars, active>>

(* Variant: a release that does not dispatch.                              *)
ReleaseSilently(j) ==
  /\ j \in active
  /\ active' = active \ {j}
  /\ reservations' = reservations \ {j}
  /\ ended' = ended + 1
  /\ UNCHANGED <<evicting, pinned, headroom, queued, waiter, dispatching>>

(* _release: the slot and the reservation go together.                     *)
ReleaseActive(j) ==
  /\ j \in active
  /\ active' = active \ {j}
  /\ reservations' = reservations \ {j}
  /\ Dispatch(queued, waiter, 1)
  /\ UNCHANGED <<evicting, pinned, headroom>>

(* Variant: the handler counts a ticket that was expired already.          *)
OnTimeoutRecounted(j) ==
  IF j \in queued THEN RemoveQueued(j)
  ELSE /\ ended' = ended + 1
       /\ UNCHANGED <<resourceVars, queued, active, waiter, dispatching>>

(* except TimeoutError: the timer, or the exception _expire_locked set.    *)
OnTimeout(j) == IF j \in queued THEN RemoveQueued(j) ELSE LeaveAsIs

(* except BaseException: cancel(), and _release when the ticket has run.   *)
OnCancelled(j) ==
  IF j \in queued THEN RemoveQueued(j)
  ELSE IF j \in active THEN ReleaseActive(j)
  ELSE LeaveAsIs

ResumeTimedOut(j) ==
  /\ ~dispatching /\ call[j] = "waiting"
  /\ \/ interrupt[j] = "timer"
     \/ interrupt[j] = "none" /\ waiter[j] = "timeout"
  /\ call' = [call EXCEPT ![j] = "over"]
  /\ OnTimeout(j)
  /\ UNCHANGED <<ticketVars, hostVars, interrupt, dispatches>>

ResumeCancelled(j) ==
  /\ ~dispatching /\ call[j] = "waiting"
  /\ \/ interrupt[j] = "cancel"
     \/ interrupt[j] = "none" /\ waiter[j] = "cancelled"
  /\ call' = [call EXCEPT ![j] = "over"]
  /\ OnCancelled(j)
  /\ UNCHANGED <<ticketVars, hostVars, interrupt, dispatches>>

(* SchedulerLease.release, which a caller reaches on every way out.        *)
Release(j) ==
  /\ ~dispatching /\ call[j] = "holding"
  /\ call' = [call EXCEPT ![j] = "over"]
  /\ IF j \in active THEN ReleaseActive(j) ELSE LeaveAsIs
  /\ UNCHANGED <<ticketVars, hostVars, interrupt, dispatches>>

Identity(j) == <<Job[j].worker, Job[j].request, Job[j].actor, Job[j].app>>

(* cancel_queued_request with the identity of call c.                      *)
CancelQueuedRequest(c) ==
  LET matches == {j \in queued : Identity(j) = Identity(c)}
  IN  /\ ~dispatching /\ Job[c].actor # NoActor
      /\ \A j \in active : Identity(j) # Identity(c)
      /\ matches # {}
      /\ Dispatch(queued \ matches, Settle(matches, waiter), Cardinality(matches))
      /\ UNCHANGED <<resourceVars, ticketVars, hostVars, call, active, interrupt,
                     dispatches>>

(* snapshot(): expires late tickets without a dispatch.                    *)
Snapshot ==
  /\ ~dispatching /\ \E j \in queued : Late(j)
  /\ Sweep(queued, waiter, 0)
  /\ UNCHANGED <<resourceVars, ticketVars, hostVars, call, active, interrupt,
                 dispatches, dispatching>>

SetBackgroundGate(reason, paused) ==
  /\ ~dispatching
  /\ gates' = IF paused THEN gates \cup {reason} ELSE gates \ {reason}
  /\ Dispatch(queued, waiter, 0)
  /\ UNCHANGED <<resourceVars, ticketVars, now, closed, call, active, interrupt,
                 dispatches>>

Shutdown ==
  /\ ~dispatching /\ ~closed
  /\ closed' = TRUE
  /\ queued' = {}
  /\ waiter' = Settle(queued, waiter)
  /\ ended' = ended + Cardinality(queued)
  /\ UNCHANGED <<resourceVars, ticketVars, now, gates, call, active, interrupt,
                 dispatches, dispatching>>

-----------------------------------------------------------------------------
EvictIdle(w) ==
  /\ ~dispatching /\ BeginEviction(w)
  /\ UNCHANGED <<ticketVars, hostVars, call, queued, active, waiter, interrupt,
                 dispatches, ended, dispatching>>

(* The finally of evict_idle: admission reopens and the queue is told.     *)
EvictionEnds(w) ==
  /\ ~dispatching /\ w \in evicting
  /\ evicting' = evicting \ {w}
  /\ Dispatch(queued, waiter, 0)
  /\ UNCHANGED <<reservations, pinned, headroom, ticketVars, hostVars, call, active,
                 interrupt, dispatches>>

HostChanges ==
  /\ ~dispatching
  /\ \/ \E w \in Workers : Pin(w) \/ Unpin(w)
     \/ \E h \in Headrooms : MemoryChanges(h)
  /\ UNCHANGED <<ticketVars, hostVars, call, queued, active, waiter, interrupt,
                 dispatches, ended, dispatching>>

Tick ==
  /\ ~dispatching /\ now < MaxTime
  /\ now' = now + 1
  /\ UNCHANGED <<resourceVars, ticketVars, gates, closed, call, queued, active, waiter,
                 interrupt, dispatches, ended, dispatching>>

CallStep(j) ==
  \/ Acquire(j) \/ AcquireRefused(j) \/ TimerFires(j) \/ CancelCaller(j)
  \/ ResumeWithLease(j) \/ ResumeTimedOut(j) \/ ResumeCancelled(j) \/ Release(j)

SchedulerNext ==
  \/ \E j \in Jobs : CallStep(j) \/ Grant(j) \/ CancelQueuedRequest(j)
  \/ DispatchDone \/ Snapshot \/ Shutdown \/ HostChanges \/ Tick
  \/ \E g \in GateReasons, p \in BOOLEAN : SetBackgroundGate(g, p)
  \/ \E w \in Workers : EvictIdle(w) \/ EvictionEnds(w)

(* A ready callback runs, a coroutine that runs reaches its end, a caller  *)
(* that holds a lease releases it and an eviction returns.  Timers, gate   *)
(* changes and cancellation are not relied on.  Fairness is strong because *)
(* the model disables a ready callback for the steps of a dispatch, which  *)
(* in the code is one uninterrupted piece of another callback.             *)
SchedulerFairness ==
  /\ WF_vars(DispatchDone \/ \E j \in Jobs : Grant(j))
  /\ \A j \in Jobs :
       SF_vars(ResumeWithLease(j) \/ ResumeTimedOut(j) \/ ResumeCancelled(j) \/ Release(j))
  /\ SF_vars(\E w \in Workers : EvictionEnds(w))

SchedulerSafety == SchedulerInit /\ [][SchedulerNext]_vars
SchedulerSpec == SchedulerSafety /\ SchedulerFairness

-----------------------------------------------------------------------------
(* Every slot has somebody who will give it back: the call that holds the  *)
(* lease, or a waiting call that resumes with the lease, or with an        *)
(* exception whose handler releases it.  A grant that races the timeout,   *)
(* the cancellation of the caller or cancel_queued_request never leaves an *)
(* active ticket behind.                                                   *)
Owned ==
  /\ reservations = active
  /\ \A j \in Jobs : call[j] = "holding" => j \in active
  /\ \A j \in active :
       \/ call[j] = "holding"
       \/ /\ call[j] = "waiting"
          /\ \/ interrupt[j] = "none" /\ waiter[j] = "lease"
             \/ interrupt[j] = "cancel"

(* The compute slots of the host, of each worker and of each actor are     *)
(* never exceeded, whatever the interleaving of grants and releases.       *)
SlotLimits ==
  /\ Cardinality(active) <= MaxHeavy
  /\ \A w \in Workers :
       Cardinality({j \in active : Job[j].worker = w}) <= WorkerSlots[w]
  /\ \A a \in Actors :
       Cardinality({j \in active : Job[j].actor = a}) <= MaxActivePerActor

(* A worker that is being evicted serves nobody: admission was closed      *)
(* before the eviction yielded, and no ticket of it starts until it ends.  *)
EvictedIsIdle == \A w \in evicting : {j \in active : Job[j].worker = w} = {}

(* Every ticket is queued, active or counted once under one final status.  *)
Accounting == sequence = Cardinality(queued) + Cardinality(active) + ended

(* Nobody but background work waits forever: each call that may run        *)
(* resumes, with a lease or with an error, without help from timers.       *)
WaitEnds ==
  \A j \in Jobs :
    ~Background(j) => (call[j] = "waiting" ~> call[j] \in {"holding", "over"})
=============================================================================
