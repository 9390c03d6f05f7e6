----------------------- MODULE WorkerSchedulerProofs -----------------------
(***************************************************************************)
(* Proofs about WorkerScheduler for any calls, workers, limits, gates and  *)
(* memory samples: no slot is ever left without somebody who gives it      *)
(* back, a worker under eviction serves nobody, and each ticket is counted *)
(* once.                                                                   *)
(***************************************************************************)
EXTENDS WorkerScheduler, FiniteSetTheorems, TLAPS

SchedulerTypes ==
  /\ now \in Nat
  /\ queued \subseteq Jobs /\ active \subseteq Jobs
  /\ call \in [Jobs -> Calls]
  /\ waiter \in [Jobs -> Waiters]
  /\ interrupt \in [Jobs -> Interrupts]
  /\ created \in [Jobs -> Nat]
  /\ started \in [Jobs -> Nat]

(* The lease was given before the deadline of the wait.                     *)
InTime(j) == Job[j].timeout # NoTimeout => started[j] < created[j] + Job[j].timeout

(* A queued ticket belongs to a waiting call that nobody has answered: the  *)
(* timer or a cancel may have reached it, the timer only when it is late,   *)
(* and no late ticket is left when the loop of a dispatch runs.             *)
QueuedOK(j) ==
  /\ call[j] = "waiting" /\ j \notin active
  /\ \/ waiter[j] = "pending" /\ interrupt[j] = "none"
     \/ waiter[j] = "cancelled" /\ interrupt[j] # "none"
  /\ interrupt[j] = "timer" => Late(j)
  /\ dispatching => ~Late(j)

(* An active ticket is held, or its waiting call will resume with the lease *)
(* or with a cancellation; its timer can no longer reach it.                *)
ActiveOK(j) ==
  /\ \/ call[j] = "holding"
     \/ /\ call[j] = "waiting"
        /\ \/ interrupt[j] = "none" /\ waiter[j] = "lease"
           \/ interrupt[j] = "cancel"
  /\ InTime(j)

CallOK(j) ==
  /\ call[j] = "idle" => interrupt[j] = "none"
  /\ call[j] = "holding" => j \in active
  /\ call[j] = "waiting" /\ interrupt[j] = "none" /\ waiter[j] = "lease" => j \in active

Tickets ==
  \A j \in Jobs : /\ j \in queued => QueuedOK(j)
                  /\ j \in active => ActiveOK(j)
                  /\ CallOK(j)

OwnedInv ==
  /\ SchedulerTypes
  /\ reservations = active
  /\ Tickets
  /\ EvictedIsIdle

-----------------------------------------------------------------------------
(* Arguments and deadlines.                                                 *)
LEMMA JobFacts ==
  ASSUME NEW j \in Jobs
  PROVE  Job[j].timeout \in Nat \/ Job[j].timeout = NoTimeout
  BY ResourceAssumption DEF ResourceAssumption, JobArguments

(* Late depends on the clock and on when the ticket was created.            *)
LEMMA LateKept ==
  ASSUME SchedulerTypes, SchedulerTypes', NEW j \in Jobs, created'[j] = created[j]
  PROVE  /\ now' = now => (Late(j)' <=> Late(j))
         /\ now' = now + 1 => (Late(j) => Late(j)')
  BY JobFacts DEF SchedulerTypes, Late

(* _expire_locked: what it leaves in the queue is in time, and it answers   *)
(* only the tickets it removes.                                             *)
LEMMA SweepFacts ==
  ASSUME NEW Q \in SUBSET Jobs, NEW W \in [Jobs -> Waiters], NEW count, Sweep(Q, W, count)
  PROVE  /\ queued' \subseteq Q
         /\ waiter' \in [Jobs -> Waiters]
         /\ \A j \in queued' : waiter'[j] = W[j] /\ (j \in queued => ~Late(j))
         /\ \A j \in Jobs : j \notin queued => waiter'[j] = W[j]
         /\ \A j \in Jobs : waiter'[j] = "lease" <=> W[j] = "lease"
  BY DEF Sweep, Waiters

(* Settling futures cancels the pending ones of a set and no other.         *)
LEMMA SettleFacts ==
  ASSUME NEW S, NEW W \in [Jobs -> Waiters]
  PROVE  /\ Settle(S, W) \in [Jobs -> Waiters]
         /\ \A j \in Jobs : j \notin S => Settle(S, W)[j] = W[j]
         /\ \A j \in Jobs : Settle(S, W)[j] = "lease" <=> W[j] = "lease"
         /\ \A j \in S \cap Jobs : Settle(S, W)[j] = IF W[j] = "pending" THEN "cancelled" ELSE W[j]
  BY DEF Settle, Waiters

(* A worker stays idle under eviction when no ticket is added.              *)
LEMMA EvictedKept ==
  ASSUME EvictedIsIdle, active' \subseteq active, evicting' \subseteq evicting
  PROVE  EvictedIsIdle'
  BY DEF EvictedIsIdle

-----------------------------------------------------------------------------
(* A method that removes tickets and then enters _dispatch_locked: it keeps *)
(* the calls of the tickets that stay, and ends those of the slots it frees. *)
LEMMA RemovalKeepsInv ==
  ASSUME OwnedInv, NEW Q \in SUBSET queued, NEW W \in [Jobs -> Waiters], NEW count,
         Dispatch(Q, W, count),
         \A j \in Jobs : W[j] = "lease" <=> waiter[j] = "lease",
         \A j \in Q : W[j] = waiter[j],
         UNCHANGED <<now, created, started, interrupt>>,
         active' \subseteq active, reservations' = active', evicting' \subseteq evicting,
         call' \in [Jobs -> Calls],
         \A j \in Jobs : call'[j] = call[j] \/ call'[j] = "over",
         \A j \in Q \cup active' : call'[j] = call[j],
         \A j \in active \ active' : call'[j] = "over"
  PROVE  OwnedInv'
<1>1. SchedulerTypes /\ Tickets /\ EvictedIsIdle
  BY DEF OwnedInv
<1>2. Q \in SUBSET Jobs /\ Sweep(Q, W, count) /\ dispatching' = TRUE
  BY <1>1 DEF SchedulerTypes, Dispatch
<1>3. /\ queued' \subseteq Q
      /\ waiter' \in [Jobs -> Waiters]
      /\ \A j \in queued' : waiter'[j] = W[j] /\ (j \in queued => ~Late(j))
      /\ \A j \in Jobs : waiter'[j] = "lease" <=> W[j] = "lease"
  BY <1>2, SweepFacts
<1>4. SchedulerTypes'
  BY <1>1, <1>2, <1>3 DEF SchedulerTypes
<1>5. ASSUME NEW j \in Jobs
      PROVE  Late(j)' <=> Late(j)
  BY <1>1, <1>4, LateKept
<1>6. ASSUME NEW j \in Jobs, j \in queued'
      PROVE  QueuedOK(j)'
  BY <1>1, <1>2, <1>3, <1>5, <1>6 DEF Tickets, QueuedOK
<1>7. ASSUME NEW j \in Jobs, j \in active'
      PROVE  ActiveOK(j)'
  BY <1>1, <1>3, <1>7 DEF Tickets, ActiveOK, InTime
<1>8. ASSUME NEW j \in Jobs
      PROVE  CallOK(j)'
  BY <1>1, <1>3 DEF Tickets, CallOK
<1>9. QED
  BY <1>1, <1>4, <1>6, <1>7, <1>8, EvictedKept DEF OwnedInv, Tickets

(* A step that neither dispatches nor touches the slots: it may remove      *)
(* queued tickets, interrupt waiting calls and end or resume calls.         *)
LEMMA QuietKeepsInv ==
  ASSUME OwnedInv, SchedulerTypes', ~dispatching', ~dispatching,
         queued' \subseteq queued, active' = active, reservations' = reservations,
         evicting' \subseteq evicting, UNCHANGED <<created, started>>,
         now' = now \/ now' = now + 1,
         \A j \in queued' :
           /\ call'[j] = "waiting"
           /\ \/ waiter'[j] = waiter[j] /\ interrupt'[j] = interrupt[j]
              \/ /\ waiter'[j] = "cancelled"
                 /\ interrupt'[j] = "cancel" \/ (interrupt'[j] = "timer" /\ Late(j)),
         \A j \in active :
           \/ call'[j] = "holding"
           \/ /\ call'[j] = "waiting" /\ call[j] = "waiting"
              /\ \/ interrupt'[j] = interrupt[j] /\ (waiter[j] = "lease" => waiter'[j] = "lease")
                 \/ interrupt'[j] = "cancel",
         \A j \in Jobs : CallOK(j)'
  PROVE  OwnedInv'
<1>1. SchedulerTypes /\ Tickets /\ EvictedIsIdle
  BY DEF OwnedInv
<1>2. ASSUME NEW j \in Jobs
      PROVE  Late(j) => Late(j)'
  BY <1>1, LateKept
<1>3. ASSUME NEW j \in Jobs, j \in queued'
      PROVE  QueuedOK(j)'
  BY <1>1, <1>2, <1>3 DEF Tickets, QueuedOK
<1>4. ASSUME NEW j \in Jobs, j \in active'
      PROVE  ActiveOK(j)'
  BY <1>1, <1>4 DEF Tickets, ActiveOK, InTime
<1>5. EvictedIsIdle'
  BY <1>1, EvictedKept
<1>6. QED
  BY <1>3, <1>4, <1>5 DEF OwnedInv, Tickets

-----------------------------------------------------------------------------
(* acquire() enqueues a ticket that cannot be late, and sweeps the others.  *)
LEMMA AcquireKeepsInv ==
  ASSUME OwnedInv, NEW i \in Jobs, Acquire(i)
  PROVE  OwnedInv'
<1>1. SchedulerTypes /\ Tickets /\ EvictedIsIdle
  BY DEF OwnedInv
<1> DEFINE Q == queued \cup {i}
           W == [waiter EXCEPT ![i] = "pending"]
<1>2. /\ call' = [call EXCEPT ![i] = "waiting"] /\ call[i] = "idle"
      /\ created' = [created EXCEPT ![i] = now]
      /\ Sweep(Q, W, 0) /\ dispatching' = TRUE
      /\ UNCHANGED <<resourceVars, hostVars, active, interrupt, started>>
      /\ Job[i].timeout # 0
  BY DEF Acquire, Dispatch, Refused
<1>3. Q \in SUBSET Jobs /\ W \in [Jobs -> Waiters]
  BY <1>1 DEF SchedulerTypes, Waiters
<1> HIDE DEF Q, W
<1>4. /\ queued' \subseteq Q
      /\ waiter' \in [Jobs -> Waiters]
      /\ \A j \in queued' : waiter'[j] = W[j] /\ (j \in queued => ~Late(j))
      /\ \A j \in Jobs : waiter'[j] = "lease" <=> W[j] = "lease"
  BY <1>2, <1>3, SweepFacts
<1>5. SchedulerTypes'
  BY <1>1, <1>2, <1>3, <1>4 DEF SchedulerTypes, Calls, hostVars
<1>6. i \notin queued /\ i \notin active /\ interrupt[i] = "none"
  BY <1>1, <1>2 DEF Tickets, QueuedOK, ActiveOK, CallOK
<1>7. ASSUME NEW j \in Jobs, j \in queued'
      PROVE  QueuedOK(j)'
  <2>1. CASE j = i
    <3>1. ~Late(i)'
      BY <1>1, <1>2, <1>5, JobFacts DEF Late, SchedulerTypes, hostVars
    <3>2. waiter'[i] = "pending" /\ call'[i] = "waiting" /\ interrupt'[i] = "none"
      BY <1>1, <1>2, <1>4, <1>6, <1>7, <2>1 DEF W, SchedulerTypes
    <3>3. QED
      BY <1>2, <1>6, <2>1, <3>1, <3>2 DEF QueuedOK
  <2>2. CASE j # i
    <3>1. j \in queued /\ created'[j] = created[j] /\ call'[j] = call[j]
      BY <1>1, <1>2, <1>4, <1>7, <2>2 DEF Q, SchedulerTypes
    <3>2. waiter'[j] = waiter[j] /\ ~Late(j)
      BY <1>1, <1>4, <1>7, <2>2, <3>1 DEF W, SchedulerTypes
    <3>3. ~Late(j)'
      BY <1>1, <1>2, <1>5, <3>1, <3>2, LateKept DEF hostVars
    <3>4. QED
      BY <1>1, <1>2, <3>1, <3>2, <3>3 DEF Tickets, QueuedOK
  <2>3. QED
    BY <2>1, <2>2
<1>8. ASSUME NEW j \in Jobs, j # i
      PROVE  /\ j \in active' => ActiveOK(j)'
             /\ CallOK(j)'
  <2>1. /\ call'[j] = call[j] /\ created'[j] = created[j]
        /\ waiter'[j] = "lease" <=> waiter[j] = "lease"
    BY <1>1, <1>2, <1>4, <1>8 DEF W, SchedulerTypes
  <2>2. QED
    BY <1>1, <1>2, <2>1 DEF Tickets, ActiveOK, InTime, CallOK
<1>9. waiter'[i] # "lease" /\ call'[i] = "waiting"
  BY <1>1, <1>2, <1>4 DEF W, SchedulerTypes
<1>10. Tickets'
  BY <1>2, <1>6, <1>7, <1>8, <1>9 DEF Tickets, CallOK
<1>11. QED
  BY <1>1, <1>2, <1>5, <1>10, EvictedKept DEF OwnedInv, resourceVars

(* A grant answers a ticket that is not late, so that its timer has not     *)
(* fired, and whose worker still admits.                                    *)
LEMMA GrantKeepsInv ==
  ASSUME OwnedInv, NEW i \in Jobs, Grant(i)
  PROVE  OwnedInv'
<1>1. SchedulerTypes /\ Tickets /\ EvictedIsIdle /\ reservations = active
  BY DEF OwnedInv
<1>2. /\ dispatching /\ i \in queued /\ Admits(i)
      /\ queued' = queued \ {i} /\ active' = active \cup {i}
      /\ reservations' = reservations \cup {i}
      /\ started' = [started EXCEPT ![i] = now]
      /\ waiter' = [waiter EXCEPT ![i] = IF @ = "pending" THEN "lease" ELSE @]
      /\ UNCHANGED <<evicting, now, call, interrupt, created, dispatching>>
  BY DEF Grant, Grantable, hostVars
<1>3. SchedulerTypes'
  BY <1>1, <1>2 DEF SchedulerTypes, Waiters
<1>4. QueuedOK(i) /\ ~Late(i)
  BY <1>1, <1>2 DEF Tickets, QueuedOK
<1>5. ASSUME NEW j \in Jobs, j \in queued'
      PROVE  QueuedOK(j)'
  <2>1. QueuedOK(j) /\ j # i /\ waiter'[j] = waiter[j]
    BY <1>1, <1>2, <1>5 DEF Tickets, SchedulerTypes
  <2>2. Late(j)' <=> Late(j)
    BY <1>1, <1>2, <1>3, LateKept
  <2>3. QED
    BY <1>2, <2>1, <2>2 DEF QueuedOK
<1>6. ActiveOK(i)' /\ CallOK(i)'
  <2>1. started'[i] = now /\ (waiter[i] = "pending" => waiter'[i] = "lease")
    BY <1>1, <1>2 DEF SchedulerTypes
  <2>2. InTime(i)'
    BY <1>1, <1>2, <1>4, <2>1, JobFacts DEF InTime, Late, SchedulerTypes
  <2>3. interrupt[i] = "none" \/ interrupt[i] = "cancel"
    BY <1>1, <1>4 DEF QueuedOK, SchedulerTypes, Interrupts
  <2>4. QED
    BY <1>2, <1>4, <2>1, <2>2, <2>3 DEF QueuedOK, ActiveOK, CallOK
<1>7. ASSUME NEW j \in Jobs, j # i
      PROVE  /\ j \in active' => ActiveOK(j)'
             /\ CallOK(j)'
  <2>1. started'[j] = started[j] /\ waiter'[j] = waiter[j]
    BY <1>1, <1>2, <1>7 DEF SchedulerTypes
  <2>2. QED
    BY <1>1, <1>2, <1>7, <2>1 DEF Tickets, ActiveOK, InTime, CallOK
<1>8. Tickets'
  BY <1>5, <1>6, <1>7 DEF Tickets
<1>9. EvictedIsIdle'
  <2>1. i \notin reservations
    BY <1>1, <1>4 DEF QueuedOK
  <2>2. Job[i].worker \notin evicting
    BY <1>2, <2>1 DEF Admits
  <2>3. QED
    BY <1>1, <1>2, <2>2 DEF EvictedIsIdle
<1>10. QED
  BY <1>1, <1>2, <1>3, <1>8, <1>9 DEF OwnedInv

(* The loop of a dispatch ends.                                             *)
LEMMA DispatchDoneKeepsInv ==
  ASSUME OwnedInv, DispatchDone
  PROVE  OwnedInv'
<1>1. UNCHANGED <<resourceVars, ticketVars, hostVars, call, queued, active, waiter, interrupt>>
      /\ dispatching' = FALSE
  BY DEF DispatchDone
<1>2. SchedulerTypes' /\ reservations' = active' /\ EvictedIsIdle'
  BY <1>1 DEF OwnedInv, SchedulerTypes, EvictedIsIdle, resourceVars, ticketVars, hostVars
<1>3. Tickets'
  BY <1>1 DEF OwnedInv, Tickets, QueuedOK, ActiveOK, CallOK, InTime, Late, ticketVars, hostVars
<1>4. QED
  BY <1>2, <1>3 DEF OwnedInv

-----------------------------------------------------------------------------
(* The steps of one call.                                                   *)

(* acquire() raises before it has a ticket.                                 *)
LEMMA RefusedKeepsInv ==
  ASSUME OwnedInv, NEW i \in Jobs, AcquireRefused(i)
  PROVE  OwnedInv'
<1>1. SchedulerTypes /\ Tickets
  BY DEF OwnedInv
<1>2. SchedulerTypes'
  BY <1>1 DEF AcquireRefused, SchedulerTypes, Calls, ticketVars, hostVars
<1>3. i \notin queued \cup active
  BY <1>1 DEF AcquireRefused, Tickets, QueuedOK, ActiveOK
<1>4. \A j \in Jobs : CallOK(j)'
  BY <1>1, <1>3 DEF AcquireRefused, Tickets, CallOK, SchedulerTypes
<1>5. \A j \in Jobs : j # i => call'[j] = call[j]
  BY <1>1 DEF AcquireRefused, SchedulerTypes
<1>6. QED
  BY <1>1, <1>2, <1>3, <1>4, <1>5, QuietKeepsInv
     DEF AcquireRefused, Tickets, QueuedOK, ActiveOK, resourceVars, ticketVars, hostVars, SchedulerTypes

(* The timer of wait_for and task.cancel() of the caller.                   *)
LEMMA InterruptKeepsInv ==
  ASSUME OwnedInv, NEW i \in Jobs, TimerFires(i) \/ CancelCaller(i)
  PROVE  OwnedInv'
<1>1. SchedulerTypes /\ Tickets
  BY DEF OwnedInv
<1>2. PICK by \in {"timer", "cancel"} :
        /\ interrupt' = [interrupt EXCEPT ![i] = by]
        /\ by = "timer" => TimerFires(i)
        /\ waiter' = Settle({i}, waiter)
        /\ ~dispatching /\ call[i] = "waiting"
        /\ UNCHANGED <<resourceVars, ticketVars, hostVars, call, queued, active, dispatching>>
  BY DEF TimerFires, CancelCaller
<1>3. /\ waiter' \in [Jobs -> Waiters]
      /\ \A j \in Jobs : j # i => waiter'[j] = waiter[j] /\ interrupt'[j] = interrupt[j]
      /\ \A j \in Jobs : waiter'[j] = "lease" <=> waiter[j] = "lease"
      /\ waiter'[i] = IF waiter[i] = "pending" THEN "cancelled" ELSE waiter[i]
      /\ interrupt'[i] = by
  BY <1>1, <1>2, SettleFacts DEF SchedulerTypes
<1>4. SchedulerTypes'
  BY <1>1, <1>2, <1>3 DEF SchedulerTypes, Interrupts, ticketVars, hostVars
<1>5. ASSUME i \in active
      PROVE  by = "cancel"
  <2>1. SUFFICES ASSUME by = "timer"
                 PROVE  FALSE
    BY <1>2
  <2>2. Late(i) /\ interrupt[i] = "none" /\ Job[i].timeout # NoTimeout
    BY <1>2, <2>1 DEF TimerFires, Late
  <2>3. waiter[i] = "lease" /\ InTime(i)
    BY <1>1, <1>2, <1>5, <2>2 DEF Tickets, ActiveOK
  <2>4. started[i] >= created[i] + Job[i].timeout
    BY <1>2, <2>1, <2>3 DEF TimerFires
  <2>5. QED
    BY <1>1, <2>2, <2>3, <2>4, JobFacts DEF InTime, SchedulerTypes
<1>6. \A j \in Jobs : CallOK(j)'
  BY <1>1, <1>2, <1>3 DEF Tickets, CallOK
<1>7. ASSUME NEW j \in queued'
      PROVE  /\ call'[j] = "waiting"
             /\ \/ waiter'[j] = waiter[j] /\ interrupt'[j] = interrupt[j]
                \/ /\ waiter'[j] = "cancelled"
                   /\ interrupt'[j] = "cancel" \/ (interrupt'[j] = "timer" /\ Late(j))
  BY <1>1, <1>2, <1>3, <1>7 DEF Tickets, QueuedOK, SchedulerTypes, TimerFires
<1>8. ASSUME NEW j \in active
      PROVE  \/ call'[j] = "holding"
             \/ /\ call'[j] = "waiting" /\ call[j] = "waiting"
                /\ \/ interrupt'[j] = interrupt[j] /\ (waiter[j] = "lease" => waiter'[j] = "lease")
                   \/ interrupt'[j] = "cancel"
  BY <1>1, <1>2, <1>3, <1>5, <1>8 DEF Tickets, ActiveOK, SchedulerTypes
<1>9. /\ ~dispatching' /\ queued' \subseteq queued /\ active' = active
      /\ reservations' = reservations /\ evicting' \subseteq evicting
      /\ UNCHANGED <<created, started, now>>
  BY <1>1, <1>2 DEF resourceVars, ticketVars, hostVars, SchedulerTypes
<1>10. QED
  BY <1>2, <1>4, <1>6, <1>7, <1>8, <1>9, QuietKeepsInv

(* The waiting call resumes with the lease its grant left.                  *)
LEMMA LeaseKeepsInv ==
  ASSUME OwnedInv, NEW i \in Jobs, ResumeWithLease(i)
  PROVE  OwnedInv'
<1>1. SchedulerTypes /\ Tickets
  BY DEF OwnedInv
<1>2. /\ ~dispatching /\ call[i] = "waiting" /\ interrupt[i] = "none" /\ waiter[i] = "lease"
      /\ call' = [call EXCEPT ![i] = "holding"]
      /\ UNCHANGED <<resourceVars, ticketVars, hostVars, queued, active, waiter, interrupt,
                     dispatching>>
  BY DEF ResumeWithLease
<1>3. i \in active /\ i \notin queued
  BY <1>1, <1>2 DEF Tickets, CallOK, QueuedOK
<1>4. SchedulerTypes'
  BY <1>1, <1>2 DEF SchedulerTypes, Calls, ticketVars, hostVars
<1>5. \A j \in Jobs : CallOK(j)'
  BY <1>1, <1>2, <1>3 DEF Tickets, CallOK, SchedulerTypes
<1>6. ASSUME NEW j \in queued'
      PROVE  call'[j] = "waiting" /\ waiter'[j] = waiter[j] /\ interrupt'[j] = interrupt[j]
  BY <1>1, <1>2, <1>3, <1>6 DEF Tickets, QueuedOK, SchedulerTypes
<1>7. ASSUME NEW j \in active
      PROVE  \/ call'[j] = "holding"
             \/ /\ call'[j] = "waiting" /\ call[j] = "waiting"
                /\ interrupt'[j] = interrupt[j] /\ (waiter[j] = "lease" => waiter'[j] = "lease")
  BY <1>1, <1>2, <1>7 DEF Tickets, ActiveOK, SchedulerTypes
<1>8. /\ ~dispatching' /\ queued' \subseteq queued /\ active' = active
      /\ reservations' = reservations /\ evicting' \subseteq evicting
      /\ UNCHANGED <<created, started, now>>
  BY <1>1, <1>2 DEF resourceVars, ticketVars, hostVars, SchedulerTypes
<1>9. QED
  BY <1>2, <1>4, <1>5, <1>6, <1>7, <1>8, QuietKeepsInv

(* A call that ends: its ticket is removed, its slot is freed, or there is  *)
(* nothing left to do because it has neither.                               *)
Ending(i) ==
  /\ ~dispatching
  /\ call' = [call EXCEPT ![i] = "over"]
  /\ \/ RemoveQueued(i) \/ ReleaseActive(i)
     \/ i \notin queued \cup active /\ LeaveAsIs
  /\ UNCHANGED <<ticketVars, hostVars, interrupt>>

(* An ending gives back what the call had, and nothing of another call.     *)
LEMMA EndingKeepsInv ==
  ASSUME OwnedInv, NEW i \in Jobs, Ending(i)
  PROVE  OwnedInv'
<1>1. SchedulerTypes /\ Tickets /\ reservations = active
  BY DEF OwnedInv
<1>2. /\ call' \in [Jobs -> Calls] /\ call'[i] = "over"
      /\ \A j \in Jobs : j # i => call'[j] = call[j]
      /\ UNCHANGED <<now, created, started, interrupt>>
  BY <1>1 DEF Ending, SchedulerTypes, Calls, ticketVars, hostVars
<1>3. CASE RemoveQueued(i)
  <2>1. /\ i \in queued /\ Dispatch(queued \ {i}, Settle({i}, waiter), 1)
        /\ active' = active /\ reservations' = reservations /\ evicting' = evicting
    BY <1>3 DEF RemoveQueued, resourceVars
  <2>2. i \notin active
    BY <1>1, <2>1 DEF Tickets, QueuedOK
  <2>3. /\ Settle({i}, waiter) \in [Jobs -> Waiters]
        /\ \A j \in Jobs : Settle({i}, waiter)[j] = "lease" <=> waiter[j] = "lease"
        /\ \A j \in queued \ {i} : Settle({i}, waiter)[j] = waiter[j]
    BY <1>1, SettleFacts DEF SchedulerTypes
  <2>4. \A j \in (queued \ {i}) \cup active' : call'[j] = call[j]
    BY <1>1, <1>2, <2>1, <2>2 DEF SchedulerTypes
  <2>5. QED
    BY <1>1, <1>2, <2>1, <2>3, <2>4, RemovalKeepsInv
<1>4. CASE ReleaseActive(i)
  <2>1. /\ i \in active /\ Dispatch(queued, waiter, 1)
        /\ active' = active \ {i} /\ reservations' = reservations \ {i} /\ evicting' = evicting
    BY <1>4 DEF ReleaseActive
  <2>2. i \notin queued
    BY <1>1, <2>1 DEF Tickets, QueuedOK
  <2>3. \A j \in queued \cup active' : call'[j] = call[j]
    BY <1>1, <1>2, <2>1, <2>2 DEF SchedulerTypes
  <2>4. waiter \in [Jobs -> Waiters]
    BY <1>1 DEF SchedulerTypes
  <2>5. QED
    BY <1>1, <1>2, <2>1, <2>3, <2>4, RemovalKeepsInv
<1>5. CASE i \notin queued \cup active /\ LeaveAsIs
  <2>1. /\ ~dispatching /\ ~dispatching' /\ queued' = queued /\ active' = active
        /\ reservations' = reservations /\ evicting' = evicting /\ waiter' = waiter
    BY <1>5 DEF Ending, LeaveAsIs, resourceVars
  <2>2. SchedulerTypes'
    BY <1>1, <1>2, <2>1 DEF SchedulerTypes
  <2>3. \A j \in Jobs : CallOK(j)'
    BY <1>1, <1>2, <2>1 DEF Tickets, CallOK
  <2>4. \A j \in queued' : call'[j] = "waiting"
    BY <1>1, <1>2, <1>5, <2>1 DEF Tickets, QueuedOK, SchedulerTypes
  <2>5. \A j \in active : call'[j] = call[j] /\ call[j] \in {"holding", "waiting"}
    BY <1>1, <1>2, <1>5 DEF Tickets, ActiveOK, SchedulerTypes
  <2>6. QED
    BY <1>2, <2>1, <2>2, <2>3, <2>4, <2>5, QuietKeepsInv
<1>6. QED
  BY <1>3, <1>4, <1>5 DEF Ending

(* The three ways out of a call are such endings: a call that times out has *)
(* no slot, because a grant and a timeout exclude each other.               *)
LEMMA WaysOutAreEndings ==
  ASSUME OwnedInv, NEW i \in Jobs, ResumeTimedOut(i) \/ ResumeCancelled(i) \/ Release(i)
  PROVE  Ending(i)
<1>1. Tickets
  BY DEF OwnedInv
<1>2. CASE ResumeTimedOut(i)
  <2>1. i \notin active
    BY <1>1, <1>2 DEF ResumeTimedOut, Tickets, ActiveOK
  <2>2. QED
    BY <1>2, <2>1 DEF ResumeTimedOut, OnTimeout, Ending
<1>3. CASE ResumeCancelled(i)
  BY <1>3 DEF ResumeCancelled, OnCancelled, Ending
<1>4. CASE Release(i)
  <2>1. i \in active
    BY <1>1, <1>4 DEF Release, Tickets, CallOK
  <2>2. QED
    BY <1>4, <2>1 DEF Release, Ending
<1>5. QED
  BY <1>2, <1>3, <1>4

-----------------------------------------------------------------------------
(* Steps of others: cancel_queued_request, snapshot, the gate, shutdown,    *)
(* evictions, pins, memory and the clock.                                   *)

(* cancel_queued_request removes tickets that are queued; their calls end   *)
(* when they resume.                                                        *)
LEMMA CancelRequestKeepsInv ==
  ASSUME OwnedInv, NEW c \in Jobs, CancelQueuedRequest(c)
  PROVE  OwnedInv'
<1>1. SchedulerTypes /\ reservations = active
  BY DEF OwnedInv
<1> DEFINE M == {j \in queued : Identity(j) = Identity(c)}
<1>2. /\ Dispatch(queued \ M, Settle(M, waiter), Cardinality(M))
      /\ UNCHANGED <<resourceVars, ticketVars, hostVars, call, active, interrupt>>
  BY DEF CancelQueuedRequest
<1> HIDE DEF M
<1>3. /\ Settle(M, waiter) \in [Jobs -> Waiters]
      /\ \A j \in Jobs : Settle(M, waiter)[j] = "lease" <=> waiter[j] = "lease"
      /\ \A j \in queued \ M : Settle(M, waiter)[j] = waiter[j]
  BY <1>1, SettleFacts DEF SchedulerTypes
<1>4. /\ UNCHANGED <<now, created, started, interrupt, call, active, evicting>>
      /\ reservations' = active' /\ call \in [Jobs -> Calls]
  BY <1>1, <1>2 DEF resourceVars, ticketVars, hostVars, SchedulerTypes
<1>5. QED
  BY <1>2, <1>3, <1>4, RemovalKeepsInv

(* A dispatch on its own: the gate changes or an eviction ends.             *)
LEMMA BareDispatchKeepsInv ==
  ASSUME OwnedInv, (\E g, p : SetBackgroundGate(g, p)) \/ (\E w \in Workers : EvictionEnds(w))
  PROVE  OwnedInv'
<1>1. SchedulerTypes /\ reservations = active
  BY DEF OwnedInv
<1>2. /\ Dispatch(queued, waiter, 0)
      /\ UNCHANGED <<reservations, ticketVars, now, call, active, interrupt>>
      /\ evicting' \subseteq evicting
  BY DEF SetBackgroundGate, EvictionEnds, resourceVars, hostVars
<1>3. /\ UNCHANGED <<now, created, started, interrupt, call, active>>
      /\ reservations' = active' /\ call \in [Jobs -> Calls] /\ waiter \in [Jobs -> Waiters]
  BY <1>1, <1>2 DEF ticketVars, SchedulerTypes
<1>4. QED
  BY <1>2, <1>3, RemovalKeepsInv

(* Calls, slots and interrupts stay; queued tickets may go.                 *)
LEMMA OthersKeepInv ==
  ASSUME OwnedInv, SchedulerTypes', ~dispatching, ~dispatching',
         queued' \subseteq queued,
         UNCHANGED <<active, reservations, call, interrupt, created, started>>,
         evicting' \subseteq evicting, now' = now \/ now' = now + 1,
         \A j \in queued' : waiter'[j] = waiter[j],
         \A j \in Jobs : waiter'[j] = "lease" <=> waiter[j] = "lease"
  PROVE  OwnedInv'
<1>1. SchedulerTypes /\ Tickets
  BY DEF OwnedInv
<1>2. \A j \in Jobs : CallOK(j)'
  BY <1>1 DEF Tickets, CallOK
<1>3. \A j \in queued' : call'[j] = "waiting"
  BY <1>1 DEF Tickets, QueuedOK, SchedulerTypes
<1>4. \A j \in active : j \in Jobs /\ call[j] \in {"holding", "waiting"}
  BY <1>1 DEF Tickets, ActiveOK, SchedulerTypes
<1>5. QED
  BY <1>2, <1>3, <1>4, QuietKeepsInv

(* snapshot() and shutdown() remove queued tickets without a dispatch.      *)
LEMMA QueueSweepsKeepInv ==
  ASSUME OwnedInv, Snapshot \/ Shutdown
  PROVE  OwnedInv'
<1>1. SchedulerTypes
  BY DEF OwnedInv
<1>2. CASE Snapshot
  <2>1. /\ Sweep(queued, waiter, 0) /\ ~dispatching /\ ~dispatching'
        /\ UNCHANGED <<active, reservations, evicting, call, interrupt, created, started, now>>
    BY <1>2 DEF Snapshot, resourceVars, ticketVars, hostVars
  <2>2. /\ queued' \subseteq queued /\ waiter' \in [Jobs -> Waiters]
        /\ \A j \in queued' : waiter'[j] = waiter[j]
        /\ \A j \in Jobs : waiter'[j] = "lease" <=> waiter[j] = "lease"
    BY <1>1, <2>1, SweepFacts DEF SchedulerTypes
  <2>3. SchedulerTypes'
    BY <1>1, <2>1, <2>2 DEF SchedulerTypes
  <2>4. QED
    BY <2>1, <2>2, <2>3, OthersKeepInv
<1>3. CASE Shutdown
  <2>1. /\ queued' = {} /\ waiter' = Settle(queued, waiter) /\ ~dispatching /\ ~dispatching'
        /\ UNCHANGED <<active, reservations, evicting, call, interrupt, created, started, now>>
    BY <1>3 DEF Shutdown, resourceVars, ticketVars
  <2>2. /\ waiter' \in [Jobs -> Waiters]
        /\ \A j \in Jobs : waiter'[j] = "lease" <=> waiter[j] = "lease"
    BY <1>1, <2>1, SettleFacts DEF SchedulerTypes
  <2>3. SchedulerTypes'
    BY <1>1, <2>1, <2>2 DEF SchedulerTypes
  <2>4. QED
    BY <2>1, <2>2, <2>3, OthersKeepInv
<1>4. QED
  BY <1>2, <1>3

(* Pins, memory samples and the clock.                                      *)
LEMMA HostKeepsInv ==
  ASSUME OwnedInv, HostChanges \/ Tick
  PROVE  OwnedInv'
<1>1. /\ ~dispatching /\ ~dispatching' /\ (now' = now \/ now' = now + 1)
      /\ UNCHANGED <<queued, waiter, active, reservations, evicting, call, interrupt, created,
                     started>>
  BY DEF HostChanges, Tick, Pin, Unpin, MemoryChanges, resourceVars, ticketVars, hostVars
<1>2. SchedulerTypes'
  BY <1>1 DEF OwnedInv, SchedulerTypes
<1>3. QED
  BY <1>1, <1>2, OthersKeepInv

(* An eviction begins only when the worker holds no reservation.            *)
LEMMA EvictIdleKeepsInv ==
  ASSUME OwnedInv, NEW w \in Workers, EvictIdle(w)
  PROVE  OwnedInv'
<1>1. /\ evicting' = evicting \cup {w} /\ ReservedOn(w) = {}
      /\ UNCHANGED <<queued, waiter, active, reservations, call, interrupt, created, started, now,
                     dispatching>>
  BY DEF EvictIdle, BeginEviction, ticketVars, hostVars
<1>2. SchedulerTypes' /\ reservations' = active'
  BY <1>1 DEF OwnedInv, SchedulerTypes
<1>3. Tickets'
  BY <1>1 DEF OwnedInv, Tickets, QueuedOK, ActiveOK, CallOK, InTime, Late
<1>4. EvictedIsIdle'
  BY <1>1 DEF OwnedInv, EvictedIsIdle, ReservedOn
<1>5. QED
  BY <1>2, <1>3, <1>4 DEF OwnedInv

-----------------------------------------------------------------------------
(* The invariant holds in every state of the scheduler.                     *)
LEMMA OwnedInvariant == SchedulerSafety => []OwnedInv
<1>1. SchedulerInit => OwnedInv
  BY DEF SchedulerInit, ResourcesInit, OwnedInv, SchedulerTypes, Tickets, CallOK, EvictedIsIdle,
         Calls, Waiters, Interrupts
<1>2. ASSUME OwnedInv, [SchedulerNext]_vars
      PROVE  OwnedInv'
  <2>1. CASE UNCHANGED vars
    <3>1. SchedulerTypes' /\ reservations' = active' /\ EvictedIsIdle'
      BY <1>2, <2>1 DEF vars, resourceVars, ticketVars, hostVars, OwnedInv, SchedulerTypes,
                         EvictedIsIdle
    <3>2. Tickets'
      BY <1>2, <2>1 DEF vars, ticketVars, hostVars, OwnedInv, Tickets, QueuedOK, ActiveOK,
                         CallOK, InTime, Late
    <3>3. QED
      BY <3>1, <3>2 DEF OwnedInv
  <2>2. ASSUME NEW j \in Jobs, CallStep(j)
        PROVE  OwnedInv'
    BY <1>2, <2>2, AcquireKeepsInv, RefusedKeepsInv, InterruptKeepsInv, LeaseKeepsInv,
       WaysOutAreEndings, EndingKeepsInv DEF CallStep
  <2>3. ASSUME NEW j \in Jobs, Grant(j) \/ CancelQueuedRequest(j)
        PROVE  OwnedInv'
    BY <1>2, <2>3, GrantKeepsInv, CancelRequestKeepsInv
  <2>4. CASE DispatchDone \/ Snapshot \/ Shutdown \/ HostChanges \/ Tick
    BY <1>2, <2>4, DispatchDoneKeepsInv, QueueSweepsKeepInv, HostKeepsInv
  <2>5. ASSUME NEW g \in GateReasons, NEW p \in BOOLEAN, SetBackgroundGate(g, p)
        PROVE  OwnedInv'
    BY <1>2, <2>5, BareDispatchKeepsInv
  <2>6. ASSUME NEW w \in Workers, EvictIdle(w) \/ EvictionEnds(w)
        PROVE  OwnedInv'
    BY <1>2, <2>6, EvictIdleKeepsInv, BareDispatchKeepsInv
  <2>7. QED
    BY <1>2, <2>1, <2>2, <2>3, <2>4, <2>5, <2>6 DEF SchedulerNext
<1>3. QED
  BY <1>1, <1>2, PTL DEF SchedulerSafety

(* Every slot has somebody who gives it back, whatever races a grant: the   *)
(* timer of wait_for, a cancelled caller, cancel_queued_request, a sweep or *)
(* a shutdown.                                                              *)
THEOREM SlotsOwned == SchedulerSafety => []Owned
<1>1. OwnedInv => Owned
  BY DEF OwnedInv, SchedulerTypes, Tickets, ActiveOK, CallOK, Owned
<1>2. QED
  BY <1>1, OwnedInvariant, PTL

(* No ticket starts on a worker that evict_idle is stopping, for any        *)
(* reservations, pins and memory samples.                                   *)
THEOREM EvictionsUndisturbed == SchedulerSafety => []EvictedIsIdle
<1>1. OwnedInv => EvictedIsIdle
  BY DEF OwnedInv
<1>2. QED
  BY <1>1, OwnedInvariant, PTL

-----------------------------------------------------------------------------
(* The slots: only a grant adds a ticket.                                   *)
LEMMA OnlyGrantAdds ==
  ASSUME [SchedulerNext]_vars
  PROVE  active' \subseteq active \/ \E j \in Jobs : Grant(j)
<1>1. ASSUME NEW j \in Jobs, CallStep(j)
      PROVE  active' \subseteq active
  <2>1. CASE ResumeTimedOut(j) \/ ResumeCancelled(j) \/ Release(j)
    BY <2>1 DEF ResumeTimedOut, ResumeCancelled, Release, OnTimeout, OnCancelled, RemoveQueued,
                ReleaseActive, LeaveAsIs
  <2>2. CASE Acquire(j) \/ AcquireRefused(j) \/ TimerFires(j) \/ CancelCaller(j)
               \/ ResumeWithLease(j)
    BY <2>2 DEF Acquire, AcquireRefused, TimerFires, CancelCaller, ResumeWithLease
  <2>3. QED
    BY <1>1, <2>1, <2>2 DEF CallStep
<1>2. ASSUME NEW j \in Jobs, CancelQueuedRequest(j)
      PROVE  active' \subseteq active
  BY <1>2 DEF CancelQueuedRequest
<1>3. ASSUME DispatchDone \/ Snapshot \/ Shutdown \/ HostChanges \/ Tick
      PROVE  active' \subseteq active
  BY <1>3 DEF DispatchDone, Snapshot, Shutdown, HostChanges, Tick
<1>4. ASSUME NEW g \in GateReasons, NEW p \in BOOLEAN, SetBackgroundGate(g, p)
      PROVE  active' \subseteq active
  BY <1>4 DEF SetBackgroundGate
<1>5. ASSUME NEW w \in Workers, EvictIdle(w) \/ EvictionEnds(w)
      PROVE  active' \subseteq active
  BY <1>5 DEF EvictIdle, EvictionEnds
<1>6. CASE UNCHANGED vars
  BY <1>6 DEF vars
<1>7. QED
  BY <1>1, <1>2, <1>3, <1>4, <1>5, <1>6 DEF SchedulerNext

(* A subset is no larger ...                                                *)
LEMMA Shrinks ==
  ASSUME NEW S \in SUBSET Jobs, NEW T \in SUBSET S, NEW n \in Nat, Cardinality(S) <= n
  PROVE  Cardinality(T) <= n
<1>1. IsFiniteSet(S) /\ IsFiniteSet(T)
  BY ResourceAssumption, FS_Subset DEF ResourceAssumption
<1>2. Cardinality(T) <= Cardinality(S)
  BY <1>1, FS_Subset
<1>3. Cardinality(T) \in Nat /\ Cardinality(S) \in Nat
  BY <1>1, FS_CardinalityType
<1>4. QED
  BY <1>2, <1>3

(* ... and one more ticket makes a set one larger.                          *)
LEMMA Grows ==
  ASSUME NEW S \in SUBSET Jobs, NEW j, NEW n \in Nat, Cardinality(S) < n
  PROVE  Cardinality(S \cup {j}) <= n
<1>1. IsFiniteSet(S)
  BY ResourceAssumption, FS_Subset DEF ResourceAssumption
<1>2. Cardinality(S) \in Nat
  BY <1>1, FS_CardinalityType
<1>3. Cardinality(S \cup {j}) = Cardinality(S) \/ Cardinality(S \cup {j}) = Cardinality(S) + 1
  BY <1>1, FS_AddElement
<1>4. QED
  BY <1>2, <1>3

(* The limits of the host, of each worker and of each actor hold together,  *)
(* for any calls and limits: _runnable and the loop's own count guard every *)
(* grant, and nothing else adds a ticket.                                   *)
THEOREM SlotsLimited == SchedulerSafety => []SlotLimits
<1> DEFINE OnWorker(A, w) == {j \in A : Job[j].worker = w}
           OfActor(A, a) == {j \in A : Job[j].actor = a}
<1>1. SchedulerInit => SlotLimits
  <2>1. SUFFICES ASSUME SchedulerInit PROVE SlotLimits
    OBVIOUS
  <2>2. active = {} /\ Cardinality({}) = 0
    BY <2>1, FS_EmptySet DEF SchedulerInit
  <2>3. \A w \in Workers : {j \in active : Job[j].worker = w} = {}
    BY <2>2
  <2>4. \A a \in Actors : {j \in active : Job[j].actor = a} = {}
    BY <2>2
  <2>5. QED
    BY <2>2, <2>3, <2>4, SchedulerAssumption DEF SlotLimits, SchedulerAssumption
<1>2. ASSUME OwnedInv, SlotLimits, [SchedulerNext]_vars
      PROVE  SlotLimits'
  <2>1. active \subseteq Jobs /\ MaxHeavy \in Nat /\ MaxActivePerActor \in Nat
        /\ \A w \in Workers : WorkerSlots[w] \in Nat
    BY <1>2, SchedulerAssumption DEF OwnedInv, SchedulerTypes, SchedulerAssumption
  <2>2. CASE active' \subseteq active
    <3>1. Cardinality(active') <= MaxHeavy
      BY <1>2, <2>1, <2>2, Shrinks DEF SlotLimits
    <3>2. ASSUME NEW w \in Workers
          PROVE  Cardinality(OnWorker(active', w)) <= WorkerSlots[w]
      <4>1. OnWorker(active', w) \subseteq OnWorker(active, w)
            /\ OnWorker(active, w) \subseteq Jobs
        BY <2>1, <2>2
      <4>2. Cardinality(OnWorker(active, w)) <= WorkerSlots[w]
        BY <1>2 DEF SlotLimits
      <4> HIDE DEF OnWorker
      <4>3. QED
        BY <2>1, <4>1, <4>2, Shrinks
    <3>3. ASSUME NEW a \in Actors
          PROVE  Cardinality(OfActor(active', a)) <= MaxActivePerActor
      <4>1. OfActor(active', a) \subseteq OfActor(active, a)
            /\ OfActor(active, a) \subseteq Jobs
        BY <2>1, <2>2
      <4>2. Cardinality(OfActor(active, a)) <= MaxActivePerActor
        BY <1>2 DEF SlotLimits
      <4> HIDE DEF OfActor
      <4>3. QED
        BY <2>1, <4>1, <4>2, Shrinks
    <3>4. QED
      BY <3>1, <3>2, <3>3 DEF SlotLimits
  <2>3. ASSUME NEW i \in Jobs, Grant(i)
        PROVE  SlotLimits'
    <3>1. /\ Cardinality(active) < MaxHeavy /\ Runnable(i)
          /\ active' = active \cup {i}
      BY <2>3 DEF Grant, Grantable
    <3>2. Cardinality(active') <= MaxHeavy
      BY <2>1, <3>1, Grows
    <3>3. ASSUME NEW w \in Workers
          PROVE  Cardinality(OnWorker(active', w)) <= WorkerSlots[w]
      <4>1. CASE Job[i].worker = w
        <5>1. OnWorker(active', w) = OnWorker(active, w) \cup {i}
              /\ OnWorker(active, w) \subseteq Jobs
          BY <2>1, <3>1, <4>1
        <5>2. Cardinality(OnWorker(active, w)) < WorkerSlots[w]
          BY <3>1, <4>1 DEF Runnable
        <5> HIDE DEF OnWorker
        <5>3. QED
          BY <2>1, <5>1, <5>2, Grows
      <4>2. CASE Job[i].worker # w
        <5>1. OnWorker(active', w) = OnWorker(active, w)
          BY <3>1, <4>2
        <5>2. QED
          BY <1>2, <5>1 DEF SlotLimits
      <4>3. QED
        BY <4>1, <4>2
    <3>4. ASSUME NEW a \in Actors
          PROVE  Cardinality(OfActor(active', a)) <= MaxActivePerActor
      <4>1. CASE Job[i].actor = a
        <5>1. OfActor(active', a) = OfActor(active, a) \cup {i}
              /\ OfActor(active, a) \subseteq Jobs
          BY <2>1, <3>1, <4>1
        <5>2. Job[i].actor # NoActor
          BY <4>1, ResourceAssumption DEF ResourceAssumption
        <5>3. Cardinality(OfActor(active, a)) < MaxActivePerActor
          BY <3>1, <4>1, <5>2 DEF Runnable
        <5> HIDE DEF OfActor
        <5>4. QED
          BY <2>1, <5>1, <5>3, Grows
      <4>2. CASE Job[i].actor # a
        <5>1. OfActor(active', a) = OfActor(active, a)
          BY <3>1, <4>2
        <5>2. QED
          BY <1>2, <5>1 DEF SlotLimits
      <4>3. QED
        BY <4>1, <4>2
    <3>5. QED
      BY <3>2, <3>3, <3>4 DEF SlotLimits
  <2>4. QED
    BY <1>2, <2>2, <2>3, OnlyGrantAdds
<1>3. QED
  BY <1>1, <1>2, OwnedInvariant, PTL DEF SchedulerSafety
-----------------------------------------------------------------------------
(* The counters.                                                            *)
Counted ==
  /\ sequence \in Nat /\ ended \in Nat
  /\ Accounting

(* Taking tickets out of a set of tickets.                                  *)
LEMMA Removal ==
  ASSUME NEW S \in SUBSET Jobs, NEW T \in SUBSET S
  PROVE  /\ Cardinality(S) \in Nat /\ Cardinality(T) \in Nat /\ Cardinality(S \ T) \in Nat
         /\ Cardinality(S \ T) + Cardinality(T) = Cardinality(S)
<1>1. IsFiniteSet(S) /\ IsFiniteSet(T) /\ IsFiniteSet(S \ T)
  BY ResourceAssumption, FS_Subset DEF ResourceAssumption
<1>2. Cardinality(S) \in Nat /\ Cardinality(T) \in Nat /\ Cardinality(S \ T) \in Nat
  BY <1>1, FS_CardinalityType
<1>3. Cardinality(S \ T) = Cardinality(S) - Cardinality(S \cap T) /\ S \cap T = T
  BY <1>1, FS_Difference
<1>4. QED
  BY <1>2, <1>3

(* One ticket more, one ticket less.                                        *)
LEMMA OneTicket ==
  ASSUME NEW S \in SUBSET Jobs, NEW j \in Jobs
  PROVE  /\ Cardinality(S) \in Nat
         /\ j \notin S => Cardinality(S \cup {j}) = Cardinality(S) + 1
         /\ j \in S => Cardinality(S \ {j}) + 1 = Cardinality(S)
<1>1. IsFiniteSet(S)
  BY ResourceAssumption, FS_Subset DEF ResourceAssumption
<1>2. Cardinality(S) \in Nat
  BY <1>1, FS_CardinalityType
<1>3. j \notin S => Cardinality(S \cup {j}) = Cardinality(S) + 1
  BY <1>1, FS_AddElement
<1>4. j \in S => Cardinality(S \ {j}) = Cardinality(S) - 1
  BY <1>1, FS_RemoveElement
<1>5. QED
  BY <1>2, <1>3, <1>4

(* _expire_locked counts every ticket it takes out of the queue.            *)
LEMMA SweepCounts ==
  ASSUME NEW Q \in SUBSET Jobs, NEW W, NEW count \in Nat, ended \in Nat, Sweep(Q, W, count)
  PROVE  /\ ended' \in Nat /\ Cardinality(queued') \in Nat
         /\ Cardinality(queued') + ended' = Cardinality(Q) + ended + count
<1> DEFINE late == {j \in Q \cap queued : Late(j)}
<1>1. late \in SUBSET Q /\ queued' = Q \ late /\ ended' = ended + count + Cardinality(late)
  BY DEF Sweep
<1> HIDE DEF late
<1>2. /\ Cardinality(Q) \in Nat /\ Cardinality(late) \in Nat /\ Cardinality(Q \ late) \in Nat
      /\ Cardinality(Q \ late) + Cardinality(late) = Cardinality(Q)
  BY <1>1, Removal
<1>3. QED
  BY <1>1, <1>2

(* A method that takes tickets out of the queue, counts them and sweeps.    *)
LEMMA RemovalCounts ==
  ASSUME SchedulerTypes, Counted, NEW T \in SUBSET queued, NEW W,
         Sweep(queued \ T, W, Cardinality(T)), UNCHANGED <<active, sequence>>
  PROVE  Counted'
<1>1. queued \in SUBSET Jobs /\ active \in SUBSET Jobs /\ queued \ T \in SUBSET Jobs
  BY DEF SchedulerTypes
<1>2. /\ Cardinality(T) \in Nat /\ Cardinality(queued) \in Nat /\ Cardinality(queued \ T) \in Nat
      /\ Cardinality(queued \ T) + Cardinality(T) = Cardinality(queued)
      /\ Cardinality(active) \in Nat
  BY <1>1, Removal
<1>3. /\ ended' \in Nat /\ Cardinality(queued') \in Nat
      /\ Cardinality(queued') + ended' = Cardinality(queued \ T) + ended + Cardinality(T)
  BY <1>1, <1>2, SweepCounts DEF Counted
<1>4. QED
  BY <1>2, <1>3 DEF Counted, Accounting

(* The same when nothing is removed but what is late.                       *)
LEMMA SweepKeepsCount ==
  ASSUME SchedulerTypes, Counted, NEW W, Sweep(queued, W, 0), UNCHANGED <<active, sequence>>
  PROVE  Counted'
<1>1. queued \in SUBSET Jobs /\ active \in SUBSET Jobs
  BY DEF SchedulerTypes
<1>2. Cardinality(queued) \in Nat /\ Cardinality(active) \in Nat
  BY <1>1, Removal
<1>3. /\ ended' \in Nat /\ Cardinality(queued') \in Nat
      /\ Cardinality(queued') + ended' = Cardinality(queued) + ended + 0
  BY <1>1, SweepCounts DEF Counted
<1>4. QED
  BY <1>2, <1>3 DEF Counted, Accounting

(* A ticket leaves the queue or its slot under one final status: no way out *)
(* of a call counts it twice, and none forgets it.                          *)
LEMMA EndingCounts ==
  ASSUME OwnedInv, Counted, NEW i \in Jobs, Ending(i)
  PROVE  Counted'
<1>1. SchedulerTypes /\ Counted /\ sequence' = sequence
  BY DEF OwnedInv, Ending, ticketVars
<1>2. queued \in SUBSET Jobs /\ active \in SUBSET Jobs
  BY <1>1 DEF SchedulerTypes
<1>3. CASE RemoveQueued(i)
  <2>1. /\ i \in queued /\ {i} \in SUBSET queued /\ active' = active
        /\ Sweep(queued \ {i}, Settle({i}, waiter), 1)
    BY <1>3 DEF RemoveQueued, Dispatch
  <2>2. Cardinality({i}) = 1
    BY FS_Singleton
  <2>3. QED
    BY <1>1, <2>1, <2>2, RemovalCounts
<1>4. CASE ReleaseActive(i)
  <2>1. i \in active /\ active' = active \ {i} /\ Sweep(queued, waiter, 1)
    BY <1>4 DEF ReleaseActive, Dispatch
  <2>2. /\ Cardinality(queued) \in Nat /\ Cardinality(active) \in Nat
        /\ Cardinality(active') + 1 = Cardinality(active) /\ Cardinality(active') \in Nat
    BY <1>2, <2>1, OneTicket
  <2>3. /\ ended' \in Nat /\ Cardinality(queued') \in Nat
        /\ Cardinality(queued') + ended' = Cardinality(queued) + ended + 1
    BY <1>1, <1>2, <2>1, SweepCounts DEF Counted
  <2>4. QED
    BY <1>1, <2>2, <2>3 DEF Counted, Accounting
<1>5. CASE LeaveAsIs
  BY <1>1, <1>5 DEF LeaveAsIs, Counted, Accounting
<1>6. QED
  BY <1>3, <1>4, <1>5 DEF Ending

(* Every ticket is queued, active or counted once under one final status,   *)
(* whatever races its removal: the two handlers of acquire(), a sweep, a    *)
(* cancelled request, a release and a shutdown.                             *)
THEOREM TicketsAccounted == SchedulerSafety => []Accounting
<1>1. SchedulerInit => Counted
  BY FS_EmptySet DEF SchedulerInit, Counted, Accounting
<1>2. ASSUME OwnedInv, Counted, [SchedulerNext]_vars
      PROVE  Counted'
  <2>1. /\ SchedulerTypes /\ Tickets
        /\ queued \in SUBSET Jobs /\ active \in SUBSET Jobs
        /\ sequence \in Nat /\ ended \in Nat
        /\ Cardinality(queued) \in Nat /\ Cardinality(active) \in Nat
        /\ sequence = Cardinality(queued) + Cardinality(active) + ended
    BY <1>2, Removal DEF OwnedInv, SchedulerTypes, Counted, Accounting
  <2>2. ASSUME NEW j \in Jobs, Acquire(j)
        PROVE  Counted'
    <3>1. /\ Sweep(queued \cup {j}, [waiter EXCEPT ![j] = "pending"], 0)
          /\ sequence' = sequence + 1 /\ active' = active
          /\ call[j] = "idle"
      BY <2>2 DEF Acquire, Dispatch
    <3>2. j \notin queued
      BY <2>1, <3>1 DEF Tickets, QueuedOK
    <3>3. Cardinality(queued \cup {j}) = Cardinality(queued) + 1
          /\ queued \cup {j} \in SUBSET Jobs
      BY <2>1, <3>2, OneTicket
    <3>4. /\ ended' \in Nat /\ Cardinality(queued') \in Nat
          /\ Cardinality(queued') + ended' = Cardinality(queued \cup {j}) + ended + 0
      BY <2>1, <3>1, <3>3, SweepCounts
    <3>5. QED
      BY <2>1, <3>1, <3>3, <3>4 DEF Counted, Accounting
  <2>3. ASSUME NEW j \in Jobs, Grant(j)
        PROVE  Counted'
    <3>1. /\ j \in queued /\ queued' = queued \ {j} /\ active' = active \cup {j}
          /\ UNCHANGED <<sequence, ended>>
      BY <2>3 DEF Grant, Grantable
    <3>2. j \notin active
      BY <2>1, <3>1 DEF Tickets, QueuedOK
    <3>3. /\ Cardinality(queued') + 1 = Cardinality(queued)
          /\ Cardinality(active') = Cardinality(active) + 1
          /\ Cardinality(queued') \in Nat
      BY <2>1, <3>1, <3>2, OneTicket
    <3>4. QED
      BY <2>1, <3>1, <3>3 DEF Counted, Accounting
  <2>4. ASSUME NEW j \in Jobs, ResumeTimedOut(j) \/ ResumeCancelled(j) \/ Release(j)
        PROVE  Counted'
    BY <1>2, <2>4, WaysOutAreEndings, EndingCounts
  <2>5. ASSUME NEW j \in Jobs, CancelQueuedRequest(j)
        PROVE  Counted'
    <3> DEFINE M == {i \in queued : Identity(i) = Identity(j)}
    <3>1. /\ Sweep(queued \ M, Settle(M, waiter), Cardinality(M)) /\ M \in SUBSET queued
          /\ UNCHANGED <<active, sequence>>
      BY <2>5 DEF CancelQueuedRequest, Dispatch, ticketVars
    <3> HIDE DEF M
    <3>2. QED
      BY <1>2, <2>1, <3>1, RemovalCounts
  <2>6. ASSUME Snapshot \/ (\E g, p : SetBackgroundGate(g, p))
               \/ (\E w \in Workers : EvictionEnds(w))
        PROVE  Counted'
    <3>1. Sweep(queued, waiter, 0) /\ UNCHANGED <<active, sequence>>
      BY <2>6 DEF Snapshot, SetBackgroundGate, EvictionEnds, Dispatch, ticketVars
    <3>2. QED
      BY <1>2, <2>1, <3>1, SweepKeepsCount
  <2>7. ASSUME Shutdown
        PROVE  Counted'
    <3>1. /\ queued' = {} /\ ended' = ended + Cardinality(queued)
          /\ UNCHANGED <<active, sequence>>
      BY <2>7 DEF Shutdown, ticketVars
    <3>2. Cardinality(queued') = 0
      BY <3>1, FS_EmptySet
    <3>3. QED
      BY <2>1, <3>1, <3>2 DEF Counted, Accounting
  <2>8. ASSUME \/ \E j \in Jobs : \/ AcquireRefused(j) \/ TimerFires(j) \/ CancelCaller(j)
                                  \/ ResumeWithLease(j)
               \/ DispatchDone \/ HostChanges \/ Tick \/ (\E w \in Workers : EvictIdle(w))
               \/ UNCHANGED vars
        PROVE  Counted'
    <3>1. UNCHANGED <<queued, active, ended, sequence>>
      BY <2>8 DEF AcquireRefused, TimerFires, CancelCaller, ResumeWithLease, DispatchDone,
                  HostChanges, Tick, EvictIdle, vars, ticketVars
    <3>2. QED
      BY <1>2, <3>1 DEF Counted, Accounting
  <2>9. QED
    BY <1>2, <2>2, <2>3, <2>4, <2>5, <2>6, <2>7, <2>8 DEF SchedulerNext, CallStep
<1>3. Counted => Accounting
  BY DEF Counted
<1>4. QED
  BY <1>1, <1>2, <1>3, OwnedInvariant, PTL DEF SchedulerSafety
=============================================================================
