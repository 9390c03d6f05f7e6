------------------------- MODULE ServiceSupervisor -------------------------
(***************************************************************************)
(* ManagedServiceSupervisor (ai2apps/packages/supervisor.py) for one Model *)
(* Worker package, with the operations of PackageManager, the worker API   *)
(* and the idle sweeper that drive it.                                     *)
(*                                                                         *)
(* All of it runs on one event loop and nothing takes a lock, so an action *)
(* is the code between two awaits.  Every call of start() takes the next   *)
(* generation; a generation here names the process it spawns.              *)
(***************************************************************************)
EXTENDS Naturals, FiniteSets

CONSTANTS
  Ops,          \* calls of the operations
  Kind,         \* what each call is
  MaxRestarts,  \* restart.max_attempts of the manifest
  MaxGen        \* bound: generations

Kinds == {"start", "stop", "evict", "exit", "drain"}
Gens == 1..MaxGen
None == 0

ASSUME SupervisorAssumption ==
  Kind \in [Ops -> Kinds] /\ MaxRestarts \in Nat /\ MaxGen \in Nat \ {0}

VARIABLES
  gen,        \* _generations[service_key]
  live,       \* the generation in _live, or None
  proc,       \* the operating system's view of each process
  desired,    \* _Managed.desired
  restarts,   \* _Managed.restart_count
  start,      \* start() of each generation
  starter,    \* the generation whose _watch called it, or None
  watch,      \* _watch of each generation
  stopping,   \* processes stop() has sent SIGTERM
  instance,   \* the status of the Service instance row
  busy,       \* Workers with an active or queued request
  drained,    \* Workers that refuse new requests
  closed,     \* WorkerResourceManager._evicting
  op          \* the calls

supVars == <<gen, live, desired, start, starter, stopping>>
workerVars == <<proc, busy, drained>>
vars == <<supVars, workerVars, restarts, watch, instance, closed, op>>

(* A call: where it is, the generation it expects, the process it looks at *)
(* and whether that one said it was idle.                                  *)
Idle == [at |-> "idle", expects |-> None, target |-> None, free |-> FALSE]

Init ==
  /\ gen = 0 /\ live = None /\ closed = FALSE /\ instance = "stopped"
  /\ proc = [g \in Gens |-> "none"]
  /\ desired = {} /\ stopping = {} /\ busy = {} /\ drained = {}
  /\ restarts = [g \in Gens |-> 0]
  /\ start = [g \in Gens |-> "none"]
  /\ starter = [g \in Gens |-> None]
  /\ watch = [g \in Gens |-> "none"]
  /\ op = [o \in Ops |-> Idle]

Up(g) == g # None /\ proc[g] = "up"
Goes(o, at) == op' = [op EXCEPT ![o].at = at]

-----------------------------------------------------------------------------
(* start() up to create_subprocess_exec, called by the watcher h or by an  *)
(* operation.                                                              *)
BeginStart(h) ==
  /\ gen < MaxGen
  /\ gen' = gen + 1
  /\ start' = [start EXCEPT ![gen + 1] = "exec"]
  /\ starter' = [starter EXCEPT ![gen + 1] = h]

(* stop() up to its wait: whatever is in _live is popped and signalled.    *)
BeginStop ==
  /\ live' = None
  /\ desired' = desired \ {live}
  /\ stopping' = IF Up(live) THEN stopping \cup {live} ELSE stopping
  /\ UNCHANGED <<gen, start, starter>>

Spawned(g) ==
  /\ start[g] = "exec"
  /\ start' = [start EXCEPT ![g] = "readiness"]
  /\ proc' = [proc EXCEPT ![g] = "up"]
  /\ live' = g
  /\ desired' = desired \cup {g}
  /\ UNCHANGED <<gen, starter, stopping, busy, drained, restarts, watch, instance,
                 closed, op>>

WatchOver(h) == IF h = None THEN watch ELSE [watch EXCEPT ![h] = "over"]

SpawnFails(g) ==
  /\ start[g] = "exec"
  /\ start' = [start EXCEPT ![g] = "failed"]
  /\ watch' = WatchOver(starter[g])
  /\ UNCHANGED <<gen, live, desired, starter, stopping, workerVars, restarts,
                 instance, closed, op>>

(* Variant: the replacement starts with a count of its own.                *)
BecomesReadyUncounted(g) ==
  /\ start[g] = "readiness"
  /\ start' = [start EXCEPT ![g] = "done"]
  /\ watch' = [WatchOver(starter[g]) EXCEPT ![g] = "watching"]
  /\ instance' = "running"
  /\ UNCHANGED <<gen, live, desired, starter, stopping, workerVars, restarts,
                 closed, op>>

(* _wait_ready returns, start() creates the watcher and its caller records *)
(* the endpoint; a watcher that called it finds the replacement in _live   *)
(* and gives it its own count plus one.  The process answered while it was *)
(* up; by now it may have ended.                                           *)
BecomesReady(g) ==
  LET h == starter[g]
  IN  /\ start[g] = "readiness"
      /\ start' = [start EXCEPT ![g] = "done"]
      /\ watch' = [WatchOver(h) EXCEPT ![g] = "watching"]
      /\ restarts' = IF h = None \/ live = None THEN restarts
                     ELSE [restarts EXCEPT ![live] = restarts[h] + 1]
      /\ instance' = IF h # None /\ live = None THEN instance ELSE "running"
      /\ UNCHANGED <<gen, live, desired, starter, stopping, workerVars, closed, op>>

(* Variant: start() forgets a process that is not ready in time.           *)
ReadinessFailsQuietly(g) ==
  /\ start[g] = "readiness"
  /\ start' = [start EXCEPT ![g] = "failed"]
  /\ live' = None
  /\ watch' = WatchOver(starter[g])
  /\ UNCHANGED <<gen, desired, starter, stopping, workerVars, restarts, instance,
                 closed, op>>

(* The process exited or the time is over: start() calls stop(), which     *)
(* takes what is in _live by then.                                         *)
ReadinessFails(g) ==
  /\ start[g] = "readiness"
  /\ start' = [start EXCEPT ![g] = "failed"]
  /\ live' = None
  /\ desired' = desired \ {live}
  /\ stopping' = IF Up(live) THEN stopping \cup {live} ELSE stopping
  /\ watch' = WatchOver(starter[g])
  /\ UNCHANGED <<gen, starter, workerVars, restarts, instance, closed, op>>

(* The process ends: by itself, or because it was told to.                 *)
Ends(g) ==
  /\ proc' = [proc EXCEPT ![g] = "gone"]
  /\ busy' = busy \ {g} /\ drained' = drained \ {g}
  /\ UNCHANGED <<supVars, restarts, watch, instance, closed, op>>
Crashes(g) == Up(g) /\ g \notin stopping /\ Ends(g)
Stopped(g) == Up(g) /\ g \in stopping /\ Ends(g)

(* Variant: a spent budget ends the watch and nothing else.                *)
WatchWakesSilently(g) ==
  /\ watch[g] = "watching" /\ proc[g] = "gone"
  /\ watch' = [watch EXCEPT ![g] =
        IF live # g \/ g \notin desired \/ restarts[g] >= MaxRestarts
        THEN "over" ELSE "backoff"]
  /\ UNCHANGED <<supVars, workerVars, restarts, instance, closed, op>>

(* _watch: only the process in _live that should run is restarted.         *)
WatchWakes(g) ==
  /\ watch[g] = "watching" /\ proc[g] = "gone"
  /\ LET theirs == live # g \/ g \notin desired
         spent == restarts[g] >= MaxRestarts
     IN  /\ watch' = [watch EXCEPT ![g] = IF theirs \/ spent THEN "over" ELSE "backoff"]
         /\ instance' = IF ~theirs /\ spent THEN "failed" ELSE instance
  /\ UNCHANGED <<supVars, workerVars, restarts, closed, op>>

(* After the backoff desired is looked at again, _live is not.             *)
Restarts(g) ==
  /\ watch[g] = "backoff" /\ g \in desired
  /\ live' = None
  /\ BeginStart(g)
  /\ watch' = [watch EXCEPT ![g] = "restarting"]
  /\ UNCHANGED <<desired, stopping, workerVars, restarts, instance, closed, op>>

Forgone(g) ==
  /\ watch[g] = "backoff" /\ g \notin desired
  /\ watch' = WatchOver(g)
  /\ UNCHANGED <<supVars, workerVars, restarts, instance, closed, op>>

-----------------------------------------------------------------------------
(* PackageManager.start.  A restart is a stop and then a start.            *)
CallStart(o) ==
  /\ Kind[o] = "start" /\ op[o].at = "idle"
  /\ IF Up(live) THEN UNCHANGED supVars /\ instance' = "running"
     ELSE /\ BeginStart(None)
          /\ UNCHANGED <<live, desired, stopping, instance>>
  /\ Goes(o, "over")
  /\ UNCHANGED <<workerVars, restarts, watch, closed>>

CallStop(o) ==
  /\ Kind[o] = "stop" /\ op[o].at = "idle"
  /\ BeginStop
  /\ op' = [op EXCEPT ![o].at = "stopping", ![o].target = live]
  /\ UNCHANGED <<workerVars, restarts, watch, instance, closed>>

(* The wait of stop() is over: the row follows, whatever runs by now.      *)
StopReturns(o) ==
  /\ op[o].at = "stopping" /\ ~Up(op[o].target)
  /\ Goes(o, "over")
  /\ instance' = "stopped"
  /\ closed' = IF Kind[o] = "evict" THEN FALSE ELSE closed
  /\ UNCHANGED <<supVars, workerVars, restarts, watch>>

(* worker_snapshot: a process that has exited has no requests, another one *)
(* is asked in a thread.                                                   *)
Asks(o) ==
  op' = [op EXCEPT ![o].at = "probe", ![o].target = live, ![o].free = ~Up(live)]

(* sweep_once picks a Worker that is ready.                                *)
Choose(o) ==
  /\ Kind[o] = "evict" /\ op[o].at = "idle"
  /\ Up(live) /\ live \notin busy \cup drained
  /\ op' = [op EXCEPT ![o] = [at |-> "chosen", expects |-> gen, target |-> live,
                              free |-> FALSE]]
  /\ UNCHANGED <<supVars, workerVars, restarts, watch, instance, closed>>

(* evict_idle closes admission when nothing is reserved; evict() compares  *)
(* the generation and asks the Worker.                                     *)
BeginEvict(o) ==
  /\ op[o].at = "chosen" /\ busy = {} /\ ~closed
  /\ IF op[o].expects # gen
     THEN Goes(o, "over") /\ UNCHANGED <<closed, instance>>
     ELSE IF live = None
     THEN Goes(o, "over") /\ instance' = "stopped" /\ UNCHANGED closed
     ELSE Asks(o) /\ closed' = TRUE
                    /\ UNCHANGED instance
  /\ UNCHANGED <<supVars, workerVars, restarts, watch>>

(* The exit endpoint in immediate mode.                                    *)
BeginExit(o) ==
  /\ Kind[o] = "exit" /\ op[o].at = "idle" /\ live # None
  /\ Asks(o)
  /\ UNCHANGED <<supVars, workerVars, restarts, watch, instance, closed>>

(* Variant: the Worker is not told.                                        *)
DrainUntold(o) ==
  /\ Kind[o] = "drain" /\ op[o].at = "idle" /\ Up(live)
  /\ op' = [op EXCEPT ![o].at = "waiting", ![o].expects = live]
  /\ UNCHANGED <<supVars, workerVars, restarts, watch, instance, closed>>

(* run_drain_exit: the Worker stops accepting requests ...                 *)
Drain(o) ==
  /\ Kind[o] = "drain" /\ op[o].at = "idle" /\ Up(live)
  /\ drained' = drained \cup {live}
  /\ op' = [op EXCEPT ![o].at = "waiting", ![o].expects = live]
  /\ UNCHANGED <<supVars, proc, busy, restarts, watch, instance, closed>>

(* ... and is asked until it is idle or gone, ...                          *)
AwaitIdle(o) ==
  /\ op[o].at = "waiting"
  /\ Asks(o)
  /\ UNCHANGED <<supVars, workerVars, restarts, watch, instance, closed>>

(* ... or resumed: after 300 seconds, or when the operation is cancelled.  *)
DrainTimesOut(o) ==
  /\ Kind[o] = "drain" /\ op[o].at \in {"waiting", "probe", "answered"}
  /\ drained' = drained \ {live}
  /\ Goes(o, "over")
  /\ UNCHANGED <<supVars, proc, busy, restarts, watch, instance, closed>>

(* The answer of /v1/status.  A Worker that goes before it answers is not  *)
(* idle.                                                                   *)
Probed(o) ==
  /\ op[o].at = "probe"
  /\ op' = [op EXCEPT ![o].at = "answered",
              ![o].free = @ \/ (Up(op[o].target) /\ op[o].target \notin busy)]
  /\ UNCHANGED <<supVars, workerVars, restarts, watch, instance, closed>>

(* Variant: evict() trusts the checks it made before the snapshot.         *)
MayStopUnchecked(o) == op[o].free

(* What is looked at once the snapshot is back: evict() compares both the  *)
(* generation and the process, the two exits do not.                       *)
MayStop(o) ==
  /\ op[o].free
  /\ Kind[o] = "evict" => op[o].expects = gen /\ op[o].target = live

Decide(o) ==
  /\ op[o].at = "answered"
  /\ IF MayStop(o)
     THEN /\ BeginStop
          /\ op' = [op EXCEPT ![o].at = "stopping", ![o].target = live]
          /\ UNCHANGED closed
     ELSE /\ Goes(o, IF Kind[o] = "drain" THEN "waiting" ELSE "over")
          /\ closed' = IF Kind[o] = "evict" THEN FALSE ELSE closed
          /\ UNCHANGED supVars
  /\ UNCHANGED <<workerVars, restarts, watch, instance>>

-----------------------------------------------------------------------------
(* A request needs a reservation, so none arrives during an eviction.      *)
RequestArrives ==
  /\ ~closed /\ Up(live) /\ watch[live] = "watching" /\ live \notin drained
  /\ live \notin busy
  /\ busy' = busy \cup {live}
  /\ UNCHANGED <<supVars, proc, drained, restarts, watch, instance, closed, op>>

RequestEnds(g) ==
  /\ g \in busy
  /\ busy' = busy \ {g}
  /\ UNCHANGED <<supVars, proc, drained, restarts, watch, instance, closed, op>>

StartStep(g) == Spawned(g) \/ SpawnFails(g) \/ BecomesReady(g) \/ ReadinessFails(g)
WatchStep(g) == WatchWakes(g) \/ Restarts(g) \/ Forgone(g)
OpStep(o) ==
  \/ CallStart(o) \/ CallStop(o) \/ StopReturns(o) \/ Choose(o) \/ BeginEvict(o)
  \/ BeginExit(o) \/ Drain(o) \/ AwaitIdle(o) \/ DrainTimesOut(o) \/ Probed(o)
  \/ Decide(o)

Next ==
  \/ \E g \in Gens : StartStep(g) \/ WatchStep(g) \/ Crashes(g) \/ Stopped(g)
                       \/ RequestEnds(g)
  \/ \E o \in Ops : OpStep(o)
  \/ RequestArrives

Spec == Init /\ [][Next]_vars

(* A watcher runs when its process is gone and its backoff ends; the wait  *)
(* for readiness has a time limit.                                         *)
FairSpec ==
  Spec /\ \A g \in Gens : WF_vars(WatchStep(g)) /\ WF_vars(StartStep(g))

-----------------------------------------------------------------------------
(* The step in which call o goes from its snapshot to stop().              *)
Stops(o) == op[o].at = "answered" /\ op'[o].at = "stopping"

(* The generations somebody asked for; watchers start the others.          *)
Asked == {g \in Gens : start[g] # "none" /\ starter[g] = None}

(* Every process of a service that was started once is the one in _live,   *)
(* or stop() is ending it: crashes, restarts after backoff, evictions,     *)
(* drains and exits between them never lose a process, which no stop or    *)
(* shutdown would reach again.  (Two calls of start() may lose one.)       *)
Tracked ==
  Cardinality(Asked) <= 1 =>
    \A g \in Gens : Up(g) => g = live \/ g \in stopping

(* An eviction ends a Worker while it is idle, although the snapshot it    *)
(* acts on is older, and, of a service that was started once, the          *)
(* generation the sweeper chose: not a replacement started since.          *)
EvictsTheIdle ==
  [][\A o \in Ops : Kind[o] = "evict" /\ Stops(o) =>
       /\ live \notin busy
       /\ Cardinality(Asked) <= 1 => live = op[o].expects]_vars

(* Drain and exit ends the Worker it drained once that has finished its    *)
(* requests, whatever restarts around it.                                  *)
DrainsFirst ==
  [][\A o \in Ops : Kind[o] = "drain" /\ Stops(o) /\ live = op[o].expects =>
       live \notin busy]_vars

(* A later process has become ready, or an operation has spawned one,      *)
(* whose failure is reported to its caller.                                *)
Succeeded(g) ==
  \E h \in Gens :
    h > g /\ (start[h] = "done" \/ (starter[h] = None /\ proc[h] # "none"))

(* The watcher's own start of a replacement failed.  _watch only writes    *)
(* that to the log: nothing runs then, the Service instance stays running, *)
(* and no one tries again.                                                 *)
RestartFailed(g) == \E h \in Gens : starter[h] = g /\ start[h] = "failed"

(* A process that ends on its own does not stay in _live unnoticed, and to *)
(* take it out of there is not enough: a later process becomes ready,      *)
(* somebody stops the service, or its instance is marked failed; the one   *)
(* other end is that the start of the replacement fails.                   *)
CrashAnswered ==
  \A g \in Gens :
    (live = g /\ g \in desired /\ watch[g] = "watching" /\ proc[g] = "gone")
      ~> \/ Succeeded(g) \/ RestartFailed(g)
         \/ g \notin desired \/ instance = "failed"

(* A crashing package is restarted at most max_attempts times for every    *)
(* start it was given.                                                     *)
RestartBudget ==
  Cardinality({g \in Gens : starter[g] # None}) <= MaxRestarts * Cardinality(Asked)
=============================================================================
