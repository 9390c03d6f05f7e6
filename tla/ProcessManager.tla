--------------------------- MODULE ProcessManager ---------------------------
(***************************************************************************)
(* The Process Service (ai2apps/processes): child processes of one         *)
(* Session, their durable rows, and the coroutines that watch and end      *)
(* them.  The platform process may stop or be killed; the children, which  *)
(* run in sessions of their own, survive it.  This is the macOS sandbox:   *)
(* no PID namespace ties the group to its leader.                          *)
(*                                                                         *)
(* _terminate is a frame per killer: it looks the child up in _live,       *)
(* settles the row in a worker thread, and only then signals the group.    *)
(* SIGTERM may be ignored, so by itself it changes nothing here: a child   *)
(* may always end on its own.                                              *)
(***************************************************************************)
EXTENDS Naturals, FiniteSets

CONSTANTS
  Procs,          \* calls of start(), each with its execution id
  Runs, RunOf,    \* the Agent run that owns each process
  SessionLimit,   \* session_limit
  Forking,        \* processes that may leave a helper in their group
  Cancellable,    \* processes on which cancel() is called
  EndingRuns,     \* runs whose terminal callback fires
  MaxShutdowns, MaxCrashes  \* bounds: how often the platform stops

ASSUME ProcessAssumption ==
  /\ IsFiniteSet(Procs) /\ RunOf \in [Procs -> Runs]
  /\ SessionLimit \in Nat \ {0} /\ MaxShutdowns \in Nat /\ MaxCrashes \in Nat
  /\ Forking \subseteq Procs /\ Cancellable \subseteq Procs /\ EndingRuns \subseteq Runs

VARIABLES
  row,      \* process_executions.status
  pid,      \* processes whose row holds a pid
  leader,   \* the operating system's view of the child
  helper,   \* processes with another live member in their group
  live,     \* ProcessManager._live
  reading,  \* processes whose output is read: the two readers as one
  start,    \* the coroutine start()
  kill,     \* the frames of _terminate
  ending,   \* cancel_run of each run
  mode,     \* "up" | "stopping" | "down"
  shutdowns, crashes

vars == <<row, pid, leader, helper, live, reading, start, kill, ending, mode,
          shutdowns, crashes>>

(* Who calls _terminate: cancel(), cancel_run, shutdown, the watchdog and  *)
(* the output readers.                                                     *)
Killers == {"cancel", "run_end", "shutdown", "watchdog", "output"}
Watchers == {"watchdog", "output"}
ActiveStatus == {"starting", "running"}
Terminal == {"exited", "failed", "cancelled", "limit", "orphaned"}
SettledAs(k) == IF k \in Watchers THEN "limit" ELSE "cancelled"

(* A frame: where it is, and whether its lookup in _live found the child.  *)
Frame(at, found) == [at |-> at, found |-> found]
Idle == Frame("idle", FALSE)
NoFrames == [p \in Procs |-> [k \in Killers |-> Idle]]
stopVars == <<mode, shutdowns, crashes>>

Init ==
  /\ row = [p \in Procs |-> "none"]
  /\ leader = [p \in Procs |-> "none"]
  /\ pid = {} /\ helper = {} /\ live = {} /\ reading = {}
  /\ start = [p \in Procs |-> "idle"]
  /\ kill = NoFrames
  /\ ending = [r \in Runs |-> "no"]
  /\ mode = "up" /\ shutdowns = 0 /\ crashes = 0

(* Variant: an update without the check of the current status.             *)
SettleAnyway(p, status) == [row EXCEPT ![p] = status]

(* ProcessRepository.settle: a terminal row stays as it is.                *)
Settle(p, status) == [row EXCEPT ![p] = IF @ \in Terminal THEN @ ELSE status]

-----------------------------------------------------------------------------
(* start() up to create_subprocess_exec.                                   *)
StartBegins(p) ==
  /\ mode = "up" /\ start[p] = "idle"
  /\ Cardinality({q \in Procs : row[q] \in ActiveStatus}) < SessionLimit
  /\ row' = [row EXCEPT ![p] = "starting"]
  /\ start' = [start EXCEPT ![p] = "exec"]
  /\ UNCHANGED <<pid, leader, helper, live, reading, kill, ending, stopVars>>

(* The child exists before the coroutine that awaits it resumes.           *)
Spawned(p) ==
  /\ mode # "down" /\ start[p] = "exec"
  /\ leader' = [leader EXCEPT ![p] = "running"]
  /\ start' = [start EXCEPT ![p] = "spawned"]
  /\ UNCHANGED <<row, pid, helper, live, reading, kill, ending, stopVars>>

SpawnFails(p) ==
  /\ mode # "down" /\ start[p] = "exec"
  /\ row' = Settle(p, "failed")
  /\ start' = [start EXCEPT ![p] = "over"]
  /\ UNCHANGED <<pid, leader, helper, live, reading, kill, ending, stopVars>>

(* start() resumes: mark_running has no status guard; the tasks are        *)
(* created and _live is set.                                               *)
StartReturns(p) ==
  /\ mode # "down" /\ start[p] = "spawned"
  /\ row' = [row EXCEPT ![p] = "running"]
  /\ pid' = pid \cup {p}
  /\ live' = live \cup {p} /\ reading' = reading \cup {p}
  /\ start' = [start EXCEPT ![p] = "over"]
  /\ UNCHANGED <<leader, helper, kill, ending, stopVars>>

(* What the child does by itself, or on SIGTERM.                           *)
LeaderExits(p) ==
  /\ leader[p] = "running"
  /\ leader' = [leader EXCEPT ![p] = "gone"]
  /\ UNCHANGED <<row, pid, helper, live, reading, start, kill, ending, stopVars>>

Forks(p) ==
  /\ p \in Forking \ helper /\ leader[p] = "running"
  /\ helper' = helper \cup {p}
  /\ UNCHANGED <<row, pid, leader, live, reading, start, kill, ending, stopVars>>

HelperExits(p) ==
  /\ p \in helper
  /\ helper' = helper \ {p}
  /\ UNCHANGED <<row, pid, leader, live, reading, start, kill, ending, stopVars>>

(* _wait: after the child exits and its readers ended, at the end of the   *)
(* pipes (which a helper keeps open) or at the output limit, it settles    *)
(* the row, cancels the watchdog and forgets the child.                    *)
WaitReturns(p) ==
  /\ mode # "down" /\ p \in live /\ leader[p] = "gone"
  /\ p \notin helper \cap reading /\ kill[p]["output"].at = "idle"
  /\ \E status \in {"exited", "failed"} : row' = Settle(p, status)
  /\ live' = live \ {p} /\ reading' = reading \ {p}
  /\ kill' = [kill EXCEPT ![p]["watchdog"] = Idle]
  /\ UNCHANGED <<pid, leader, helper, start, ending, stopVars>>

-----------------------------------------------------------------------------
Enter(p, k, frame) == kill' = [kill EXCEPT ![p][k] = frame]

(* cancel() of the API.                                                    *)
CancelCalled(p) ==
  /\ mode # "down" /\ p \in Cancellable /\ row[p] \in ActiveStatus
  /\ kill[p]["cancel"].at = "idle"
  /\ Enter(p, "cancel", Frame("begin", FALSE))
  /\ UNCHANGED <<row, pid, leader, helper, live, reading, start, ending, stopVars>>

(* schedule_cancel_by_run, the callback of a run that became terminal.     *)
RunEnds(r) ==
  /\ mode # "down" /\ r \in EndingRuns /\ ending[r] = "no"
  /\ ending' = [ending EXCEPT ![r] = "query"]
  /\ UNCHANGED <<row, pid, leader, helper, live, reading, start, kill, stopVars>>

(* cancel_run: active_for_run, then one cancel() per row.                  *)
CancelRun(r) ==
  /\ mode # "down" /\ ending[r] = "query"
  /\ ending' = [ending EXCEPT ![r] = "done"]
  /\ kill' = [p \in Procs |-> [kill[p] EXCEPT !["run_end"] =
                IF RunOf[p] = r /\ row[p] \in ActiveStatus THEN Frame("begin", FALSE) ELSE @]]
  /\ UNCHANGED <<row, pid, leader, helper, live, reading, start, stopVars>>

(* _watchdog: memory, wall or idle limit while the row is not terminal.    *)
WatchdogFires(p) ==
  /\ mode # "down" /\ p \in live /\ row[p] \notin Terminal
  /\ kill[p]["watchdog"].at = "idle"
  /\ Enter(p, "watchdog", Frame("begin", FALSE))
  /\ UNCHANGED <<row, pid, leader, helper, live, reading, start, ending, stopVars>>

(* _read_output: at the limit the reader leaves its loop, whatever the row *)
(* says and whether or not the child is still there: what it wrote before  *)
(* its exit is read until the end of the pipe. The two readers are one.    *)
OutputLimit(p) ==
  /\ mode # "down" /\ p \in live /\ p \in reading
  /\ reading' = reading \ {p}
  /\ Enter(p, "output", Frame("begin", FALSE))
  /\ UNCHANGED <<row, pid, leader, helper, live, start, ending, stopVars>>

(* The lookup in _live, after cancel() looked at the row; the watchdog has *)
(* done so before and the readers do not.                                  *)
TerminateBegins(p, k) ==
  /\ mode # "down" /\ kill[p][k].at = "begin"
  /\ IF k \notin Watchers /\ row[p] \in Terminal
     THEN Enter(p, k, Idle)
     ELSE Enter(p, k, Frame("settle", p \in live))
  /\ UNCHANGED <<row, pid, leader, helper, live, reading, start, ending, stopVars>>

TerminateSettles(p, k) ==
  /\ mode # "down" /\ kill[p][k].at = "settle"
  /\ row' = Settle(p, SettledAs(k))
  /\ Enter(p, k, Frame("signal", kill[p][k].found))
  /\ UNCHANGED <<pid, leader, helper, live, reading, start, ending, stopVars>>

(* killpg(SIGTERM) and the wait for the leader, when there is one to kill. *)
TerminateSignals(p, k) ==
  /\ mode # "down" /\ kill[p][k].at = "signal"
  /\ Enter(p, k, IF kill[p][k].found /\ leader[p] = "running"
                 THEN Frame("grace", TRUE) ELSE Idle)
  /\ UNCHANGED <<row, pid, leader, helper, live, reading, start, ending, stopVars>>

(* The leader ended within the grace period: nothing more is sent.         *)
LeaderObeys(p, k) ==
  /\ mode # "down" /\ kill[p][k].at = "grace" /\ leader[p] = "gone"
  /\ Enter(p, k, Idle)
  /\ UNCHANGED <<row, pid, leader, helper, live, reading, start, ending, stopVars>>

(* Variant: no SIGKILL after the grace period.                             *)
GivesUp(p, k) ==
  /\ mode # "down" /\ kill[p][k].at = "grace" /\ leader[p] = "running"
  /\ Enter(p, k, Idle)
  /\ UNCHANGED <<row, pid, leader, helper, live, reading, start, ending, stopVars>>

(* _TERMINATION_GRACE_SECONDS passed: killpg(SIGKILL).                     *)
KillsGroup(p, k) ==
  /\ mode # "down" /\ kill[p][k].at = "grace" /\ leader[p] = "running"
  /\ leader' = [leader EXCEPT ![p] = "gone"]
  /\ helper' = helper \ {p}
  /\ Enter(p, k, Idle)
  /\ UNCHANGED <<row, pid, live, reading, start, ending, stopVars>>

-----------------------------------------------------------------------------
(* shutdown(): new starts are refused and the children in _live cancelled. *)
Shutdown ==
  /\ mode = "up" /\ shutdowns < MaxShutdowns
  /\ mode' = "stopping" /\ shutdowns' = shutdowns + 1
  /\ kill' = [p \in Procs |-> [kill[p] EXCEPT !["shutdown"] =
                IF p \in live THEN Frame("begin", FALSE) ELSE @]]
  /\ UNCHANGED <<row, pid, leader, helper, live, reading, start, ending, crashes>>

Forget ==
  /\ mode' = "down" /\ live' = {} /\ reading' = {}
  /\ kill' = NoFrames
  /\ start' = [p \in Procs |-> IF start[p] \in {"exec", "spawned"} THEN "over" ELSE start[p]]
  /\ ending' = [r \in Runs |-> IF ending[r] = "query" THEN "done" ELSE ending[r]]

(* The platform exits once shutdown() and the calls of start() returned.   *)
Exits ==
  /\ mode = "stopping"
  /\ \A p \in Procs : kill[p]["shutdown"].at = "idle" /\ start[p] \notin {"exec", "spawned"}
  /\ Forget
  /\ UNCHANGED <<row, pid, leader, helper, shutdowns, crashes>>

Crash ==
  /\ mode # "down" /\ crashes < MaxCrashes
  /\ crashes' = crashes + 1
  /\ Forget
  /\ UNCHANGED <<row, pid, leader, helper, shutdowns>>

(* _reap_previous_runtime: the group of an active row with a pid, if the   *)
(* process is still the one that was recorded.                             *)
Reaped == {p \in pid : row[p] \in ActiveStatus /\ leader[p] = "running"}

(* Variant: the rows of the previous runtime are left as they are.         *)
KeepRows == row

(* recover_orphans.                                                        *)
OrphanRows ==
  [p \in Procs |-> IF row[p] \in ActiveStatus THEN "orphaned" ELSE row[p]]

Startup ==
  /\ mode = "down"
  /\ mode' = "up"
  /\ leader' = [p \in Procs |-> IF p \in Reaped THEN "gone" ELSE leader[p]]
  /\ helper' = helper \ Reaped
  /\ row' = OrphanRows
  /\ UNCHANGED <<pid, live, reading, start, kill, ending, shutdowns, crashes>>

StartStep(p) == StartBegins(p) \/ Spawned(p) \/ SpawnFails(p) \/ StartReturns(p)
ChildStep(p) == LeaderExits(p) \/ Forks(p) \/ HelperExits(p)
TerminateStep(p, k) ==
  \/ TerminateBegins(p, k) \/ TerminateSettles(p, k) \/ TerminateSignals(p, k)
  \/ LeaderObeys(p, k) \/ KillsGroup(p, k)

Next ==
  \/ \E p \in Procs : StartStep(p) \/ ChildStep(p) \/ WaitReturns(p)
                        \/ CancelCalled(p) \/ WatchdogFires(p) \/ OutputLimit(p)
  \/ \E p \in Procs, k \in Killers : TerminateStep(p, k)
  \/ \E r \in Runs : RunEnds(r) \/ CancelRun(r)
  \/ Shutdown \/ Exits \/ Crash \/ Startup

Spec == Init /\ [][Next]_vars

(* Ready coroutines run, the limits of a process are reached in the end    *)
(* (the wall time always is), and a query of cancel_run returns.           *)
(* Children need not end by themselves.                                    *)
Fairness ==
  /\ \A p \in Procs :
       /\ WF_vars(StartReturns(p)) /\ WF_vars(WatchdogFires(p))
       /\ \A k \in Killers : WF_vars(TerminateStep(p, k))
  /\ \A r \in Runs : WF_vars(CancelRun(r))

FairSpec == Spec /\ Fairness

-----------------------------------------------------------------------------
(* A row never claims a running process that nobody manages: it is in      *)
(* _live, so that the watchdog, cancel() and shutdown() reach it, or the   *)
(* platform is down and start-up will mark it.                             *)
RunningIsManaged ==
  mode # "down" => \A p \in Procs : row[p] = "running" => p \in live

(* What becomes of a process is decided once: from the return of start()   *)
(* on the row keeps the first terminal status, although cancel, the        *)
(* watchdog, the readers, _wait and start-up all settle it.                *)
FirstVerdictStands ==
  [][\A p \in Procs : row[p] \in Terminal /\ start[p] = "over" => row'[p] = row[p]]_vars

(* A child in _live that ignores SIGTERM and never ends by itself is still *)
(* gone in the end, unless a cancel takes it over or the platform stops:   *)
(* the watchdog reaches its wall time and its group is killed.             *)
EveryChildEnds ==
  \A p \in Procs :
    p \in live /\ row[p] # "cancelled"
      ~> leader[p] # "running" \/ row[p] = "cancelled" \/ p \notin live
=============================================================================
