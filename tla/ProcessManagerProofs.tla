------------------------ MODULE ProcessManagerProofs ------------------------
(***************************************************************************)
(* Proofs about ProcessManager for any set of processes and runs, any      *)
(* limits and any number of stops and losses of the platform.              *)
(***************************************************************************)
EXTENDS ProcessManager, TLAPS

Rows == {"none"} \cup ActiveStatus \cup Terminal

(* RunningIsManaged, with the type of the rows that a settlement relies on. *)
ManagedInv ==
  /\ row \in [Procs -> Rows]
  /\ RunningIsManaged

(* settle() writes one row: a final status stays, another one becomes the   *)
(* status given.  (ProcessRepository.settle.)                               *)
LEMMA SettleFacts ==
  ASSUME row \in [Procs -> Rows], NEW p \in Procs, NEW s \in Terminal
  PROVE  /\ Settle(p, s) \in [Procs -> Rows]
         /\ Settle(p, s)[p] \in Terminal
         /\ \A q \in Procs : q # p => Settle(p, s)[q] = row[q]
         /\ \A q \in Procs : row[q] \in Terminal => Settle(p, s)[q] = row[q]
  BY DEF Settle, Rows

(* Every killer settles a row with a final status.  (_terminate.)           *)
LEMMA VerdictFinal ==
  ASSUME NEW k \in Killers
  PROVE  SettledAs(k) \in Terminal
  BY DEF SettledAs, Terminal

(* What a step may write to the rows: nothing, the first insert, the return *)
(* of start(), which also enters the child in _live, or a settlement.       *)
RowsKept == row' = row
Begins(p) == start[p] = "idle" /\ row' = [row EXCEPT ![p] = "starting"]
Returns(p) ==
  /\ start[p] = "spawned" /\ row' = [row EXCEPT ![p] = "running"]
  /\ live' = live \cup {p}
SettlesOnly(p, s) == row' = Settle(p, s) /\ live' \in {live, live \ {p}}

(* The steps by what becomes of the rows, of _live and of the platform.     *)
RowStep ==
  \/ mode' = "down" /\ RowsKept
  \/ mode' = mode /\ live' = live /\ RowsKept
  \/ mode # "down" /\ live' = live /\ RowsKept
  \/ mode # "down" /\ \E p \in Procs : Begins(p) /\ live' = live
  \/ mode # "down" /\ \E p \in Procs : Returns(p)
  \/ mode # "down" /\ \E p \in Procs, s \in Terminal : SettlesOnly(p, s)
  \/ mode = "down" /\ row' = OrphanRows

(* Every step of the platform, its children and its users is one of these.  *)
LEMMA NextIsRowStep ==
  ASSUME [Next]_vars
  PROVE  RowStep
<1>1. CASE UNCHANGED vars
  BY <1>1 DEF vars, RowStep, RowsKept, stopVars
<1>2. ASSUME NEW p \in Procs, StartStep(p)
      PROVE  RowStep
  <2>1. CASE StartBegins(p)
    BY <2>1 DEF StartBegins, RowStep, Begins
  <2>2. CASE Spawned(p)
    BY <2>2 DEF Spawned, RowStep, RowsKept, stopVars
  <2>3. CASE SpawnFails(p)
    BY <2>3 DEF SpawnFails, RowStep, SettlesOnly, Terminal
  <2>4. CASE StartReturns(p)
    BY <2>4 DEF StartReturns, RowStep, Returns
  <2>5. QED
    BY <1>2, <2>1, <2>2, <2>3, <2>4 DEF StartStep
<1>3. ASSUME NEW p \in Procs, ChildStep(p)
      PROVE  RowStep
  BY <1>3 DEF ChildStep, LeaderExits, Forks, HelperExits, RowStep, RowsKept, stopVars
<1>4. ASSUME NEW p \in Procs, WaitReturns(p)
      PROVE  RowStep
  BY <1>4 DEF WaitReturns, RowStep, SettlesOnly, Terminal
<1>5. ASSUME NEW p \in Procs, CancelCalled(p) \/ WatchdogFires(p) \/ OutputLimit(p)
      PROVE  RowStep
  BY <1>5 DEF CancelCalled, WatchdogFires, OutputLimit, RowStep, RowsKept
<1>6. ASSUME NEW p \in Procs, NEW k \in Killers, TerminateStep(p, k)
      PROVE  RowStep
  <2>1. CASE TerminateSettles(p, k)
    BY <2>1, VerdictFinal DEF TerminateSettles, RowStep, SettlesOnly
  <2>2. CASE TerminateBegins(p, k) \/ TerminateSignals(p, k) \/ LeaderObeys(p, k)
               \/ KillsGroup(p, k)
    BY <2>2 DEF TerminateBegins, TerminateSignals, LeaderObeys, KillsGroup, RowStep, RowsKept
  <2>3. QED
    BY <1>6, <2>1, <2>2 DEF TerminateStep
<1>7. ASSUME NEW r \in Runs, RunEnds(r) \/ CancelRun(r)
      PROVE  RowStep
  BY <1>7 DEF RunEnds, CancelRun, RowStep, RowsKept
<1>8. CASE Shutdown
  BY <1>8 DEF Shutdown, RowStep, RowsKept
<1>9. CASE Exits \/ Crash
  BY <1>9 DEF Exits, Crash, Forget, RowStep, RowsKept
<1>10. CASE Startup
  BY <1>10 DEF Startup, RowStep
<1>11. QED
  BY <1>1, <1>2, <1>3, <1>4, <1>5, <1>6, <1>7, <1>8, <1>9, <1>10 DEF Next

(* Together they are inductive: a settlement that removes a child from _live *)
(* leaves its row final, and start-up leaves no running row.                 *)
LEMMA ManagedInvariant == Spec => []ManagedInv
<1>1. Init => ManagedInv
  BY DEF Init, ManagedInv, RunningIsManaged, Rows
<1>2. ASSUME ManagedInv, [Next]_vars
      PROVE  ManagedInv'
  <2>1. row \in [Procs -> Rows]
    BY <1>2 DEF ManagedInv
  <2>2. RowStep
    BY <1>2, NextIsRowStep
  <2>3. CASE mode' = "down" /\ RowsKept
    BY <2>1, <2>3 DEF RowsKept, ManagedInv, RunningIsManaged
  <2>4. CASE (mode' = mode \/ mode # "down") /\ live' = live /\ RowsKept
    BY <1>2, <2>1, <2>4 DEF RowsKept, ManagedInv, RunningIsManaged
  <2>5. ASSUME NEW p \in Procs, mode # "down", Begins(p), live' = live
        PROVE  ManagedInv'
    BY <1>2, <2>1, <2>5 DEF Begins, ManagedInv, RunningIsManaged, Rows, ActiveStatus
  <2>6. ASSUME NEW p \in Procs, mode # "down", Returns(p)
        PROVE  ManagedInv'
    BY <1>2, <2>1, <2>6 DEF Returns, ManagedInv, RunningIsManaged, Rows, ActiveStatus
  <2>7. ASSUME NEW p \in Procs, NEW s \in Terminal, mode # "down", SettlesOnly(p, s)
        PROVE  ManagedInv'
    <3>1. row' \in [Procs -> Rows]
      BY <2>1, <2>7, SettleFacts DEF SettlesOnly
    <3>2. ASSUME NEW q \in Procs, row'[q] = "running"
          PROVE  q \in live'
      <4>1. q # p
        BY <2>1, <2>7, <3>2, SettleFacts DEF SettlesOnly, Terminal
      <4>2. row[q] = "running"
        BY <2>1, <2>7, <3>2, <4>1, SettleFacts DEF SettlesOnly
      <4>3. q \in live
        BY <1>2, <2>7, <4>2 DEF ManagedInv, RunningIsManaged
      <4>4. QED
        BY <2>7, <4>1, <4>3 DEF SettlesOnly
    <3>3. QED
      BY <3>1, <3>2 DEF ManagedInv, RunningIsManaged
  <2>8. CASE mode = "down" /\ row' = OrphanRows
    BY <2>1, <2>8 DEF OrphanRows, ManagedInv, RunningIsManaged, Rows, ActiveStatus, Terminal
  <2>9. QED
    BY <2>2, <2>3, <2>4, <2>5, <2>6, <2>7, <2>8 DEF RowStep
<1>3. QED
  BY <1>1, <1>2, PTL DEF Spec

(* A row that says "running" is managed by somebody, through every race of  *)
(* start(), cancel(), the watchers, shutdown, losses and start-up.          *)
THEOREM RunningManaged == Spec => []RunningIsManaged
<1>1. ManagedInv => RunningIsManaged
  BY DEF ManagedInv
<1>2. QED
  BY <1>1, ManagedInvariant, PTL

(* The first final status of a row stands once start() has returned,        *)
(* whoever settles it again: only start() itself overwrites a verdict.      *)
THEOREM VerdictStands == Spec => FirstVerdictStands
<1> DEFINE Kept == \A p \in Procs :
             row[p] \in Terminal /\ start[p] = "over" => row'[p] = row[p]
<1>1. ASSUME ManagedInv, [Next]_vars
      PROVE  [Kept]_vars
  <2>1. RowStep /\ row \in [Procs -> Rows]
    BY <1>1, NextIsRowStep DEF ManagedInv
  <2>2. ASSUME NEW p \in Procs, row[p] \in Terminal, start[p] = "over"
        PROVE  row'[p] = row[p]
    <3>1. CASE RowsKept
      BY <3>1 DEF RowsKept
    <3>2. ASSUME NEW q \in Procs, Begins(q) \/ Returns(q)
          PROVE  row'[p] = row[p]
      BY <2>1, <2>2, <3>2 DEF Begins, Returns
    <3>3. ASSUME NEW q \in Procs, NEW s \in Terminal, SettlesOnly(q, s)
          PROVE  row'[p] = row[p]
      BY <2>1, <2>2, <3>3, SettleFacts DEF SettlesOnly
    <3>4. CASE row' = OrphanRows
      BY <2>2, <3>4 DEF OrphanRows, ActiveStatus, Terminal
    <3>5. QED
      BY <2>1, <3>1, <3>2, <3>3, <3>4 DEF RowStep
  <2>3. QED
    BY <2>2
<1>2. QED
  BY <1>1, ManagedInvariant, PTL DEF Spec, FirstVerdictStands
=============================================================================
