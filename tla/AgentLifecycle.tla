--------------------------- MODULE AgentLifecycle ---------------------------
(***************************************************************************)
(* What the agent runtime promises about its runs, with no tasks, steps,   *)
(* interactions, threads or restarts in sight: a run is ready, active,     *)
(* blocked on a person, or ended; an ended run keeps its outcome; and the  *)
(* active runs of the concurrency group never outnumber its limit, since   *)
(* runs become active one at a time and only while a slot is free.         *)
(***************************************************************************)
EXTENDS Integers, FiniteSets

CONSTANTS Runs, Group, GroupLimit

VARIABLE phase

Outcomes == {"completed", "failed", "cancelled"}
Phases == {"new", "ready", "active", "blocked"} \cup Outcomes

Busy(S) == {r \in S : phase[r] = "active"}

Init == phase = [r \in Runs |-> "new"]

(* A ready run that never became active cannot complete or fail: it has    *)
(* done nothing.  It can only be cancelled.                                *)
Moves ==
  {<<"new", "ready">>, <<"ready", "active">>, <<"ready", "blocked">>,
   <<"ready", "cancelled">>, <<"active", "ready">>, <<"active", "blocked">>,
   <<"blocked", "ready">>, <<"blocked", "failed">>, <<"blocked", "cancelled">>}
  \cup {<<"active", o>> : o \in Outcomes}

Acquires(r) == phase[r] # "active" /\ phase'[r] = "active"

(* One step may release or end any number of runs (recovery, the deadline  *)
(* sweep) but lets at most one run in.                                     *)
Next ==
  /\ \A r \in Runs : phase'[r] = phase[r] \/ <<phase[r], phase'[r]>> \in Moves
  /\ \A r \in Runs : Acquires(r) =>
       /\ r \in Group => Cardinality(Busy(Group)) < GroupLimit
       /\ \A s \in Runs : Acquires(s) => s = r

Spec == Init /\ [][Next]_phase

=============================================================================
