--------------------------- MODULE AgentRepository ---------------------------
(***************************************************************************)
(* The durable side of the agent runtime: the SQLite rows that             *)
(* ai2apps/agents/repository.py keeps for every AgentRun, its RunSteps and *)
(* its interactions, and the grant leases of ai2apps/capabilities.  Every  *)
(* method of the repository is one transaction (BEGIN IMMEDIATE, see       *)
(* storage/database.py), so every method is one action or one alternative  *)
(* of Commit below.                                                        *)
(*                                                                         *)
(* A RunStep row is addressed by (run, action key, attempt).  Freeing an   *)
(* action key (the ':retry:' and ':uncertain:' suffixes of the code) moves *)
(* the key to its next attempt; the archived row is settled for good, and  *)
(* a late write to it finds a status other than running and does nothing.  *)
(***************************************************************************)
EXTENDS Integers, FiniteSets

CONSTANTS
  Runs,          \* AgentRun ids
  EffectTools,   \* action keys of tool calls whose tool declares effects
  PureTools,     \* action keys of tool calls whose tool declares none
  ModelCalls,    \* action keys of model calls
  CapTools,      \* the tool calls that need a capability grant
  Covers,        \* Covers[q]: the calls whose tool and arguments a lease of q matches
  Siblings,      \* Siblings[r]: the runs in the session, agent or app of a lease of r
  Scopes,        \* the scopes users answer an approval with
  InputKeys,     \* request keys of the questions an executor asks
  NoKey,         \* no action or request key
  RestartRuns,   \* runs whose definition has resume_policy = 'restart'
  Group,         \* runs whose definition names the concurrency group
  GroupLimit,    \* agent_concurrency_groups.concurrency_limit
  Rank,          \* Rank[r]: place of r in ORDER BY priority DESC, created_at, id
  MaxSteps       \* definition.max_steps

Tools == EffectTools \cup PureTools
Keys == Tools \cup ModelCalls
Requests == CapTools \cup InputKeys     \* agent_interactions.request_key

ASSUME RunsAssumption == IsFiniteSet(Runs) /\ Group \subseteq Runs
ASSUME KeysAssumption ==
  /\ CapTools \subseteq Tools
  /\ EffectTools \cap (PureTools \cup ModelCalls) = {}
  /\ PureTools \cap ModelCalls = {}
  /\ InputKeys \cap Keys = {}
  /\ NoKey \notin Keys \cup InputKeys
ASSUME GrantAssumption ==
  /\ Covers \in [CapTools -> SUBSET CapTools]
  /\ Siblings \in [Runs -> SUBSET Runs]
  /\ Scopes \subseteq {"once", "run", "wide"}
ASSUME LimitAssumption == GroupLimit \in Nat \ {0} /\ MaxSteps \in Nat
ASSUME RankAssumption ==
  /\ Rank \in [Runs -> Nat]
  /\ \A r, s \in Runs : Rank[r] = Rank[s] => r = s

VARIABLES
  status,        \* agent_runs.status; "absent" before create_run
  error,         \* agent_runs.error_json, up to the codes the code compares
  expired,       \* deadline_at <= now
  current_step,  \* agent_runs.current_step
  step,          \* run_steps.status of the row that owns the action key
  attempt,       \* how often the action key has been freed
  authorized,    \* how often the user chose "retry" for the key (history)
  interaction,   \* agent_interactions.status
  lease,         \* grant_leases: scope of the lease an approval issued
  revoked        \* grant_leases.revoked_at is set: consumed, expired or revoked

runVars == <<status, error, expired, current_step>>
stepVars == <<step, attempt, authorized>>
askVars == <<interaction, lease, revoked>>
storeVars == <<runVars, stepVars, askVars>>

Waiting == {"waiting_input", "waiting_capability"}
Active == {"planning", "running"}
Terminal == {"completed", "failed", "cancelled"}
Statuses == {"absent", "queued", "interrupted"} \cup Active \cup Waiting \cup Terminal
Errors == {"none", "user_paused", "runtime_stopped", "uncertain", "other"}
StepStatuses ==
  {"none", "running", "completed", "failed", "cancelled", "uncertain"}
InteractionStatuses ==
  {"none", "pending", "submitted", "approved", "denied", "expired", "cancelled"}
Leases == {"none", "once", "run", "wide"}
LeaseIds == Runs \X CapTools            \* a lease by the request that issued it

StoreTypeOK ==
  /\ status \in [Runs -> Statuses]
  /\ error \in [Runs -> Errors]
  /\ expired \in [Runs -> BOOLEAN]
  /\ current_step \in [Runs -> Nat]
  /\ step \in [Runs -> [Keys -> StepStatuses]]
  /\ attempt \in [Runs -> [Keys -> Nat]]
  /\ authorized \in [Runs -> [Keys -> Nat]]
  /\ interaction \in [Runs -> [Requests -> InteractionStatuses]]
  /\ lease \in [Runs -> [CapTools -> Leases]]
  /\ revoked \in [Runs -> [CapTools -> BOOLEAN]]

StoreInit ==
  /\ status = [r \in Runs |-> "absent"]
  /\ error = [r \in Runs |-> "none"]
  /\ expired = [r \in Runs |-> FALSE]
  /\ current_step = [r \in Runs |-> 0]
  /\ step = [r \in Runs |-> [k \in Keys |-> "none"]]
  /\ attempt = [r \in Runs |-> [k \in Keys |-> 0]]
  /\ authorized = [r \in Runs |-> [k \in Keys |-> 0]]
  /\ interaction = [r \in Runs |-> [q \in Requests |-> "none"]]
  /\ lease = [r \in Runs |-> [q \in CapTools |-> "none"]]
  /\ revoked = [r \in Runs |-> [q \in CapTools |-> FALSE]]

(* The trigger agent_run_status_transition aborts any other change.  *)
Allowed(old, new) ==
  \/ old = new
  \/ old = "absent" /\ new = "queued"
  \/ old = "queued" /\ new \in {"planning", "interrupted", "cancelled"}
  \/ old = "planning"
     /\ new \in {"running", "queued", "interrupted", "failed", "cancelled"}
  \/ old = "running" /\ new \in {"queued", "interrupted"} \cup Waiting \cup Terminal
  \/ old \in Waiting /\ new \in {"queued", "failed", "cancelled"}
  \/ old = "waiting_input" /\ new = "interrupted"
  \/ old = "interrupted" /\ new \in {"queued", "failed", "cancelled"}

Pending(r) == {q \in Requests : interaction[r][q] = "pending"}
Uncertain(r) == {k \in Keys : step[r][k] = "uncertain"}

Issued(l) == lease[l[1]][l[2]] # "none"
SingleUse(l) == lease[l[1]][l[2]] = "once"
Live(l) == Issued(l) /\ ~revoked[l[1]][l[2]]

(* The scope of the lease takes in run r, and its tool pattern and         *)
(* resource selector the call k, for which it need not have been issued.   *)
Matches(l, r, k) ==
  /\ k \in Covers[l[2]]
  /\ l[1] = r \/ (lease[l[1]][l[2]] = "wide" /\ r \in Siblings[l[1]])

active_leases_for_run(r, k) == {l \in LeaseIds : Live(l) /\ Matches(l, r, k)}

-----------------------------------------------------------------------------
(* Transactions a task of the runtime submits.  A call is a record whose   *)
(* fields are the arguments of the method; Accepts says whether it commits *)
(* (FALSE: it raises and rolls back) and Commit what it writes.            *)

Ops == {"transition", "create_step", "settle_step", "abandon_step_for_retry",
        "create_interaction", "consume_single_use_leases"}

Calls == [op : Ops, run : Runs, key : Keys \cup InputKeys \cup {NoKey}, attempt : Nat,
          expected : SUBSET Statuses, to : Statuses \cup StepStatuses,
          error : Errors \cup {"keep"}, leases : SUBSET LeaseIds]

transition(c) ==
  /\ status' = [status EXCEPT ![c.run] = c.to]
  /\ error' = [error EXCEPT ![c.run] = IF c.error = "keep" THEN @ ELSE c.error]
  /\ UNCHANGED <<expired, current_step, stepVars, askVars>>

(* An existing row with the key is returned as it is, created = FALSE. *)
create_step(c) ==
  IF step[c.run][c.key] # "none"
  THEN UNCHANGED storeVars
  ELSE /\ step' = [step EXCEPT ![c.run][c.key] = "running"]
       /\ current_step' = [current_step EXCEPT ![c.run] = @ + 1]
       /\ UNCHANGED <<status, error, expired, attempt, authorized, askVars>>

(* Variant: the WHERE clause also takes an uncertain row.  *)
UnsettledRow(c) ==
  /\ step[c.run][c.key] \in {"running", "uncertain"}
  /\ attempt[c.run][c.key] = c.attempt

(* UPDATE ... WHERE id = ? AND status = 'running' found a row. *)
StillRunning(c) ==
  /\ step[c.run][c.key] = "running"
  /\ attempt[c.run][c.key] = c.attempt

settle_step(c) ==
  IF StillRunning(c)
  THEN /\ step' = [step EXCEPT ![c.run][c.key] = c.to]
       /\ UNCHANGED <<attempt, authorized, runVars, askVars>>
  ELSE UNCHANGED storeVars

abandon_step_for_retry(c) ==
  /\ step' = [step EXCEPT ![c.run][c.key] = "none"]
  /\ attempt' = [attempt EXCEPT ![c.run][c.key] = @ + 1]
  /\ UNCHANGED <<authorized, runVars, askVars>>

(* Variant: a status the schema does not list.  *)
WaitStatusUnlisted(q) ==
  IF q \in CapTools THEN "waiting_approval" ELSE "waiting_input"

WaitStatus(q) == IF q \in CapTools THEN "waiting_capability" ELSE "waiting_input"

(* An existing request key is returned as it is and the run keeps its status. *)
create_interaction(c) ==
  IF interaction[c.run][c.key] # "none"
  THEN UNCHANGED storeVars
  ELSE /\ interaction' = [interaction EXCEPT ![c.run][c.key] = "pending"]
       /\ status' = [status EXCEPT ![c.run] =
                       IF @ = "running" THEN WaitStatus(c.key) ELSE @]
       /\ UNCHANGED <<error, expired, current_step, stepVars, lease, revoked>>

(* Variant: only the lease issued for the very call is consumed.           *)
consume_own_leases(c) ==
  /\ revoked' = [s \in Runs |-> [q \in CapTools |->
       revoked[s][q] \/ (s = c.run /\ q = c.key /\ <<s, q>> \in c.leases /\ SingleUse(<<s, q>>))]]
  /\ UNCHANGED <<runVars, stepVars, interaction, lease>>

(* Every matched lease that is for one use and still active, whichever     *)
(* call it was issued for.                                                 *)
consume_single_use_leases(c) ==
  /\ revoked' = [s \in Runs |-> [q \in CapTools |->
       revoked[s][q] \/ (<<s, q>> \in c.leases /\ SingleUse(<<s, q>>))]]
  /\ UNCHANGED <<runVars, stepVars, interaction, lease>>

Accepts(c) ==
  CASE c.op = "transition" ->
         status[c.run] \in c.expected /\ Allowed(status[c.run], c.to)
    [] c.op = "abandon_step_for_retry" -> StillRunning(c)
    [] c.op = "create_interaction" ->
         interaction[c.run][c.key] # "none" \/ Pending(c.run) = {}
    [] OTHER -> TRUE

Commit(c) ==
  \/ c.op = "transition" /\ transition(c)
  \/ c.op = "create_step" /\ create_step(c)
  \/ c.op = "settle_step" /\ settle_step(c)
  \/ c.op = "abandon_step_for_retry" /\ abandon_step_for_retry(c)
  \/ c.op = "create_interaction" /\ create_interaction(c)
  \/ c.op = "consume_single_use_leases" /\ consume_single_use_leases(c)

(* One transaction: commit, or raise and leave the rows alone. *)
Transact(c) == IF Accepts(c) THEN Commit(c) ELSE UNCHANGED storeVars

-----------------------------------------------------------------------------
(* Transactions of the dispatcher.  *)

ActiveRuns(S) == {r \in S : status[r] \in Active}

(* Variant: a run in planning does not count against its group.  *)
CandidatesBesidePlanning ==
  {r \in Runs :
     /\ status[r] = "queued" /\ ~expired[r]
     /\ r \in Group =>
          Cardinality({s \in Group : status[s] = "running"}) < GroupLimit}

(* Variant: one run too many of a group at its limit.  *)
CandidatesAtLimit ==
  {r \in Runs : /\ status[r] = "queued"
                /\ ~expired[r]
                /\ r \in Group => Cardinality(ActiveRuns(Group)) <= GroupLimit}

(* Rows the claim query returns: queued, not past its deadline, and its    *)
(* concurrency group, if it names one, has a free slot.                    *)
Candidates ==
  {r \in Runs : /\ status[r] = "queued"
                /\ ~expired[r]
                /\ r \in Group => Cardinality(ActiveRuns(Group)) < GroupLimit}

(* Variant: the claim does not sweep overdue runs.  *)
NoOverdue == {}

Overdue == {r \in Runs : status[r] = "queued" /\ expired[r]}

First(S) == CHOOSE r \in S : \A s \in S : Rank[r] <= Rank[s]

(* Queued runs past their deadline are cancelled first; then the first     *)
(* candidate becomes planning.                                             *)
claim_next ==
  /\ status' = [r \in Runs |->
       IF r \in Overdue THEN "cancelled"
       ELSE IF Candidates # {} /\ r = First(Candidates) THEN "planning"
       ELSE status[r]]
  /\ error' = [r \in Runs |-> IF r \in Overdue THEN "other" ELSE error[r]]
  /\ UNCHANGED <<expired, current_step, stepVars, askVars>>

(* Variant: the run of an expired request is left as it is.  *)
expire_request_only(r, q) ==
  /\ interaction[r][q] = "pending"
  /\ interaction' = [interaction EXCEPT ![r][q] = "expired"]
  /\ UNCHANGED <<runVars, stepVars, lease, revoked>>

expire_interactions(r, q) ==
  /\ interaction[r][q] = "pending"
  /\ interaction' = [interaction EXCEPT ![r][q] = "expired"]
  /\ status' = [status EXCEPT ![r] = IF @ \in Waiting THEN "failed" ELSE @]
  /\ error' = [error EXCEPT ![r] = IF status[r] \in Waiting THEN "other" ELSE @]
  /\ UNCHANGED <<expired, current_step, stepVars, lease, revoked>>

(* By the clock, by a new version of the tool's service, or by the user.  *)
expire_leases(l) ==
  /\ Live(l)
  /\ revoked' = [revoked EXCEPT ![l[1]][l[2]] = TRUE]
  /\ UNCHANGED <<runVars, stepVars, interaction, lease>>

suspend_queued_for_shutdown ==
  /\ error' = [r \in Runs |->
                 IF status[r] = "queued" THEN "runtime_stopped" ELSE error[r]]
  /\ UNCHANGED <<status, expired, current_step, stepVars, askVars>>

(* What start-up recovery finds of a run the previous process was running. *)
RunningTool(r) == \E k \in Tools : step[r][k] = "running"
(* Variant: recovery overlooks runs that were claimed but not started.  *)
RecoveredRunning(r) ==
  IF status[r] # "running" THEN status[r]
  ELSE IF RunningTool(r) THEN "interrupted"
  ELSE IF r \in RestartRuns THEN "queued" ELSE "failed"
Recovered(r) ==
  IF status[r] \notin Active THEN status[r]
  ELSE IF RunningTool(r) THEN "interrupted"
  ELSE IF r \in RestartRuns THEN "queued" ELSE "failed"
(* Variant: recovery frees the key of any step that was running.  *)
AbandonsAny(r, k) == status[r] \in Active /\ step[r][k] = "running"
Abandons(r, k) ==
  /\ status[r] \in Active /\ ~RunningTool(r) /\ r \in RestartRuns
  /\ k \in ModelCalls /\ step[r][k] = "running"

(* Rows whose deadline recovery moves on by the time since their last      *)
(* write: the suspended queue and the active runs that do not fail.        *)
Extended ==
  {r \in Runs : \/ status[r] = "queued" /\ error[r] = "runtime_stopped"
                \/ status[r] \in Active /\ Recovered(r) # "failed"}

(* _resume_deadline: a deadline that passed after the last write of its    *)
(* row lies ahead again; one that had passed before stays behind.          *)
resume_deadline(S) ==
  \E ahead \in SUBSET {r \in S : expired[r]} :
    expired' = [r \in Runs |-> expired[r] /\ r \notin ahead]

recover_interrupted ==
  /\ resume_deadline(Extended)
  /\ status' = [r \in Runs |-> Recovered(r)]
  /\ error' = [r \in Runs |->
       CASE status[r] = "queued" /\ error[r] = "runtime_stopped" -> "none"
         [] status[r] \in Active ->
              CASE Recovered(r) = "interrupted" -> "uncertain"
                [] Recovered(r) = "queued" -> "none"
                [] OTHER -> "other"
         [] OTHER -> error[r]]
  /\ step' = [r \in Runs |-> [k \in Keys |->
       IF Abandons(r, k) THEN "none"
       ELSE IF /\ status[r] \in Active /\ RunningTool(r)
               /\ step[r][k] = "running"
            THEN "uncertain" ELSE step[r][k]]]
  /\ attempt' = [r \in Runs |-> [k \in Keys |->
       IF Abandons(r, k) THEN attempt[r][k] + 1 ELSE attempt[r][k]]]
  /\ UNCHANGED <<current_step, authorized, askVars>>

-----------------------------------------------------------------------------
(* Transactions of the control API.  *)

create_run(r) ==
  /\ status[r] = "absent"
  /\ status' = [status EXCEPT ![r] = "queued"]
  /\ UNCHANGED <<error, expired, current_step, stepVars, askVars>>

Pausable == {"queued", "waiting_input"} \cup Active

(* An interrupted run is returned as it is; any other status is a conflict. *)
request_pause(r) ==
  /\ status[r] \in Pausable \cup {"interrupted"}
  /\ IF status[r] = "interrupted"
     THEN UNCHANGED storeVars
     ELSE /\ status' = [status EXCEPT ![r] = "interrupted"]
          /\ error' = [error EXCEPT ![r] = "user_paused"]
          /\ UNCHANGED <<expired, current_step, stepVars, askVars>>

request_cancel(r) ==
  /\ status[r] # "absent"
  /\ IF status[r] \in Terminal
     THEN UNCHANGED storeVars
     ELSE /\ status' = [status EXCEPT ![r] = "cancelled"]
          /\ interaction' = [interaction EXCEPT ![r] =
               [q \in Requests |->
                  IF interaction[r][q] = "pending" THEN "cancelled"
                  ELSE interaction[r][q]]]
          /\ UNCHANGED <<error, expired, current_step, stepVars, lease, revoked>>

Resolutions == {"none", "retry", "assume_completed"}

resume_interrupted(r, resolution) ==
  /\ status[r] = "interrupted"
  /\ Uncertain(r) # {} => resolution # "none"
  /\ status' = [status EXCEPT ![r] = "queued"]
  /\ error' = [error EXCEPT ![r] = "none"]
  /\ LET retried == IF resolution = "retry" THEN Uncertain(r) ELSE {}
         Freed(f) == [f EXCEPT ![r] =
                        [k \in Keys |-> IF k \in retried THEN f[r][k] + 1 ELSE f[r][k]]]
     IN /\ step' = [step EXCEPT ![r] =
             [k \in Keys |->
                IF k \notin Uncertain(r) THEN step[r][k]
                ELSE IF resolution = "retry" THEN "none" ELSE "completed"]]
        /\ attempt' = Freed(attempt)
        /\ authorized' = Freed(authorized)
  /\ UNCHANGED <<expired, current_step, askVars>>

Answers(q) == IF q \in CapTools THEN Scopes \cup {"deny"} ELSE {"submit"}
Resolved(a) ==
  CASE a = "deny" -> "denied" [] a = "submit" -> "submitted" [] OTHER -> "approved"
AnsweredStatus(a) == IF a = "deny" THEN "failed" ELSE "queued"

(* Answering moves the run whatever its status was; the trigger aborts the *)
(* whole transaction when that move is not allowed.  The deadline of a run *)
(* that did not wait may have passed since its last write.                 *)
respond_interaction(r, q, a) ==
  /\ interaction[r][q] = "pending"
  /\ a \in Answers(q)
  /\ Allowed(status[r], AnsweredStatus(a))
  /\ interaction' = [interaction EXCEPT ![r][q] = Resolved(a)]
  /\ status' = [status EXCEPT ![r] = AnsweredStatus(a)]
  /\ error' = [error EXCEPT ![r] = IF a = "deny" THEN "other" ELSE @]
  /\ lease' = [lease EXCEPT ![r] =
       [k \in CapTools |-> IF k = q /\ a \in Scopes THEN a ELSE lease[r][k]]]
  /\ resume_deadline(IF a = "deny" \/ status[r] \in Waiting \cup {"interrupted"}
                     THEN {} ELSE {r})
  /\ UNCHANGED <<current_step, stepVars, revoked>>

=============================================================================
