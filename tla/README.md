# AI2Apps agent platform: TLA+ models and proofs

This directory is a verification development for the AI2Apps platform
(`ai2apps/`): TLA+ modules translated from its Python sources, TLC
configurations that check them on small instances, and TLAPS proofs that hold
for every value of the constants. Paths below are relative to the repository
root; `PROJECT.json` gives, for every definition, the lines it models.

## 1. The system

AI2Apps runs AI agents on a local server. An **AgentRun** is a durable row in
SQLite; the **agent runtime** claims queued runs and drives each with an asyncio
task that alternates between asking an executor for the next action and
performing it (tool call, model call, question to the user, completion). Tools
may have effects in the world, so the runtime records a **RunStep** under a
unique action key before it invokes anything, and never repeats an effect
without the user. Users pause, resume, cancel, answer and approve through an
HTTP API; **capability policies** decide which tools need an approval, and
**grant leases** carry it. The server can be stopped or lost at any moment and
recovers from the rows.

| Component | State | Operations | Interacts with | Hard behaviours | What makes it correct |
|---|---|---|---|---|---|
| Agent run store (`agents/repository.py`, migrations) | runs, steps, interactions, status trigger, unique indexes | create, claim, transition, create/settle/abandon step, ask, respond, pause, cancel, resume, recover, expire | every part below; one transaction per method | late writes, statuses read in one transaction and used in another | status graph, one owner of an action key, one pending request, slot limit |
| Agent runtime (`agents/runtime.py`) | `_tasks`, coroutine locals, dispatcher, worker threads | dispatch, `_run_claimed`, cancel handler, `_fail`, pause/cancel/resume, start/stop | store through `asyncio.to_thread`; executors; tool gateway | cancellation of an await whose thread goes on; two tasks of one run; stop, loss and restart at any point | effects at most once, one driver per run, progress |
| Capabilities (`capabilities/`) | policies, grant leases, requests | evaluate, issue, consume, expire, revoke | runtime, respond_interaction | decision read before the lease is consumed | no tool without authority; a once lease is spent once |
| Control API (`api/agents.py`) | none | create, pause, cancel, resume, respond | runtime, store | requests race with tasks and with each other | every accepted request takes effect exactly once |
| Delegation (`agents/delegation.py`, `wait_for_terminal`) | parent and child rows, terminal events | delegate, wait, notify, cancel a tree, deadlines | runtime, store | parent waits inside a tool call and keeps its slot; registration races the wake-up | no lost wake-up, every wait ends |
| Subagent coordinator (`app_development/subagents/`) | host bindings, deferred waits, token reservations | start, register a wait, reserve, settle, maintain | store, runtime | every operation is several transactions; losses between them | one result per wait, budget held, usage charged, children end with the root |
| Worker scheduler (`worker_scheduler.py`) | tickets, queue, active slots, futures | acquire, dispatch, release, cancel, expire, gate, shutdown | model providers, worker resources | queue timeout and cancellation race a grant | limits; no slot without somebody who returns it |
| Worker resources (`worker_resources.py`) | memory reservations, evictions, pins | reserve, release, evict, pin | scheduler, service supervisor | admission against a running eviction | no job on an evicted worker |
| Process service (`processes/`) | process rows, `_live`, watchers | start, cancel, watchdog, output limit, shutdown, recovery | tools, runs that end | five killers and `start()` on one row; losses of the platform | rows tell the truth, children end |
| Service supervisor (`packages/supervisor.py`, `api/workers.py`) | `_live`, generations, watchers, instance row | start, stop, watch and restart, evict, drain, exit | worker API, sweeper | no lock: every await is a race with restarts | no lost process, only idle workers evicted, restart budget |
| Prefix cache (`omlx/cache`, `omlx/scheduler.py`) | blocks, references, hash index, SSD contents | find, claim, reconstruct, store, release | inference thread and store thread | calls are locked, sequences of calls are not | every reference is accounted for, a request sees its own prefix |
| Event log (`events/`) | durable sequence, subscribers | append, stream | API | append against wake-up | no event missed or repeated |
| Tool gateway, packages' installation, model workers, sharing, browser, media, tensor code, front ends | see `PROJECT.json` | | | mostly I/O, or third-party protocols | not modelled |

Every hazard found in the sources, with its line and the properties that would
catch it, is under `hazards` in `PROJECT.json`.

## 2. Modules

| Module | Models |
|---|---|
| `AgentRepository` | The rows of agent runs and the transactions on them. One method is one action or one alternative of `Commit`. |
| `AgentRuntime` | The process over those rows: dispatcher, tasks, cancellation, control API, stop, loss, restart. |
| `AgentRuntimeProperties` | Its safety, action and liveness properties, fairness and the refinement mapping. |
| `AgentLifecycle` | Abstract specification: runs are new, ready, active, blocked or ended, and a group has slots. |
| `AgentDelegation` | Parents that wait for children: `delegate`, `wait_for_terminal`, terminal events, cancellation of a tree. |
| `CodingSubagents` | The coordinator of coding subagents: bindings, deferred waits, the shared token budget, `maintain()`. |
| `WorkerResources`, `WorkerScheduler` | Memory admission and eviction of Model Workers, and the queue in front of them, composed by `EXTENDS`: a grant reserves, an eviction closes admission. |
| `ProcessManager` | Child processes, their rows, their watchers and killers, over stops and losses of the platform. |
| `ServiceSupervisor` | One managed service with the operations that drive it. |
| `PagedCache`, `PrefixCache` | The block pool as functions from pool to pool, and the two threads that call it. |
| `AgentRuntimeProofs`, `AgentEffectProofs`, `AgentDelegationProofs`, `WorkerSchedulerProofs`, `ServiceSupervisorProofs`, `ProcessManagerProofs`, `CodingSubagentsProofs`, `PrefixCacheProofs` | The theorems, with proofs checked by TLAPS. |
| `MC...` | Symmetry, arguments and trees for TLC. |

### How state and actions correspond to the code

**Agent runtime**

* `status`, `error`, `current_step`, `expired`: the columns of `agent_runs`.
  Error documents are kept up to the codes the code compares (`user_paused`,
  `runtime_stopped`, uncertain, other); a deadline is kept as "has passed".
* `step[r][k]`, `attempt[r][k]`: the `run_steps` row that owns action key `k`.
  Freeing a key (the `:retry:` and `:uncertain:` renames) moves the key to its
  next attempt. A write addressed to an older attempt finds no row in status
  `running`, as in the code, where it is addressed by row id.
* `interaction`: `agent_interactions` by request key. `lease`, `revoked`: the
  `grant_leases` row that approving a request issues, named by that request, with
  its scope (`once` and `run`: this run; `wide`: session, agent or app, hence the
  runs in `Siblings`). `Covers` stands for tool pattern, digest and resource
  selector: which calls a lease matches, besides the one it was asked for.
  `active_leases_for_run` may find leases of other calls and other runs, and
  `consume_single_use_leases` spends every one the decision matched. A call needs
  one capability, as a set of them is leased or unresolved like one; revocation by
  a user, by expiry and by a new version of the tool's service is `expire_leases`.
* `task[t]`: the locals of one `_run_claimed` coroutine and the await it is at.
  A counter in `CallPCs` means "awaiting `asyncio.to_thread` of `CallOf`"; the
  step that leaves it commits the transaction and resumes the coroutine. That the
  two happen in one step loses nothing for tasks that are not cancelled (between
  commit and resumption the task does nothing), and for a cancelled task the
  three possible outcomes are separate: the transaction never starts, commits
  later (`detached`), or has committed and its result is lost. `before` keeps
  the value of the handler's locals for the last case.
* `entry` is `_tasks`; `claimed` is the window between `claim_next` and
  `create_task`; `kicks` counts the `task.cancel()` calls that pause and cancel
  make after their transaction; `mode` is the state of start/stop. `StopCancel`
  cancels and waits for the tasks in `_tasks`; a task that lost its entry to another
  one is cancelled only when the event loop closes (`CloseLoop`).
* `dispatched` and `authorized` are history variables: how often a call was
  really invoked, and how often the user chose to retry it.

Executors, tools and model providers are nondeterministic: any action, any
result, any exception. A policy answers any of `PolicyEffects`. Undetermined
thread timing is nondeterministic choice, never a separate optional action of
the handler it belongs to.

**Delegation.** `status`, `deadline`, `since` are columns of the child and parent
rows; `event` is `_terminal_events`; `pc` is the await a parent's task is at. The
three reads of `wait_for_terminal` go through threads, so a read (`ReadStatus`) and
the use of what it saw (`Register`, `Confirm`, `Result`) are separate steps. The
cancel endpoint is a plain function on a thread of its own: listing, each commit and
each notification are steps. What a task does between delegations is one step
(`Finish`), since `AgentRuntime` has it in detail. Time is a small clock, because
deadlines of parent and child are compared.

**Subagents.** Each action is one transaction, and a process loss may fall between
any two. `wait` is the row of `agent_deferred_waits`, `call` the step it answers,
`book` is `coding_model_reservations`, `bound` is `coding_subagents`. `maintain()` is
`SettleWait`, `DeleteWait`, `Reconcile` and `EndsChildren`. A task addresses its model
call by id: `Own` is the last call its run has started. A call that a pause followed by a
process loss left running stays behind it, since a resumed run counts all its calls and
starts the next; recovery or the user settles it later (`Restart`, `Resume`).

**Worker scheduler.** The methods do not await while they hold the lock, so each is
one step that ends in `_dispatch_locked`; its loop is `Grant` and `DispatchDone`,
during which `dispatching` holds everything else back. What interleaves is the
wake-up of `acquire()`: a future is resolved in one step, the task resumes in a later
one, and a timer or `task.cancel()` may come between. `_priority` is `Before`.

**Processes.** `_terminate` is a frame per process and killer (`begin`, `settle`,
`signal`, `grace`); the row is settled before the group is signalled, as in the code.
`leader` and `helper` are what the operating system knows. SIGTERM changes nothing by
itself, since a child may ignore it and may end at any time.

**Services.** An action is the code between two awaits. A generation names the
process that `start()` spawns; `op` holds the locals of the calls (what an eviction
expects, which process a snapshot was taken of, whether it was idle). A restart by
the API is a stop and a start.

**Prefix cache.** Each operator of `PagedCache` is one locked method. `fetch_cache` is
`FindSharedPrefix`, a `ClaimBlock` per block or, when nothing was found, an
`AcquireBlock` per block of a prefix-index entry, and `Reconstruct`, which keeps any
number of the loadable blocks (the walk back depends on the kinds of layers);
`store_cache` goes block by block through find, share or allocate, register and save,
and may raise (`StoreFails`). `executor` says whether the store thread exists: both
cases start a behaviour. A chain hash is a model value that stands for a block and
everything before it. An entry of the prefix index is only a hint, re-validated block by
block, so its content is left open.

## 3. Runs

Every bound is a named constant. They are the smallest at which the difficult cases
happen, and `CHECK_DEADLOCK FALSE` is used throughout because every instance comes to
rest when its calls are over or its bounds are used up.

| Run | Instance | Checks |
|---|---|---|
| `AgentControls` | 1 run, an effectful and a pure call of one tool, a lease for one use given for the first that covers both, 2 tasks, 2 controls, 1 detached call | `TypeOK`, `EffectOnce`, `Authority`, `UncertainHeld` |
| `AgentRecovery` | 1 run with a deadline, an effectful tool, a model call, a question, 1 stop or loss, 1 control; fair | `EffectOnce`, `DrivenOnce`, `DeadlineEnds` |
| `AgentSlots` | 2 runs in one group of limit 1, a question, a deadline, 1 control, 1 stop | `ImplementsLifecycle`, `SlotBound`, `WaitingHasPending` |
| `DelegationEnds` | a chain of 3 runs on 2 slots, the last may ask the user, the middle may be cancelled; fair | `NoLostWake`, `DelegationReturns` |
| `SubagentEnds` | root and 2 children on 1 slot, 1 wait, 1 pause, 1 loss, cancel; fair | `WaitPaired`, `WaitEnds`, `ChildrenEnd` |
| `SubagentCharges` | root and child, 1 model call each, a budget that does not suffice for all, answers of up to 4 tokens for reservations of at most 3, 1 loss; fair | `BudgetHeld`, `ChargesSettle` |
| `WorkerRaces` | 3 calls with timeouts on 2 workers, shared request ids, scarce memory, evictions, pins | `Owned`, `SlotLimits`, `Accounting`, `EvictedIsIdle` |
| `WorkerWaits` | 3 calls without timeouts, a background gate, evictions, shutdown; fair | `WaitEnds` |
| `ProcessEnds` | 1 child that may fork and ignore SIGTERM, all 5 killers, 1 shutdown, 1 crash; fair | `RunningIsManaged`, `FirstVerdictStands`, `EveryChildEnds` |
| `ServiceOps` | a start, stop, eviction, drain and exit, 3 generations, 1 restart; fair | `Tracked`, `EvictsTheIdle`, `DrainsFirst`, `RestartBudget`, `CrashAnswered` |
| `CachePool` | 4 requests, 3 hashes, 2 blocks, 1 request that is rejected, 2 whose store may raise, with and without the store thread | `RefsAccounted`, `SerialPrefixOnly`, `PoolConsistent` |
| `CacheForeign` | 3 requests, 1 block, store thread | `OwnPrefixOnly`, expected to be violated |

Why these bounds: two controls give pause followed by resume, hence two tasks of one
run; two calls under one lease let each run on the approval of the other; one detached
call gives a transaction that outlives its task (detached calls together with a stop, and
leases wider than a run, are covered by the theorems only); three runs on two
slots let every slot be held by a waiting parent; one global slot is the worst case
for a root that waits for its children; three calls are needed for a grant, a late
ticket and a bystander; two blocks for two-block chains force eviction and reuse.

What the properties say:

* `EffectOnce`: an effectful call is invoked at most once, plus once per retry the user
  chose. `Authority`: where policy does not allow outright, a call is invoked only under a
  lease that covers it by scope, tool and selector, that came from an approved request,
  and that is spent if it was for one use. The approval need not be the call's own: leases
  are matched by tool pattern and selector, so one approval can serve another call.
  `UncertainHeld`: an uncertain effect stays on record until the user resumes.
  `DrivenOnce`: without user controls, the active runs that have asked nothing and their
  drivers correspond one to one. `SlotBound`, `ImplementsLifecycle`: the group limit,
  final outcomes and the abstract lifecycle. `WaitingHasPending`: a waiting run has
  exactly one pending request of its kind. `DeadlineEnds`: a run with a deadline that
  nobody pauses, resumes or cancels ends or comes to rest with a person, but for the two
  cases below.
* `NoLostWake`: a parent that waits for an ended child has been woken or somebody is
  about to; the second read of `wait_for_terminal` is what makes it true.
  `DelegationReturns`: every wait ends, also when all slots are held by waiting parents.
* `WaitPaired`: each wait call gets one result before the root goes on. `WaitEnds`,
  `ChildrenEnd`: waits are answered and no child outlives its root. `BudgetHeld`,
  `ChargesSettle`: reservations, and what calls use of them, stay within the tokens of the
  tree, whatever providers report beyond them; a completed call is charged even when its
  task is cancelled or lost before it can settle.
* `Owned`, `Accounting`: a grant that races a timeout or a cancel leaves no slot
  without holder, and each ticket is counted once. `SlotLimits`, `EvictedIsIdle`,
  `WaitEnds`: limits, evictions, and no waiter but background work is forgotten.
* `RunningIsManaged`, `FirstVerdictStands`, `EveryChildEnds`: a running row has its
  child in `_live`, the first final status stands, and the watchdog gets every child.
* `Tracked`, `EvictsTheIdle`, `DrainsFirst`: of a service started once no process is
  lost, and evictions and drains end idle workers only. `RestartBudget`,
  `CrashAnswered`: restarts are bounded, and a process that ends by itself is followed by one
  that becomes ready, by a stop or by a failed instance; taking it out of `_live` does not
  count. The one other end is a replacement whose start fails, see below.
* `PoolConsistent`: a block is free, once, or allocated, with both threads; when the
  inference thread stores by itself, the index leads to allocated blocks of the hash it
  was asked for, and a request reads its own prefix (`SerialPrefixOnly`). `RefsAccounted`:
  the references of a block are those of live requests and those that rejected requests
  and stores that raised have left behind, which are the only ways to lose one.

### Fairness

Fairness is what the scheduling provides and no more: the event loop runs every ready
task, dispatchers and sweepers poll, a transaction whose thread started commits, executors
and tools return since each has a timeout, a lost server is started again, and time
passes. Nothing is assumed of users, policies, stops, children that ignore signals, or the
model providers of agent runs: `_run_model_call` (`agents/runtime.py:211-238`) awaits them
without a limit. `CodingSubagents` assumes nothing of them either. Weak fairness suffices
except in `WorkerScheduler`, where it is strong for the callbacks of a call and of an
eviction: the model disables a ready callback during the steps of a dispatch, which in the
code is one uninterrupted piece of another callback. `ServiceOps` needs only that a
watcher runs when its process is gone, and that a start comes to an end: spawning does,
and `_wait_ready` has a time limit.

### A statement that does not hold

`CacheForeign` is expected to be violated. `omlx/scheduler.py:2342` says that concurrent
access to the cache from the main and the store thread is safe because both use a
re-entrant lock. `fetch_cache` finds blocks in one locked call and claims them in later
ones, ignoring the result of `increment_ref`. If the store thread rolls back a block
whose save failed in between and allocates it for another chain, the request loads
key-value data of other tokens. It takes a find, a failed save, another store and a
claim, in this order.

### Observed without a run of their own

While modelling, these behaviours showed in the models. The properties above are stated
so that they do not claim the contrary:

* Deadlines: two ways leave a run with a deadline active for ever, and `DeadlineEnds` names
  both: a provider that never answers, and a question asked under an existing request key
  (`agents/repository.py:1304` returns the request whatever its status, the task ends and
  the run stays `running`). `docs/ai2apps-backend-development-plan.md:506` says that a pending
  approval "cannot hang a Run forever", which holds; the second case is one of an approval
  that is spent. The comment at `agents/runtime.py:698-700` expects that the user is asked
  again then.
* Token budget: `docs/ai2apps-coding-subagents-development-plan.md:291-292` gives a tree
  100,000 cumulative tokens, the last 10,000 reserved for the parent. `settle_model` charges
  what the provider reports, and the reservation is an estimate of the input plus the
  output limit: a report beyond it exceeds the sum. It stops further reservations.
* Agent runs: a requeue between marking the queue and cancelling the tasks of a graceful
  stop leaves a queued run unmarked; a resume before the cancelled task has marked its
  step uncertain is accepted without a choice; two tasks of one run may both use a
  matched once lease; an existing request key is returned whatever its status, so a spent
  grant is not asked for again; `abandon_step_for_retry` may raise in the handler of a
  cancelled task, which leaves the run undriven; a request that expires while its run is
  paused leaves the run running after the resume.
* Delegation: a child that is denied, expires or is swept as overdue wakes nobody, and
  its parent waits for the timeout; `cancel()` lists the descendants once; the deadline of
  a child moves when its user answers, that of the parent does not.
* Processes: a cancel, a run end or a shutdown during `start()` settles the row and kills
  nothing, and `mark_running` overwrites the row; helpers that survive SIGTERM are not
  killed when the leader obeys; a loss between settling and signalling hides a process
  from recovery.
* Services: two calls of `start()` at once lose a process; of two drains of one worker, the
  one that times out calls `resume_worker` and reopens what the other has closed, which may
  then stop a worker that has accepted a request; the immediate exit acts on a
  snapshot that may be out of date; when the start of a replacement fails, the watcher only
  logs it (`packages/supervisor.py:1316-1323`): nothing runs, the instance stays `running`
  and nobody tries again.
* Cache: with the store thread, a block that is freed between find and share is listed in a
  table without a reference; its release takes the reference of another request, and six
  requests suffice for a block to be freed between its allocation and its registration,
  after which the index leads to a free block; `evict_lru_blocks` looks for candidates by
  rotating the free queue, so an exhausted pool frees nothing.
* References left behind: `omlx/scheduler.py:10433-10442` says that rejection must release a
  request's state "or rejected requests leak block refs", but `release_cache` frees only what
  it has an entry for, and `fetch_cache` makes none, so a rejected request keeps its
  references. So does a store that raises on the store thread (`omlx/scheduler.py:2453-2454`)
  and one that cannot be submitted (`10905-10908`): nobody comes back for their tables.

## 4. Proofs

The theorems hold for all constants that satisfy the assumptions of the modules: finite
sets of runs, calls and processes, disjoint kinds of keys, positive limits, distinct null
values.

| Module | Theorem | Statement |
|---|---|---|
| `AgentRuntimeProofs` | `TypeCorrect` | `Spec => []TypeOK` |
| | `SlotsBounded` | `Spec => []SlotBound` |
| | `RuntimeImplementsLifecycle` | `Spec => ImplementsLifecycle` |
| | `WaitingIsAnswerable` | `Spec => []WaitingHasPending` |
| `AgentEffectProofs` | `EffectsNotRepeated` | `Spec => []EffectOnce` |
| | `UncertainStays` | `Spec => UncertainHeld` |
| | `CallsAuthorized` | `Spec => []Authority` |
| | `RunsDrivenOnce` | `Spec => []DrivenOnce` |
| `AgentDelegationProofs` | `WaitsNotForgotten` | `Spec => []NoLostWake` |
| `WorkerSchedulerProofs` | `SlotsOwned` | `SchedulerSafety => []Owned` |
| | `EvictionsUndisturbed` | `SchedulerSafety => []EvictedIsIdle` |
| | `SlotsLimited` | `SchedulerSafety => []SlotLimits` |
| | `TicketsAccounted` | `SchedulerSafety => []Accounting` |
| `ServiceSupervisorProofs` | `NothingLost` | `Spec => []Tracked` |
| | `RestartsBudgeted` | `Spec => []RestartBudget` |
| | `EvictionsSpareTheBusy` | `Spec => EvictsTheIdle` |
| | `DrainsSpareTheBusy` | `OneDrain` implies `Spec => DrainsFirst` |
| `ProcessManagerProofs` | `RunningManaged` | `Spec => []RunningIsManaged` |
| | `VerdictStands` | `Spec => FirstVerdictStands` |
| `CodingSubagentsProofs` | `WaitsPaired` | `Spec => []WaitPaired` |
| | `BudgetKept` | `Spec => []BudgetHeld` |
| `PrefixCacheProofs` | `PoolAlwaysConsistent` | `Spec => []PoolConsistent` |
| | `ReferencesAccounted` | `Spec => []RefsAccounted` |
| | `SerialPrefixHeld` | `Spec => []SerialPrefixOnly` |

### Agent runtime

The argument has two layers.

1. *The process writes the database only through its transactions.*
   `NextIsStoreStep` shows that every step of the runtime is one of the
   transactions listed in `StoreStep`, or leaves the rows alone. This needs the
   inductive invariant `TypeInv`: `TypeOK` alone is not inductive, because whether
   a task's next transaction is sensible depends on its locals. `FrameOK` says
   which locals a task holds at each counter (a capability key at `policy`, a
   tool or model key whenever the cancel handler holds a step, a schema status
   at `fail_write`), `WellFormed` says the same of detached calls, and an
   in-flight claim exists only while stopping. One lemma per action shows that
   frames stay well-formed.
2. *What transactions preserve* is then proved of `StoreStep` alone.
   `StoreStepAllowed`: no transaction makes a status change that the trigger's
   table forbids, although most do not consult it. `OnlyClaimActivates`: only
   `claim_next` makes a run active, and only a candidate; with
   `FirstMember` (the claim's order has a least candidate, by well-foundedness of
   the naturals) this gives the slot bound and the refinement. `WaitingStep` gives
   the correspondence of waiting runs and pending requests, which rests on
   `create_interaction` refusing a second pending request.

### Effects, authority and drivers

Three inductive invariants, each over `TypeInv`.

* `EffectInv`. `EffectOnce` counts calls that were made, but a task between `create_step`
  and the call will make one whatever happens to the rows meanwhile. The invariant is an
  account per action key: calls started plus tasks at `dispatch` (`Spent`) exceed the
  retries the user authorised by at most one, and by none while the key has no row. Every
  way of freeing a key then has to be paid for. The user's retry pays by authorising one.
  The one way that is free is the `abandon_step_for_retry` of a call that was *rejected*
  before it started; the row of such a call is `Unspent` for as long as any frame, or any
  detached thread, can still free it. `UncertainHeld` follows from the same
  classification of the transactions (`Kept`, `Retried`, `Freed`).
* `GrantInv` follows the leases from the policy to the call: a lease exists only after its
  request was approved, the leases a task at `consume` carries were issued and match its
  call, and a task at `create` or `dispatch` has one such lease that is spent if it was for
  one use. A lease neither changes its scope nor becomes unspent, so what backs a call backs
  it for good.
* `DrivenInv`. While nobody has used a control and the server is up (`Calm`), no task is
  cancelled or in its cancel handler and nothing is detached; so of a run that has asked
  nothing, the status is the one its task counts on (`Expects`), there is one such task at
  most, and a claim is in flight only where there is none. The part about `stopped` and
  `lost` says that nothing of the process is left when recovery reads the rows. The proof
  attempt showed that runs that ask have to be excluded (section 3).

### Delegation

`WakeInv` splits the parent's wait at its reads: the event is registered from `read2` on,
and a parent that has read the child as unfinished *after* registering (`Committed`) is
owed a wake by whoever ends the child: its task, the dispatcher that claimed it or the
`cancel()` that has it next on its list (`Waking`). `KeptPromise` serves all steps of
other actors.

### Service supervisor

`GenInv` says how far each generation has come and who started it. `ChainInv` adds, for a
service somebody asked for once, that there is a single current generation: the latest,
which is also the only one that may be in `_live`; this gives `Tracked`. `BudgetInv`
counts the restarts made plus those that *may* still come (`Left`, pairs of a generation
and a restart number) against the budget; a restart moves one pair from the second sum to
the first. `EvictInv` and `DrainInv` follow an operation from the process it looked at to
the one it stops. `DrainsSpareTheBusy` has the hypothesis `OneDrain`, at most one operation
that drains, which the instance of `ServiceOps` satisfies; the API does not enforce it, and
without it the statement is false (section 3).

### Worker scheduler

`Owned` is not inductive: whether a grant finds a call that will take it depends on what
has reached the call before. `OwnedInv` adds, for each queued ticket, that its future is
pending and its call undisturbed, or cancelled and interrupted (`QueuedOK`); that the
timer reaches only late tickets; that no late ticket is queued while a dispatch runs; and
for each active ticket that it was granted in time (`InTime`), so that its timer can no
longer overtake the lease. The crucial steps are `Grant` (a ticket that is not late has not
met its timer) and `InterruptKeepsInv` (the timer cannot fire on an active ticket); both
rest on `_dispatch_locked` sweeping before it grants. Two lemmas serve all methods that
remove tickets, with and without a dispatch. `SlotsLimited` uses that only a grant adds a
ticket, and the cardinality theorems of the library; `TicketsAccounted` uses that queued
and active tickets are disjoint, and that every removal counts exactly what it removes.

### Processes and subagents

`NextIsRowStep` classifies every step by what it does to the rows and to `_live`
(insert, return of `start()`, settlement, start-up, nothing); the invariant and the
action property then follow from five cases. `NextIsWaitStep` does the same for the wait
row of the root. `WaitInv` strengthens `WaitPaired` by two facts: a running root has no
wait row, since `claim_next` passes over a root that has one, and between the two
transactions of `maintain()` the step is settled and the row still there.

`BudgetKept` is about a sum over all calls of all runs of a tree. The library has no
theorem on `SumFunction`, so the module proves what it needs: a sum of naturals is the number
of its units (`SumCounts`, by growing a finite set element by element, `SubsetsUp`), and
inclusions between sets of units bound one sum by another (`TotalGrows`, `TotalShrinks`,
`PartSum`). A reservation then adds to the tree at most the allowance of the run, which
`reserve_model` computes from what is held, and what is held is at least what is taken; a
charge takes no more than its reservation did. `BudgetInv` adds to `BudgetHeld` only types,
and nothing is assumed of the provider. Of the policy it is assumed that the parent's
reserve is part of the root budget (10,000 of 100,000 in `policy.py`). The run
`SubagentCharges` has one call per run, the theorem any number.

### Prefix cache

The pool's methods are functions, so the first half of the module says what each of them
keeps: `PoolOK` (the free queue holds every block that is not allocated, once) and
`IndexOK` (the index leads to allocated blocks of the hash). Three methods are loops over a
list of blocks or hashes. The proofs do not unfold their recursive functions: `LoopTrace`
gives a finite sequence of pools from the first to the result, each one turn after the
one before, and `CountUp` (counting up from 0, by well-foundedness of the naturals) carries an
invariant along it.

* `CacheInv` holds with both threads: the pool, and how far a fetch and a store have come.
  It yields the first part of `PoolConsistent`.
* `SerialInv` holds when the inference thread stores the requests itself. One thing
  happens at a time (`OneAtATime`); the references of a block are its places in the tables
  of its holders, live requests and those that left theirs behind, and those blocks are
  allocated (`Counted`, split into the two kinds by `HeldByEither`); the block of a place
  holds the hash of the place, except the one between allocation and registration, which
  has one place and which the index does not lead to (`PlacesOK`, `FoundOK`); and the
  blocks that a fetch or a store has found but not claimed yet are still what they were
  found for (`FoundOK`). The last is what fails with the store thread, as `CacheForeign`
  shows. `ClaimBegins` and `ClaimEnds` relate one reference to one place; a block is freed
  with its last place, so no other table can lead to it.

### Only model-checked

All liveness properties and `CrashAnswered` (fairness is beyond the prover).
`OwnPrefixOnly` with the store thread is false (section 3).

## 5. Not modelled

* Agent runs: descendants of pause and resume, `retry_run`, context snapshots, streaming,
  definitions, status lines, audit rows; calls that need several capabilities from several
  leases. A request or a lease expires at any moment rather than at a time.
* Scheduler: telemetry; the estimate of a job's memory is a constant of the job.
* Processes: standard input, logs, the check of a PID's birth time, broker rows, and the
  Linux sandbox, whose PID namespace ends the group with its leader.
* Services: installation transactions, rollback, checkpoints, `shutdown()` and the
  recovery of orphans at start-up; one service only.
* Subagents: merging of results, follow-up requests, the processes of children.
* Cache: the exact-prefix and session caches, with the release that the store worker skips
  for a request at an exact session boundary; the content of `_prefix_index`, its upkeep and
  its repair of a block without hash (what it may lead to is left open); what makes
  `reconstruct_cache` give up loaded blocks, of which only the outcome, fewer blocks or none,
  is modelled; batching, the SSD tier's own index and budgets, the null block, and the wait
  of long prompts for a store in flight.

The repository has some 440,000 lines of implementation. The models map the parts that
decide what happens when actors interleave, fail or restart: about one line in a hundred.
The bulk is outside the reach of this method: tensor code and model architectures
(`omlx/`: quantisation, engines, kernels), HTTP routes and administration that format
rows, media and document features, front ends, migrations that only add tables, and
clients of network protocols whose other side is not in the repository. Components and
reasons are listed under `components` in `PROJECT.json`.

## 6. Plan

1. Done: agent runs and their lifecycle, delegation, coding subagents, worker scheduler
   with resources, processes, services, prefix cache.
2. Done: the safety properties of agent runs, delegation, subagents, scheduler,
   processes, services and the cache proved.
3. `EventStream`: append, notification after commit, one-slot wake queue and replay; no
   event is missed or repeated, and a subscriber is woken.
4. Installation transactions of packages: staging, commit and rollback over losses.
