---------------------- MODULE ServiceSupervisorProofs ----------------------
(***************************************************************************)
(* Proofs about ServiceSupervisor for any operations, any number of        *)
(* generations and any restart budget.                                     *)
(***************************************************************************)
EXTENDS ServiceSupervisor, FiniteSetTheorems, TLAPS

Starts == {"none", "exec", "readiness", "done", "failed"}
Watches == {"none", "watching", "backoff", "restarting", "over"}
Procs == {"none", "up", "gone"}
Places == {"idle", "stopping", "chosen", "probe", "waiting", "answered", "over"}

(* A generation: its process exists from the return of exec on, its        *)
(* watcher from its readiness on, and a watcher that has called start()    *)
(* is no longer in _live and never calls it again.                         *)
GenOK(g) ==
  /\ start[g] = "none" <=> gen < g
  /\ start[g] \in {"none", "exec"} => live # g /\ proc[g] = "none" /\ g \notin desired
  /\ start[g] \in {"readiness", "done"} => proc[g] # "none"
  /\ watch[g] # "none" => start[g] = "done"
  /\ watch[g] \in {"backoff", "restarting"} => proc[g] = "gone"
  /\ starter[g] # None =>
       /\ start[g] # "none" /\ g # 1
       /\ watch[starter[g]] \in {"restarting", "over"} /\ live # starter[g]

SupTypes ==
  /\ gen \in 0..MaxGen /\ live \in Gens \cup {None}
  /\ proc \in [Gens -> Procs]
  /\ start \in [Gens -> Starts] /\ watch \in [Gens -> Watches]
  /\ starter \in [Gens -> Gens \cup {None}]
  /\ restarts \in [Gens -> Nat]

GenInv == SupTypes /\ \A g \in Gens : GenOK(g)

(* Somebody asked for one generation at most.                              *)
Alone == \A g, h \in Asked : g = h

Current(g) == start[g] \in {"exec", "readiness"} \/ watch[g] \in {"watching", "backoff"}

Chain ==
  /\ \A g \in Gens : Current(g) => g = gen
  /\ live \in {None, gen}
  /\ \A g \in Gens : start[g] = "exec" => live = None
  /\ \A g \in Gens : Up(g) => g = live \/ g \in stopping

ChainInv == Alone => Chain

(* The count of restarts that a generation has, or will be given when it   *)
(* is ready and still in _live.                                            *)
Count(g) ==
  IF starter[g] = None \/ watch[g] # "none" THEN restarts[g] ELSE restarts[starter[g]] + 1

(* Restart number i may still come of generation g.  A watcher in its      *)
(* backoff has compared its count already.                                 *)
May(g, i) ==
  \/ start[g] \in {"exec", "readiness"} /\ Count(g) < i
  \/ watch[g] = "watching" /\ live = g /\ Count(g) < i
  \/ watch[g] = "backoff" /\ (Count(g) < i \/ i = MaxRestarts)

Left == {x \in Gens \X (1..MaxRestarts) : May(x[1], x[2])}
Restarted == {g \in Gens : starter[g] # None}

(* The restarts made and those that may still come are within the budget.  *)
BudgetInv ==
  /\ Cardinality(Restarted) + Cardinality(Left) <= MaxRestarts * Cardinality(Asked)
  /\ \A g \in Gens : watch[g] = "backoff" => MaxRestarts # 0

-----------------------------------------------------------------------------
(* What a step does to the supervisor: a call of start() or stop(), a step *)
(* of a start, of a watcher or of a process, or nothing.                   *)
Begins ==
  /\ ~Up(live) /\ BeginStart(None)
  /\ UNCHANGED <<live, desired, stopping, proc, restarts, watch>>
TakesLive == BeginStop /\ UNCHANGED <<proc, restarts, watch>>
Exits(g) ==
  /\ Up(g) /\ proc' = [proc EXCEPT ![g] = "gone"]
  /\ UNCHANGED <<supVars, restarts, watch>>
Untouched == UNCHANGED <<supVars, proc, restarts, watch>>

(* Every step is one of these.                                             *)
LEMMA SupSteps ==
  ASSUME [Next]_vars
  PROVE  \/ Begins \/ TakesLive \/ Untouched
         \/ \E g \in Gens : StartStep(g) \/ WatchStep(g) \/ Exits(g)
<1>1. ASSUME NEW o \in Ops, OpStep(o)
      PROVE  Begins \/ TakesLive \/ Untouched
  <2>1. CASE CallStart(o)
    BY <2>1 DEF CallStart, Begins, Untouched, workerVars
  <2>2. CASE CallStop(o)
    BY <2>2 DEF CallStop, TakesLive, workerVars
  <2>3. CASE Decide(o)
    BY <2>3 DEF Decide, TakesLive, Untouched, workerVars
  <2>4. CASE \/ StopReturns(o) \/ Choose(o) \/ BeginEvict(o) \/ BeginExit(o) \/ Drain(o)
             \/ AwaitIdle(o) \/ DrainTimesOut(o) \/ Probed(o)
    BY <2>4 DEF StopReturns, Choose, BeginEvict, BeginExit, Drain, AwaitIdle, DrainTimesOut,
                Probed, Untouched, workerVars
  <2>5. QED
    BY <1>1, <2>1, <2>2, <2>3, <2>4 DEF OpStep
<1>2. ASSUME NEW g \in Gens, Crashes(g) \/ Stopped(g)
      PROVE  Exits(g)
  BY <1>2 DEF Crashes, Stopped, Ends, Exits
<1>3. CASE RequestArrives \/ (\E g \in Gens : RequestEnds(g)) \/ UNCHANGED vars
  BY <1>3 DEF RequestArrives, RequestEnds, Untouched, vars, supVars, workerVars
<1>4. QED
  BY <1>1, <1>2, <1>3 DEF Next

(* The generations are numbered from 1; None is not one of them.           *)
LEMMA Numbers ==
  /\ MaxGen \in Nat /\ MaxRestarts \in Nat
  /\ \A g \in Gens : g \in Nat /\ g # None
  /\ gen \in 0..MaxGen /\ gen < MaxGen => gen + 1 \in Gens
  BY SupervisorAssumption DEF SupervisorAssumption, Gens, None

(* A call of start() takes the next generation and touches no other.       *)
LEMMA BeginStartKeepsGens ==
  ASSUME GenInv, NEW h \in Gens \cup {None}, BeginStart(h), UNCHANGED <<desired, proc, restarts>>,
         \/ h = None /\ UNCHANGED <<live, watch>>
         \/ /\ h \in Gens /\ watch[h] = "backoff" /\ live' = None
            /\ watch' = [watch EXCEPT ![h] = "restarting"]
  PROVE  GenInv'
<1> DEFINE n == gen + 1
<1>1. /\ SupTypes /\ gen \in Nat /\ n \in Gens /\ gen' = n
      /\ start' = [start EXCEPT ![n] = "exec"] /\ starter' = [starter EXCEPT ![n] = h]
  BY Numbers DEF GenInv, SupTypes, BeginStart
<1>2. GenOK(n) /\ start[n] = "none"
  BY <1>1 DEF GenInv, GenOK
<1>3. h \in Gens => h # n /\ watch[h] = "backoff" /\ start[h] = "done"
  BY <1>2, Numbers DEF GenInv, GenOK
<1>4. SupTypes'
  BY <1>1, Numbers DEF SupTypes, Starts, Watches, Gens
<1>5. h \in Gens => n # 1
  <2>1. SUFFICES ASSUME h \in Gens PROVE gen # 0
    BY <1>1
  <2>2. h \in Nat /\ h # 0 /\ ~(gen < h)
    BY <1>3, <2>1, Numbers DEF GenInv, GenOK, None
  <2>3. QED
    BY <1>1, <2>2
<1>6. ASSUME NEW k \in Gens
      PROVE  GenOK(k)'
  <2>1. CASE k = n
    <3>1. start'[n] = "exec" /\ starter'[n] = h /\ watch'[n] = "none"
      BY <1>1, <1>2, <1>3 DEF SupTypes, GenOK
    <3>2. h # None => h \in Gens /\ watch'[h] = "restarting" /\ live' # h
      BY <1>1, Numbers DEF SupTypes
    <3>3. live' # n /\ proc'[n] = "none" /\ n \notin desired'
      BY <1>1, <1>2, Numbers DEF GenOK
    <3>4. QED
      BY <1>1, <1>5, <2>1, <3>1, <3>2, <3>3 DEF GenOK
  <2>2. CASE k # n
    <3>1. GenOK(k) /\ start'[k] = start[k] /\ starter'[k] = starter[k]
      BY <1>1, <2>2 DEF SupTypes, GenInv
    <3>2. watch'[k] = watch[k] \/ (k = h /\ watch[k] = "backoff" /\ watch'[k] = "restarting")
      BY <1>1 DEF SupTypes
    <3>3. ASSUME starter[k] # None
          PROVE  watch'[starter[k]] = watch[starter[k]] /\ live' # starter[k]
      <4>1. starter[k] \in Gens /\ watch[starter[k]] \in {"restarting", "over"}
        BY <1>1, <3>1, <3>3 DEF SupTypes, GenOK
      <4>2. QED
        BY <1>1, <3>1, <3>3, <4>1, Numbers DEF SupTypes, GenOK
    <3>4. k \in Nat /\ (gen' < k <=> gen < k)
      BY <1>1, <2>2, Numbers
    <3>5. live' = k => live = k
      BY Numbers
    <3>6. QED
      BY <3>1, <3>2, <3>3, <3>4, <3>5 DEF GenOK
  <2>3. QED
    BY <2>1, <2>2
<1>7. QED
  BY <1>4, <1>6 DEF GenInv

(* A step that changes the start, the watch and the process of generations *)
(* in place.                                                               *)
LEMMA InPlaceKeepsGens ==
  ASSUME GenInv, UNCHANGED <<gen, starter>>, SupTypes',
         \A k \in Gens :
           /\ start'[k] = "none" <=> start[k] = "none"
           /\ start'[k] = "exec" => start[k] = "exec" /\ proc'[k] = proc[k]
           /\ start[k] = "none" => proc'[k] = proc[k]
           /\ start'[k] \in {"readiness", "done"} => proc'[k] # "none"
           /\ k \in desired' => k \in desired \/ start'[k] = "readiness"
           /\ watch'[k] # "none" => start'[k] = "done"
           /\ watch'[k] \in {"backoff", "restarting"} => proc'[k] = "gone"
           /\ watch[k] \in {"restarting", "over"} => watch'[k] \in {"restarting", "over"},
         live' # live /\ live' # None => start[live'] = "exec" /\ start'[live'] = "readiness"
  PROVE  GenInv'
<1>1. ASSUME NEW k \in Gens
      PROVE  GenOK(k)'
  <2>1. GenOK(k) /\ SupTypes
    BY DEF GenInv
  <2>2. start'[k] \in {"none", "exec"} => live' # k /\ proc'[k] = "none" /\ k \notin desired'
    BY <2>1, Numbers DEF GenOK
  <2>3. ASSUME starter[k] # None
        PROVE  watch'[starter[k]] \in {"restarting", "over"} /\ live' # starter[k]
    <3>1. starter[k] \in Gens /\ watch[starter[k]] \in {"restarting", "over"}
      BY <2>1, <2>3 DEF GenOK, SupTypes
    <3>2. start[starter[k]] = "done"
      BY <3>1 DEF GenInv, GenOK
    <3>3. QED
      BY <2>1, <2>3, <3>1, <3>2, Numbers DEF GenOK
  <2>4. QED
    BY <2>1, <2>2, <2>3 DEF GenOK
<1>2. QED
  BY <1>1 DEF GenInv

(* The steps of a start.                                                   *)
LEMMA StartStepKeepsGens ==
  ASSUME GenInv, NEW g \in Gens, StartStep(g)
  PROVE  GenInv'
<1>1. SupTypes /\ GenOK(g) /\ \A k \in Gens : GenOK(k)
  BY DEF GenInv
<1>2. CASE Spawned(g)
  <2>1. /\ start[g] = "exec" /\ start' = [start EXCEPT ![g] = "readiness"]
        /\ proc' = [proc EXCEPT ![g] = "up"] /\ live' = g /\ desired' = desired \cup {g}
        /\ UNCHANGED <<gen, starter, watch, restarts>>
    BY <1>2 DEF Spawned
  <2>2. SupTypes'
    BY <1>1, <2>1 DEF SupTypes, Starts, Procs
  <2>3. QED
    BY <1>1, <2>1, <2>2, InPlaceKeepsGens DEF SupTypes, GenOK
<1>3. ASSUME start[g] \in {"exec", "readiness"}, start' = [start EXCEPT ![g] = "failed"],
             watch' = WatchOver(starter[g]), live' \in {live, None}, desired' \subseteq desired,
             UNCHANGED <<gen, starter, proc, restarts>>
      PROVE  GenInv'
  <2>1. \A k \in Gens : watch'[k] = watch[k] \/ (k = starter[g] /\ watch'[k] = "over")
    BY <1>1, <1>3 DEF WatchOver, SupTypes
  <2>2. SupTypes'
    BY <1>1, <1>3 DEF SupTypes, Starts, Watches, WatchOver
  <2>3. \A k \in Gens : k = starter[g] => start[k] = "done" /\ k # g
    BY <1>1, <1>3, Numbers DEF GenOK, SupTypes
  <2>4. QED
    BY <1>1, <1>3, <2>1, <2>2, <2>3, InPlaceKeepsGens DEF SupTypes, GenOK
<1>4. CASE SpawnFails(g)
  BY <1>3, <1>4 DEF SpawnFails, workerVars
<1>5. CASE ReadinessFails(g)
  BY <1>3, <1>5 DEF ReadinessFails, workerVars
<1>6. CASE BecomesReady(g)
  <2>1. /\ start[g] = "readiness" /\ start' = [start EXCEPT ![g] = "done"]
        /\ watch' = [WatchOver(starter[g]) EXCEPT ![g] = "watching"]
        /\ restarts' = IF starter[g] = None \/ live = None THEN restarts
                       ELSE [restarts EXCEPT ![live] = restarts[starter[g]] + 1]
        /\ UNCHANGED <<gen, live, desired, starter, proc>>
    BY <1>6 DEF BecomesReady, workerVars
  <2>2. starter[g] \in Gens \cup {None} /\ live \in Gens \cup {None}
    BY <1>1 DEF SupTypes
  <2>3. SupTypes'
    <3>1. restarts' \in [Gens -> Nat]
      BY <1>1, <2>1, <2>2 DEF SupTypes
    <3>2. watch' \in [Gens -> Watches] /\ start' \in [Gens -> Starts]
      BY <1>1, <2>1, <2>2 DEF SupTypes, Watches, Starts, WatchOver
    <3>3. QED
      BY <1>1, <2>1, <3>1, <3>2 DEF SupTypes
  <2>4. \A k \in Gens : \/ watch'[k] = watch[k]
                        \/ k = starter[g] /\ watch'[k] = "over"
                        \/ k = g /\ watch'[k] = "watching"
    BY <1>1, <2>1, <2>2 DEF WatchOver, SupTypes
  <2>5. \A k \in Gens : k = starter[g] => start[k] = "done" /\ k # g
    BY <1>1, <2>1, Numbers DEF GenOK, SupTypes
  <2>6. watch[g] = "none"
    BY <1>1, <2>1 DEF GenOK
  <2>7. QED
    BY <1>1, <2>1, <2>3, <2>4, <2>5, <2>6, InPlaceKeepsGens DEF SupTypes, GenOK
<1>7. QED
  BY <1>2, <1>4, <1>5, <1>6 DEF StartStep

(* What the supervisor knows of its generations holds in every state.      *)
LEMMA GenInvariant == Spec => []GenInv
<1>1. Init => GenInv
  BY Numbers DEF Init, GenInv, SupTypes, GenOK, Procs, Starts, Watches, Gens, None
<1>2. ASSUME GenInv, [Next]_vars
      PROVE  GenInv'
  <2>1. SupTypes /\ \A k \in Gens : GenOK(k)
    BY <1>2 DEF GenInv
  <2>2. CASE Begins
    BY <1>2, <2>2, BeginStartKeepsGens DEF Begins
  <2>3. CASE TakesLive
    <3>1. SupTypes'
      BY <2>1, <2>3 DEF TakesLive, BeginStop, SupTypes
    <3>2. QED
      BY <1>2, <2>1, <2>3, <3>1, InPlaceKeepsGens DEF TakesLive, BeginStop, GenOK
  <2>4. CASE Untouched
    BY <2>1, <2>4 DEF Untouched, supVars, GenInv, SupTypes, GenOK
  <2>5. ASSUME NEW g \in Gens, StartStep(g)
        PROVE  GenInv'
    BY <1>2, <2>5, StartStepKeepsGens
  <2>6. ASSUME NEW g \in Gens, Exits(g)
        PROVE  GenInv'
    <3>1. /\ proc[g] = "up" /\ proc' = [proc EXCEPT ![g] = "gone"]
          /\ UNCHANGED <<gen, live, desired, start, starter, restarts, watch>>
      BY <2>6 DEF Exits, Up, supVars
    <3>2. SupTypes'
      BY <2>1, <3>1 DEF SupTypes, Procs
    <3>3. \A k \in Gens : proc'[k] = proc[k] \/ (k = g /\ proc'[k] = "gone")
      BY <2>1, <3>1 DEF SupTypes
    <3>4. QED
      BY <1>2, <2>1, <3>1, <3>2, <3>3, InPlaceKeepsGens DEF GenOK
  <2>7. ASSUME NEW g \in Gens, WatchWakes(g) \/ Forgone(g)
        PROVE  GenInv'
    <3>1. PICK w \in {"over", "backoff"} :
            /\ watch' = [watch EXCEPT ![g] = w]
            /\ watch[g] \in {"watching", "backoff"}
            /\ w = "backoff" => proc[g] = "gone"
            /\ UNCHANGED <<gen, live, desired, start, starter, restarts, proc>>
      BY <2>7, Numbers DEF WatchWakes, Forgone, WatchOver, supVars, workerVars
    <3>2. SupTypes'
      BY <2>1, <3>1 DEF SupTypes, Watches
    <3>3. \A k \in Gens : watch'[k] = watch[k] \/ (k = g /\ watch'[k] = w)
      BY <2>1, <3>1 DEF SupTypes
    <3>4. QED
      BY <1>2, <2>1, <3>1, <3>2, <3>3, InPlaceKeepsGens DEF GenOK
  <2>8. ASSUME NEW g \in Gens, Restarts(g)
        PROVE  GenInv'
    BY <1>2, <2>8, BeginStartKeepsGens DEF Restarts, workerVars
  <2>9. QED
    BY <1>2, <2>2, <2>3, <2>4, <2>5, <2>6, <2>7, <2>8, SupSteps DEF WatchStep
<1>3. QED
  BY <1>1, <1>2, PTL DEF Spec

-----------------------------------------------------------------------------
(* One start: the generations form a chain.                                *)

(* Nobody takes back what was asked for, and the first generation was.     *)
LEMMA AskedGrows ==
  ASSUME GenInv, [Next]_vars
  PROVE  Asked \subseteq Asked'
<1>1. SupTypes
  BY DEF GenInv
<1>2. ASSUME NEW h, BeginStart(h)
      PROVE  Asked \subseteq Asked'
  <2>1. /\ gen + 1 \in Gens /\ start' = [start EXCEPT ![gen + 1] = "exec"]
        /\ starter' = [starter EXCEPT ![gen + 1] = h]
    BY <1>1, <1>2, Numbers DEF BeginStart, SupTypes
  <2>2. start[gen + 1] = "none"
    BY <1>1, <2>1 DEF GenInv, GenOK, SupTypes
  <2>3. QED
    BY <1>1, <2>1, <2>2 DEF Asked, SupTypes
<1>3. ASSUME NEW g \in Gens, StartStep(g)
      PROVE  Asked \subseteq Asked'
  BY <1>1, <1>3 DEF StartStep, Spawned, SpawnFails, BecomesReady, ReadinessFails, Asked, SupTypes
<1>4. ASSUME NEW g \in Gens, WatchStep(g) \/ Exits(g)
      PROVE  Asked \subseteq Asked'
  BY <1>2, <1>4 DEF WatchStep, WatchWakes, Restarts, Forgone, Exits, supVars, Asked
<1>5. CASE Begins
  BY <1>2, <1>5 DEF Begins
<1>6. CASE TakesLive \/ Untouched
  BY <1>6 DEF TakesLive, BeginStop, Untouched, supVars, Asked
<1>7. QED
  BY <1>3, <1>4, <1>5, <1>6, SupSteps

(* The first generation is asked for: there is no watcher before it.       *)
LEMMA FirstAsked ==
  ASSUME GenInv, gen # 0
  PROVE  1 \in Asked
<1>1. 1 \in Gens /\ gen \in Nat
  BY Numbers, SupervisorAssumption DEF GenInv, SupTypes, Gens, SupervisorAssumption
<1>2. QED
  BY <1>1 DEF GenInv, GenOK, Asked

(* With one start, the first call of start() is the only one.              *)
LEMMA FirstStartIsAlone ==
  ASSUME GenInv, Begins, [Next]_vars, Alone'
  PROVE  gen = 0
<1>1. SUFFICES ASSUME gen # 0 PROVE FALSE
  OBVIOUS
<1>2. 1 \in Asked'
  BY <1>1, FirstAsked, AskedGrows
<1>3. /\ gen \in Nat /\ gen + 1 \in Gens /\ SupTypes
      /\ start' = [start EXCEPT ![gen + 1] = "exec"]
      /\ starter' = [starter EXCEPT ![gen + 1] = None]
  BY Numbers DEF GenInv, SupTypes, Begins, BeginStart
<1>4. gen + 1 \in Asked'
  BY <1>3 DEF Asked, SupTypes
<1>5. QED
  BY <1>1, <1>2, <1>3, <1>4 DEF Alone

(* A call of start() moves the chain to the next generation.               *)
LEMMA BeginStartKeepsChain ==
  ASSUME GenInv, NEW h, BeginStart(h), UNCHANGED <<proc, stopping>>,
         live' = None, \A k \in Gens : Up(k) => k \in stopping,
         \A k \in Gens : start[k] \notin {"exec", "readiness"}
                         /\ watch'[k] \notin {"watching", "backoff"}
  PROVE  Chain'
<1>1. SupTypes /\ start' = [start EXCEPT ![gen + 1] = "exec"] /\ gen' = gen + 1
  BY DEF GenInv, BeginStart
<1>2. \A k \in Gens : start'[k] \in {"exec", "readiness"} => k = gen'
  BY <1>1 DEF SupTypes
<1>3. QED
  BY <1>2 DEF Chain, Current, Up

(* With one start, the chain is kept by every step.                        *)
LEMMA ChainStep ==
  ASSUME GenInv, ChainInv, [Next]_vars
  PROVE  ChainInv'
<1>1. SUFFICES ASSUME Alone' PROVE Chain'
  BY DEF ChainInv
<1>2. Alone /\ Chain
  BY <1>1, AskedGrows DEF Alone, ChainInv
<1>3. SupTypes /\ \A k \in Gens : GenOK(k)
  BY DEF GenInv
<1>4. CASE Begins
  <2>1. gen = 0
    BY <1>1, <1>4, FirstStartIsAlone
  <2>2. \A k \in Gens : start[k] = "none" /\ proc[k] = "none" /\ watch[k] = "none"
    BY <1>3, <2>1, Numbers DEF GenOK, None
  <2>3. live = None
    BY <1>2, <2>1 DEF Chain, None
  <2>4. QED
    BY <1>4, <2>2, <2>3, BeginStartKeepsChain DEF Begins, Up
<1>5. CASE TakesLive
  BY <1>2, <1>3, <1>5 DEF TakesLive, BeginStop, Chain, Current, Up
<1>6. CASE Untouched
  BY <1>2, <1>6 DEF Untouched, supVars, Chain, Current, Up
<1>7. ASSUME NEW g \in Gens, Exits(g)
      PROVE  Chain'
  BY <1>2, <1>3, <1>7 DEF Exits, supVars, Chain, Current, Up, SupTypes
<1>8. ASSUME NEW g \in Gens, Spawned(g)
      PROVE  Chain'
  <2>1. /\ start[g] = "exec" /\ start' = [start EXCEPT ![g] = "readiness"]
        /\ proc' = [proc EXCEPT ![g] = "up"] /\ live' = g
        /\ UNCHANGED <<gen, watch, stopping>>
    BY <1>8 DEF Spawned
  <2>2. g = gen /\ live = None
    BY <1>2, <2>1 DEF Chain, Current
  <2>3. QED
    BY <1>2, <1>3, <2>1, <2>2 DEF Chain, Current, Up, SupTypes
<1>9. ASSUME NEW g \in Gens, SpawnFails(g) \/ ReadinessFails(g)
      PROVE  Chain'
  <2>1. \A k \in Gens : /\ start'[k] = start[k] \/ start'[k] = "failed"
                        /\ watch'[k] = watch[k] \/ watch'[k] = "over"
    BY <1>3, <1>9 DEF SpawnFails, ReadinessFails, WatchOver, SupTypes
  <2>2. /\ UNCHANGED <<gen, proc>>
        /\ \/ UNCHANGED <<live, stopping>>
           \/ live' = None /\ stopping' = IF Up(live) THEN stopping \cup {live} ELSE stopping
    BY <1>9 DEF SpawnFails, ReadinessFails, workerVars
  <2>3. QED
    BY <1>2, <2>1, <2>2 DEF Chain, Current, Up
<1>10. ASSUME NEW g \in Gens, BecomesReady(g)
       PROVE  Chain'
  <2>1. /\ start[g] = "readiness" /\ start' = [start EXCEPT ![g] = "done"]
        /\ watch' = [WatchOver(starter[g]) EXCEPT ![g] = "watching"]
        /\ UNCHANGED <<gen, live, stopping, proc>>
    BY <1>10 DEF BecomesReady, workerVars
  <2>2. \A k \in Gens : /\ start'[k] = start[k] \/ start'[k] = "done"
                        /\ watch'[k] = watch[k] \/ watch'[k] = "over" \/ k = g
    BY <1>3, <2>1 DEF WatchOver, SupTypes
  <2>3. g = gen
    BY <1>2, <2>1 DEF Chain, Current
  <2>4. QED
    BY <1>2, <2>1, <2>2, <2>3 DEF Chain, Current, Up
<1>11. ASSUME NEW g \in Gens, WatchWakes(g) \/ Forgone(g)
       PROVE  Chain'
  <2>1. /\ UNCHANGED <<gen, live, stopping, proc, start>>
        /\ \A k \in Gens : watch'[k] # watch[k] => k = g /\ watch[k] \in {"watching", "backoff"}
    BY <1>3, <1>11 DEF WatchWakes, Forgone, WatchOver, SupTypes, supVars, workerVars
  <2>2. QED
    BY <1>2, <2>1 DEF Chain, Current, Up
<1>12. ASSUME NEW g \in Gens, Restarts(g)
       PROVE  Chain'
  <2>1. /\ watch[g] = "backoff" /\ live' = None /\ BeginStart(g)
        /\ watch' = [watch EXCEPT ![g] = "restarting"] /\ UNCHANGED <<stopping, proc>>
    BY <1>12 DEF Restarts, workerVars
  <2>2. g = gen /\ start[g] = "done" /\ proc[g] = "gone"
    BY <1>2, <1>3, <2>1 DEF Chain, Current, GenOK
  <2>3. \A k \in Gens : Up(k) => k \in stopping
    BY <1>2, <2>2 DEF Chain, Up
  <2>4. \A k \in Gens : start[k] \notin {"exec", "readiness"}
                        /\ watch'[k] \notin {"watching", "backoff"}
    BY <1>2, <1>3, <2>1, <2>2 DEF Chain, Current, SupTypes
  <2>5. QED
    BY <2>1, <2>3, <2>4, BeginStartKeepsChain
<1>13. QED
  BY <1>4, <1>5, <1>6, <1>7, <1>8, <1>9, <1>10, <1>11, <1>12, SupSteps DEF StartStep, WatchStep

(* The chain holds in every state.                                         *)
LEMMA ChainInvariant == Spec => []ChainInv
<1>1. Init => ChainInv
  BY Numbers DEF Init, ChainInv, Chain, Current, Up
<1>2. QED
  BY <1>1, ChainStep, GenInvariant, PTL DEF Spec

(* A set with at most one element has no two.                              *)
LEMMA AtMostOne ==
  ASSUME Cardinality(Asked) <= 1
  PROVE  Alone
<1>1. IsFiniteSet(Gens)
  BY Numbers, FS_Interval DEF Gens
<1>2. IsFiniteSet(Asked) /\ Cardinality(Asked) \in Nat
  BY <1>1, FS_Subset, FS_CardinalityType DEF Asked
<1>3. SUFFICES ASSUME NEW g \in Asked, NEW h \in Asked, g # h
               PROVE  FALSE
  BY DEF Alone
<1>4. /\ IsFiniteSet(Asked \ {g}) /\ Cardinality(Asked \ {g}) = Cardinality(Asked) - 1
  BY <1>2, FS_RemoveElement
<1>5. Cardinality(Asked \ {g}) = 0
  BY <1>2, <1>4, FS_CardinalityType
<1>6. Asked \ {g} = {}
  BY <1>4, <1>5, FS_EmptySet
<1>7. QED
  BY <1>3, <1>6

(* No process of a service that was started once is ever lost, for any     *)
(* number of crashes, restarts, evictions, drains, stops and exits, in any *)
(* order.                                                                  *)
THEOREM NothingLost == Spec => []Tracked
<1>1. ChainInv => Tracked
  BY AtMostOne DEF ChainInv, Chain, Tracked
<1>2. QED
  BY <1>1, ChainInvariant, PTL

-----------------------------------------------------------------------------
(* The budget.                                                             *)

(* The sets that are counted are finite.                                   *)
LEMMA FiniteCounts ==
  /\ IsFiniteSet(Asked) /\ Cardinality(Asked) \in Nat
  /\ IsFiniteSet(Restarted) /\ Cardinality(Restarted) \in Nat
  /\ IsFiniteSet(Left) /\ Cardinality(Left) \in Nat
  /\ IsFiniteSet(Gens \X (1..MaxRestarts))
<1>1. IsFiniteSet(Gens) /\ IsFiniteSet(1..MaxRestarts)
  BY Numbers, FS_Interval DEF Gens
<1>2. IsFiniteSet(Gens \X (1..MaxRestarts))
  BY <1>1, FS_Product
<1>3. IsFiniteSet(Asked) /\ IsFiniteSet(Restarted) /\ IsFiniteSet(Left)
  BY <1>1, <1>2, FS_Subset DEF Asked, Restarted, Left
<1>4. QED
  BY <1>2, <1>3, FS_CardinalityType

(* Restarts move from generation b, which has none left, to generation a.  *)
LEMMA Moves ==
  ASSUME NEW P, IsFiniteSet(P), NEW Q, Q \subseteq Gens \X (1..MaxRestarts),
         NEW a, NEW b, \A x \in Q : x[1] # b,
         \A x \in Q : x \in P \/ (x[1] = a /\ <<b, x[2]>> \in P)
  PROVE  Cardinality(Q) <= Cardinality(P)
<1> DEFINE F(x) == IF x[1] = a /\ <<b, x[2]>> \in P THEN <<b, x[2]>> ELSE x
           f == [x \in Q |-> F(x)]
<1>1. f \in [Q -> P]
  OBVIOUS
<1>2. ASSUME NEW x \in Q, NEW y \in Q, F(x) = F(y)
      PROVE  x = y
  <2>1. x = <<x[1], x[2]>> /\ y = <<y[1], y[2]>>
    OBVIOUS
  <2>2. x[1] # b /\ y[1] # b
    OBVIOUS
  <2>3. CASE x[1] = a /\ <<b, x[2]>> \in P
    BY <1>2, <2>1, <2>2, <2>3
  <2>4. CASE ~(x[1] = a /\ <<b, x[2]>> \in P)
    BY <1>2, <2>1, <2>2, <2>4
  <2>5. QED
    BY <2>3, <2>4
<1>3. f \in Injection(Q, P)
  BY <1>1, <1>2 DEF Injection, IsInjective
<1>4. QED
  BY <1>3, FS_Injection

(* A step that starts nothing, after which no restart may come that could  *)
(* not come before, except those that b hands to a.                        *)
LEMMA LessLeft ==
  ASSUME BudgetInv, UNCHANGED starter, Asked \subseteq Asked', NEW a, NEW b,
         \A g \in Gens, i \in 1..MaxRestarts :
            May(g, i)' => g # b /\ (May(g, i) \/ (g = a /\ b \in Gens /\ May(b, i)))
  PROVE  Cardinality(Restarted') + Cardinality(Left') <= MaxRestarts * Cardinality(Asked')
<1>1. Restarted' = Restarted
  BY DEF Restarted
<1>2. Left' \subseteq Gens \X (1..MaxRestarts)
  BY DEF Left
<1>3. \A x \in Left' : x[1] # b
  BY DEF Left
<1>4. \A x \in Left' : x \in Left \/ (x[1] = a /\ <<b, x[2]>> \in Left)
  BY DEF Left
<1>5. Cardinality(Left') <= Cardinality(Left)
  BY <1>2, <1>3, <1>4, Moves, FiniteCounts
<1>6. IsFiniteSet(Asked') /\ Cardinality(Asked') \in Nat /\ Cardinality(Left') \in Nat
  <2>1. IsFiniteSet(Gens)
    BY Numbers, FS_Interval DEF Gens
  <2>2. IsFiniteSet(Asked') /\ IsFiniteSet(Left')
    BY <1>2, <2>1, FiniteCounts, FS_Subset DEF Asked
  <2>3. QED
    BY <2>2, FS_CardinalityType
<1>7. Cardinality(Asked) <= Cardinality(Asked')
  BY <1>6, FS_Subset
<1> DEFINE r == Cardinality(Restarted)
           l == Cardinality(Left)
           m == Cardinality(Left')
           k == Cardinality(Asked)
           n == Cardinality(Asked')
<1>8. /\ r \in Nat /\ l \in Nat /\ m \in Nat /\ k \in Nat /\ n \in Nat /\ MaxRestarts \in Nat
      /\ k <= n /\ m <= l /\ r + l <= MaxRestarts * k
  BY <1>5, <1>6, <1>7, FiniteCounts, Numbers DEF BudgetInv
<1> HIDE DEF r, l, m, k, n
<1>9. MaxRestarts * k <= MaxRestarts * n
  BY <1>8
<1>10. r + m <= MaxRestarts * n
  BY <1>8, <1>9
<1>11. QED
  BY <1>1, <1>10 DEF r, m, n

(* A start somebody asked for brings a budget of its own.                  *)
LEMMA StartBringsBudget ==
  ASSUME GenInv, BudgetInv, Begins
  PROVE  BudgetInv'
<1> DEFINE n == gen + 1
           New == {n} \X (1..MaxRestarts)
<1>1. /\ SupTypes /\ n \in Gens /\ start[n] = "none" /\ ~Up(live)
      /\ start' = [start EXCEPT ![n] = "exec"] /\ starter' = [starter EXCEPT ![n] = None]
      /\ UNCHANGED <<live, restarts, watch>>
  BY Numbers DEF GenInv, SupTypes, GenOK, Begins, BeginStart
<1>2. starter[n] = None /\ n \notin Asked
  BY <1>1 DEF GenInv, GenOK, Asked
<1>3. starter' = starter
  BY <1>1, <1>2 DEF SupTypes
<1>4. Restarted' = Restarted /\ Asked' = Asked \cup {n}
  BY <1>1, <1>3 DEF Restarted, Asked, SupTypes
<1>5. \A g \in Gens, i \in 1..MaxRestarts : May(g, i)' => g = n \/ May(g, i)
  BY <1>1, <1>3 DEF May, Count, SupTypes
<1>6. Left' \subseteq Left \cup New
  BY <1>5 DEF Left
<1>7. IsFiniteSet(New) /\ Cardinality(New) = MaxRestarts
  <2>1. IsFiniteSet({n}) /\ Cardinality({n}) = 1
    BY FS_Singleton
  <2>2. IsFiniteSet(1..MaxRestarts) /\ Cardinality(1..MaxRestarts) = MaxRestarts
    BY Numbers, FS_Interval
  <2>3. IsFiniteSet(New) /\ Cardinality(New) = Cardinality({n}) * Cardinality(1..MaxRestarts)
    BY <2>1, <2>2, FS_Product, Zenon
  <2>4. QED
    BY <2>1, <2>2, <2>3, Numbers
<1> HIDE DEF New
<1>8. /\ IsFiniteSet(Left \cup New)
      /\ Cardinality(Left \cup New)
           = Cardinality(Left) + Cardinality(New) - Cardinality(Left \cap New)
      /\ Cardinality(Left \cap New) \in Nat
  BY <1>7, FiniteCounts, FS_Union, FS_Subset, FS_CardinalityType
<1>9. IsFiniteSet(Left') /\ Cardinality(Left') <= Cardinality(Left \cup New)
  BY <1>6, <1>8, FS_Subset
<1>10. Cardinality(Asked') = Cardinality(Asked) + 1
  BY <1>2, <1>4, FiniteCounts, FS_AddElement
<1> DEFINE r == Cardinality(Restarted)
           l == Cardinality(Left)
           m == Cardinality(Left')
           k == Cardinality(Asked)
<1>11. /\ r \in Nat /\ l \in Nat /\ m \in Nat /\ k \in Nat /\ MaxRestarts \in Nat
       /\ m <= l + MaxRestarts /\ r + l <= MaxRestarts * k
  <2>1. m \in Nat
    BY <1>9, FS_CardinalityType
  <2>2. QED
    BY <2>1, <1>7, <1>8, <1>9, FiniteCounts, FS_CardinalityType, Numbers DEF BudgetInv
<1> HIDE DEF r, l, m, k
<1>12. MaxRestarts * (k + 1) = MaxRestarts * k + MaxRestarts /\ MaxRestarts * k \in Nat
  BY <1>11
<1>13. r + m <= MaxRestarts * (k + 1)
  BY <1>11, <1>12
<1>14. \A g \in Gens : watch'[g] = "backoff" => MaxRestarts # 0
  BY <1>1 DEF BudgetInv
<1>15. QED
  BY <1>4, <1>10, <1>13, <1>14 DEF BudgetInv, r, m, k

(* A restart uses up one that was left to its watcher.                     *)
LEMMA RestartUsesBudget ==
  ASSUME GenInv, BudgetInv, NEW h \in Gens, Restarts(h)
  PROVE  BudgetInv'
<1>0. PICK n : n = gen + 1
  OBVIOUS
<1>1. /\ SupTypes /\ n \in Gens /\ start[n] = "none" /\ watch[h] = "backoff" /\ live' = None
      /\ start' = [start EXCEPT ![n] = "exec"] /\ starter' = [starter EXCEPT ![n] = h]
      /\ watch' = [watch EXCEPT ![h] = "restarting"] /\ UNCHANGED restarts
  BY <1>0, Numbers DEF GenInv, SupTypes, GenOK, Restarts, BeginStart
<1>2. /\ starter[n] = None /\ start[h] = "done" /\ h # n /\ watch[n] = "none"
      /\ n \notin Restarted /\ h # None
  BY <1>1, Numbers DEF GenInv, GenOK, Restarted
<1>3. Restarted' = Restarted \cup {n} /\ Asked' = Asked
  BY <1>1, <1>2 DEF Restarted, Asked, SupTypes
<1>4. \A g \in Gens, i \in 1..MaxRestarts : g # n /\ May(g, i)' => g # h /\ May(g, i)
  BY <1>1, <1>2, Numbers DEF May, Count, SupTypes
<1>5. \A i \in 1..MaxRestarts : May(n, i)' => restarts[h] + 1 < i
  <2>1. starter'[n] = h /\ watch'[n] = "none" /\ restarts' = restarts
    BY <1>1, <1>2 DEF SupTypes
  <2>2. Count(n)' = restarts[h] + 1
    BY <1>2, <2>1 DEF Count
  <2>3. QED
    BY <2>1, <2>2 DEF May
<1>6. \A i \in 1..MaxRestarts : May(h, i) <=> restarts[h] < i \/ i = MaxRestarts
  BY <1>1, <1>2 DEF May, Count, SupTypes
<1>7. restarts[h] \in Nat /\ MaxRestarts \in Nat \ {0}
  BY <1>1, Numbers DEF SupTypes, BudgetInv
<1> DEFINE u == IF restarts[h] + 1 < MaxRestarts THEN restarts[h] + 1 ELSE MaxRestarts
           P == Left \ {<<h, u>>}
<1>8. u \in 1..MaxRestarts /\ May(h, u) /\ u <= restarts[h] + 1
  BY <1>6, <1>7
<1> HIDE DEF u
<1>9. <<h, u>> \in Left
  BY <1>8 DEF Left
<1>10. \A x \in Left' : x[1] # h
  <2>1. SUFFICES ASSUME NEW g \in Gens, NEW i \in 1..MaxRestarts, May(g, i)' PROVE g # h
    BY DEF Left
  <2>2. QED
    BY <1>2, <1>4, <2>1
<1>11. \A x \in Left' : x \in P \/ (x[1] = n /\ <<h, x[2]>> \in P)
  <2>1. SUFFICES ASSUME NEW g \in Gens, NEW i \in 1..MaxRestarts, May(g, i)'
                 PROVE  <<g, i>> \in P \/ (g = n /\ <<h, i>> \in P)
    BY DEF Left
  <2>2. CASE g = n
    <3>1. restarts[h] + 1 < i
      BY <1>5, <2>1, <2>2
    <3>2. May(h, i)
      BY <1>6, <1>7, <3>1
    <3>3. i # u
      BY <1>7, <1>8, <3>1
    <3>4. QED
      BY <2>2, <3>2, <3>3 DEF Left
  <2>3. CASE g # n
    BY <1>4, <2>1, <2>3 DEF Left
  <2>4. QED
    BY <2>2, <2>3
<1>12. IsFiniteSet(P) /\ Cardinality(P) = Cardinality(Left) - 1
  BY <1>9, FiniteCounts, FS_RemoveElement
<1> HIDE DEF P
<1>13. Left' \subseteq Gens \X (1..MaxRestarts)
  BY DEF Left
<1>14. Cardinality(Left') <= Cardinality(P)
  BY <1>10, <1>11, <1>12, <1>13, Moves
<1>15. Cardinality(Restarted') = Cardinality(Restarted) + 1
  BY <1>2, <1>3, FiniteCounts, FS_AddElement
<1>16. Cardinality(Left') \in Nat
  BY <1>13, FiniteCounts, FS_Subset, FS_CardinalityType
<1> DEFINE r == Cardinality(Restarted)
           l == Cardinality(Left)
           m == Cardinality(Left')
           k == MaxRestarts * Cardinality(Asked)
<1>17. /\ r \in Nat /\ l \in Nat /\ m \in Nat /\ m <= l - 1 /\ r + l <= k /\ k \in Nat
  BY <1>12, <1>14, <1>16, FiniteCounts, Numbers DEF BudgetInv
<1> HIDE DEF r, l, m, k
<1>18. (r + 1) + m <= k
  BY <1>17
<1>19. \A g \in Gens : watch'[g] = "backoff" => MaxRestarts # 0
  BY <1>7
<1>20. QED
  BY <1>3, <1>15, <1>18, <1>19 DEF BudgetInv, r, m, k

(* A generation that becomes ready hands its count to what is in _live: to *)
(* itself, or to the generation that replaced it, and then its own watcher *)
(* restarts nothing.                                                       *)
LEMMA ReadyKeepsBudget ==
  ASSUME GenInv, BudgetInv, [Next]_vars, NEW g \in Gens, BecomesReady(g)
  PROVE  BudgetInv'
<1>1. SupTypes /\ \A k \in Gens : GenOK(k)
  BY DEF GenInv
<1>2. PICK h \in Gens \cup {None} : h = starter[g]
  BY <1>1 DEF SupTypes
<1>3. /\ start[g] = "readiness" /\ start' = [start EXCEPT ![g] = "done"]
      /\ watch' = [WatchOver(h) EXCEPT ![g] = "watching"]
      /\ restarts' = IF h = None \/ live = None THEN restarts
                     ELSE [restarts EXCEPT ![live] = restarts[h] + 1]
      /\ UNCHANGED <<live, starter>>
  BY <1>2 DEF BecomesReady
<1>4. /\ live \in Gens \cup {None} /\ watch[g] = "none"
      /\ h # None => h # g /\ h # live /\ watch[h] \in {"restarting", "over"} /\ start[h] = "done"
      /\ \A k \in Gens : starter[k] # None => starter[k] # live /\ starter[k] \in Gens
  BY <1>1, <1>2, <1>3 DEF SupTypes, GenOK
<1>5. /\ watch'[g] = "watching" /\ start'[g] = "done"
      /\ \A k \in Gens : k # g => start'[k] = start[k]
      /\ \A k \in Gens : k # g /\ k # h => watch'[k] = watch[k]
      /\ h # None => watch'[h] = "over"
  BY <1>1, <1>3, <1>4, Numbers DEF WatchOver, SupTypes
<1>6. /\ \A k \in Gens : k # live => restarts'[k] = restarts[k]
      /\ h = None \/ live = None => restarts' = restarts
      /\ h # None /\ live # None => restarts'[live] = restarts[h] + 1
  BY <1>1, <1>3, <1>4 DEF SupTypes
<1>7. Count(g) = IF h = None THEN restarts[g] ELSE restarts[h] + 1
  BY <1>2, <1>4 DEF Count
<1>8. ASSUME NEW k \in Gens, k # g, k # live \/ h = None
      PROVE  \A i \in 1..MaxRestarts : May(k, i)' => May(k, i)
  <2>1. CASE k = h
    BY <1>3, <1>4, <1>5, <1>8, <2>1, Numbers DEF May
  <2>2. CASE k # h
    <3>1. start'[k] = start[k] /\ watch'[k] = watch[k] /\ restarts'[k] = restarts[k]
      BY <1>5, <1>6, <1>8, <2>2
    <3>2. starter[k] # None => restarts'[starter[k]] = restarts[starter[k]]
      BY <1>4, <1>6
    <3>3. Count(k)' = Count(k)
      BY <1>3, <3>1, <3>2 DEF Count
    <3>4. QED
      BY <1>3, <3>1, <3>3 DEF May
  <2>3. QED
    BY <2>1, <2>2
<1>9. \A k \in Gens : watch'[k] = "backoff" => MaxRestarts # 0
  BY <1>5, Numbers DEF BudgetInv
<1>10. UNCHANGED starter /\ Asked \subseteq Asked'
  BY <1>3, AskedGrows
<1>11. CASE live = g
  <2>1. Count(g)' = Count(g)
    BY <1>3, <1>5, <1>6, <1>7, <1>11, Numbers DEF Count
  <2>2. \A i \in 1..MaxRestarts : May(g, i)' => May(g, i)
    BY <1>3, <1>5, <2>1 DEF May
  <2>3. \A k \in Gens, i \in 1..MaxRestarts : May(k, i)' => k # None /\ May(k, i)
    BY <1>8, <1>11, <2>2, Numbers
  <2>4. Cardinality(Restarted') + Cardinality(Left') <= MaxRestarts * Cardinality(Asked')
    BY <1>10, <2>3, LessLeft
  <2>5. QED
    BY <1>9, <2>4 DEF BudgetInv
<1>12. CASE live # g
  <2>1. \A i \in 1..MaxRestarts : ~May(g, i)'
    BY <1>3, <1>5, <1>12 DEF May
  <2>2. ASSUME NEW k \in Gens, k = live, h # None, NEW i \in 1..MaxRestarts, May(k, i)'
        PROVE  May(k, i) \/ May(g, i)
    <3>1. k # g /\ k # h /\ start'[k] = start[k] /\ watch'[k] = watch[k] /\ live # None
      BY <1>4, <1>5, <1>12, <2>2, Numbers
    <3>2. CASE starter[k] # None /\ watch[k] = "none"
      <4>1. restarts'[starter[k]] = restarts[starter[k]]
        BY <1>4, <1>6, <3>2
      <4>2. Count(k)' = Count(k)
        BY <1>3, <3>1, <3>2, <4>1 DEF Count
      <4>3. QED
        BY <1>3, <2>2, <3>1, <4>2 DEF May
    <3>3. CASE ~(starter[k] # None /\ watch[k] = "none")
      <4>1. Count(k)' = Count(g)
        BY <1>3, <1>6, <1>7, <2>2, <3>1, <3>3 DEF Count
      <4>2. Count(g) < i \/ (watch[k] = "backoff" /\ i = MaxRestarts)
        BY <2>2, <3>1, <4>1 DEF May
      <4>3. QED
        BY <1>3, <4>2 DEF May
    <3>4. QED
      BY <3>2, <3>3
  <2>3. \A k \in Gens, i \in 1..MaxRestarts :
          May(k, i)' => k # g /\ (May(k, i) \/ (k = live /\ g \in Gens /\ May(g, i)))
    BY <1>8, <2>1, <2>2
  <2>4. Cardinality(Restarted') + Cardinality(Left') <= MaxRestarts * Cardinality(Asked')
    BY <1>10, <2>3, LessLeft
  <2>5. QED
    BY <1>9, <2>4 DEF BudgetInv
<1>13. QED
  BY <1>11, <1>12

(* The other steps start nothing and leave no more than before.            *)
LEMMA OthersKeepBudget ==
  ASSUME GenInv, BudgetInv, [Next]_vars, UNCHANGED <<starter, restarts>>, live' \in {live, None},
         \A k \in Gens :
           /\ start'[k] = start[k] \/ start'[k] = "failed"
           /\ \/ watch'[k] = watch[k]
              \/ watch[k] # "none" /\ watch'[k] = "over"
              \/ /\ watch[k] = "watching" /\ live = k /\ restarts[k] < MaxRestarts
                 /\ watch'[k] = "backoff"
  PROVE  BudgetInv'
<1>1. SupTypes
  BY DEF GenInv
<1>2. ASSUME NEW k \in Gens, NEW i \in 1..MaxRestarts, May(k, i)'
      PROVE  May(k, i)
  <2>1. Count(k)' = Count(k)
    BY DEF Count
  <2>2. CASE watch'[k] = watch[k]
    BY <1>2, <2>1, <2>2, Numbers DEF May
  <2>3. CASE watch[k] # "none" /\ watch'[k] = "over"
    BY <1>2, <2>1, <2>3 DEF May
  <2>4. CASE /\ watch[k] = "watching" /\ live = k /\ restarts[k] < MaxRestarts
             /\ watch'[k] = "backoff"
    <3>1. Count(k) = restarts[k]
      BY <2>4 DEF Count
    <3>2. QED
      BY <1>2, <2>1, <2>4, <3>1 DEF May
  <2>5. QED
    BY <2>2, <2>3, <2>4
<1>3. \A k \in Gens : watch'[k] = "backoff" => MaxRestarts # 0
  BY <1>1, Numbers DEF BudgetInv, SupTypes
<1>4. \A k \in Gens, i \in 1..MaxRestarts : May(k, i)' => k # None /\ May(k, i)
  BY <1>2, Numbers
<1>5. QED
  BY <1>3, <1>4, LessLeft, AskedGrows DEF BudgetInv

(* A package is restarted at most max_attempts times for every start it    *)
(* was given, for any number of starts, concurrent ones included: what a   *)
(* replacement is given is what its watcher had left.                      *)
THEOREM RestartsBudgeted == Spec => []RestartBudget
<1>1. Init => BudgetInv
  <2>1. SUFFICES ASSUME Init PROVE BudgetInv
    OBVIOUS
  <2>2. Restarted = {} /\ Asked = {}
    BY <2>1 DEF Init, Restarted, Asked
  <2>3. \A g \in Gens, i \in 1..MaxRestarts : ~May(g, i)
    BY <2>1 DEF Init, May
  <2>4. Left = {}
    BY <2>3 DEF Left
  <2>5. QED
    BY <2>1, <2>2, <2>4, FS_EmptySet, Numbers DEF BudgetInv, Init
<1>2. ASSUME GenInv, BudgetInv, [Next]_vars
      PROVE  BudgetInv'
  <2>1. SupTypes
    BY <1>2 DEF GenInv
  <2>2. CASE Begins
    BY <1>2, <2>2, StartBringsBudget
  <2>3. CASE TakesLive \/ Untouched \/ \E g \in Gens : Exits(g)
    <3>1. UNCHANGED <<starter, restarts, start, watch>> /\ live' \in {live, None}
      BY <2>3 DEF TakesLive, BeginStop, Untouched, Exits, supVars
    <3>2. QED
      BY <1>2, <3>1, OthersKeepBudget
  <2>4. ASSUME NEW g \in Gens, Spawned(g)
        PROVE  BudgetInv'
    <3>1. /\ start[g] = "exec" /\ start' = [start EXCEPT ![g] = "readiness"]
          /\ live' = g /\ UNCHANGED <<starter, restarts, watch>>
      BY <2>4 DEF Spawned
    <3>2. watch[g] = "none"
      BY <1>2, <3>1 DEF GenInv, GenOK
    <3>3. \A k \in Gens, i \in 1..MaxRestarts : May(k, i)' => k # None /\ May(k, i)
      BY <2>1, <3>1, <3>2, Numbers DEF May, Count, SupTypes
    <3>4. QED
      BY <1>2, <3>1, <3>3, LessLeft, AskedGrows DEF BudgetInv
  <2>5. ASSUME NEW g \in Gens, SpawnFails(g) \/ ReadinessFails(g)
        PROVE  BudgetInv'
    <3>1. /\ start[g] \in {"exec", "readiness"} /\ start' = [start EXCEPT ![g] = "failed"]
          /\ watch' = WatchOver(starter[g]) /\ live' \in {live, None}
          /\ UNCHANGED <<starter, restarts>>
      BY <2>5 DEF SpawnFails, ReadinessFails
    <3>2. starter[g] # None => starter[g] \in Gens /\ watch[starter[g]] # "none"
      BY <1>2, <2>1 DEF GenInv, GenOK, SupTypes
    <3>3. \A k \in Gens : /\ start'[k] = start[k] \/ start'[k] = "failed"
                          /\ \/ watch'[k] = watch[k]
                             \/ watch[k] # "none" /\ watch'[k] = "over"
      BY <2>1, <3>1, <3>2 DEF WatchOver, SupTypes
    <3>4. QED
      BY <1>2, <3>1, <3>3, OthersKeepBudget
  <2>6. ASSUME NEW g \in Gens, BecomesReady(g)
        PROVE  BudgetInv'
    BY <1>2, <2>6, ReadyKeepsBudget
  <2>7. ASSUME NEW g \in Gens, WatchWakes(g) \/ Forgone(g)
        PROVE  BudgetInv'
    <3>1. UNCHANGED <<starter, restarts, start, live>>
      BY <2>7 DEF WatchWakes, Forgone, supVars
    <3>2. \A k \in Gens :
            \/ watch'[k] = watch[k]
            \/ watch[k] # "none" /\ watch'[k] = "over"
            \/ /\ watch[k] = "watching" /\ live = k /\ restarts[k] < MaxRestarts
               /\ watch'[k] = "backoff"
      BY <2>1, <2>7, Numbers DEF WatchWakes, Forgone, WatchOver, SupTypes
    <3>3. QED
      BY <1>2, <3>1, <3>2, OthersKeepBudget
  <2>8. ASSUME NEW g \in Gens, Restarts(g)
        PROVE  BudgetInv'
    BY <1>2, <2>8, RestartUsesBudget
  <2>9. QED
    BY <1>2, <2>2, <2>3, <2>4, <2>5, <2>6, <2>7, <2>8, SupSteps DEF StartStep, WatchStep
<1>3. BudgetInv => RestartBudget
  <2>1. SUFFICES ASSUME BudgetInv PROVE Cardinality(Restarted) <= MaxRestarts * Cardinality(Asked)
    BY DEF RestartBudget, Restarted
  <2> DEFINE r == Cardinality(Restarted)
             l == Cardinality(Left)
             k == MaxRestarts * Cardinality(Asked)
  <2>2. r \in Nat /\ l \in Nat /\ k \in Nat /\ r + l <= k
    BY <2>1, FiniteCounts, Numbers DEF BudgetInv
  <2> HIDE DEF r, l, k
  <2>3. r <= k
    BY <2>2
  <2>4. QED
    BY <2>3 DEF r, k
<1>4. QED
  BY <1>1, <1>2, <1>3, GenInvariant, PTL DEF Spec

-----------------------------------------------------------------------------
(* The operations.                                                         *)
OpTypes ==
  op \in [Ops -> [at : Places, expects : Gens \cup {None}, target : Gens \cup {None},
                  free : BOOLEAN]]

(* What a step does to the calls: nothing, or one call moves on.           *)
Moved(o) == \A p \in Ops : p # o => op'[p] = op[p]

(* A call that is on its way to end an idle Worker, or has begun to.       *)
Evicting(o) == Kind[o] = "evict" /\ op[o].at \in {"probe", "answered", "stopping"}

OpOK(o) ==
  /\ op[o].at = "waiting" => Kind[o] = "drain"
  /\ op[o].at = "chosen" => Kind[o] = "evict"
  /\ Evicting(o) => closed
  /\ Evicting(o) /\ op[o].at # "stopping" => op[o].target # None

(* Admission is closed for one eviction at a time, and nobody is served    *)
(* while it is.                                                            *)
EvictInv ==
  /\ OpTypes
  /\ \A o \in Ops : OpOK(o)
  /\ \A o, p \in Ops : Evicting(o) /\ Evicting(p) => o = p
  /\ closed => busy = {}

(* Only the steps of the calls write to them.                              *)
LEMMA OpSteps ==
  ASSUME [Next]_vars
  PROVE  \/ UNCHANGED <<op, closed>> /\ (busy' \subseteq busy \/ ~closed)
         \/ \E o \in Ops : OpStep(o)
<1>1. ASSUME NEW g \in Gens,
             StartStep(g) \/ WatchStep(g) \/ Crashes(g) \/ Stopped(g) \/ RequestEnds(g)
      PROVE  UNCHANGED <<op, closed>> /\ busy' \subseteq busy
  BY <1>1 DEF StartStep, Spawned, SpawnFails, BecomesReady, ReadinessFails, WatchStep, WatchWakes,
              Restarts, Forgone, Crashes, Stopped, Ends, RequestEnds, workerVars
<1>2. CASE RequestArrives
  BY <1>2 DEF RequestArrives
<1>3. CASE UNCHANGED vars
  BY <1>3 DEF vars, workerVars
<1>4. QED
  BY <1>1, <1>2, <1>3 DEF Next

(* A snapshot is asked for: the call waits for its answer.                 *)
LEMMA AsksMoves ==
  ASSUME OpTypes, SupTypes, NEW o \in Ops, Asks(o)
  PROVE  /\ Moved(o) /\ OpTypes'
         /\ op'[o].at = "probe" /\ op'[o].target = live /\ op'[o].expects = op[o].expects
         /\ op'[o].free => ~Up(live)
<1> DEFINE f == ~Up(live)
<1>1. f \in BOOLEAN
  OBVIOUS
<1>2. op' = [op EXCEPT ![o].at = "probe", ![o].target = live, ![o].free = f]
  BY DEF Asks
<1> HIDE DEF f
<1>3. /\ Moved(o) /\ OpTypes'
      /\ op'[o].at = "probe" /\ op'[o].target = live /\ op'[o].expects = op[o].expects
      /\ op'[o].free = f
  BY <1>1, <1>2 DEF OpTypes, SupTypes, Moved, Places
<1>4. QED
  BY <1>3 DEF f

(* The answer: the Worker was seen idle, before or just now.               *)
LEMMA ProbedMoves ==
  ASSUME OpTypes, NEW o \in Ops, Probed(o)
  PROVE  /\ Moved(o) /\ OpTypes'
         /\ op'[o].at = "answered" /\ op'[o].target = op[o].target
         /\ op'[o].expects = op[o].expects
         /\ op'[o].free => op[o].free \/ op[o].target \notin busy
<1> DEFINE f == op[o].free \/ (Up(op[o].target) /\ op[o].target \notin busy)
<1>1. f \in BOOLEAN
  OBVIOUS
<1>2. op' = [op EXCEPT ![o].at = "answered", ![o].free = f]
  BY DEF Probed
<1> HIDE DEF f
<1>3. /\ Moved(o) /\ OpTypes'
      /\ op'[o].at = "answered" /\ op'[o].target = op[o].target
      /\ op'[o].expects = op[o].expects /\ op'[o].free = f
  BY <1>1, <1>2 DEF OpTypes, Moved, Places
<1>4. QED
  BY <1>3 DEF f

(* A call goes somewhere, or begins to stop what is in _live.              *)
LEMMA GoesMoves ==
  ASSUME OpTypes, SupTypes, NEW o \in Ops, NEW x \in Places,
         Goes(o, x) \/ op' = [op EXCEPT ![o].at = x, ![o].target = live]
                    \/ (live # None /\ op' = [op EXCEPT ![o].at = x, ![o].expects = live])
  PROVE  /\ Moved(o) /\ OpTypes' /\ op'[o].at = x
         /\ Goes(o, x) => op'[o].expects = op[o].expects /\ op'[o].target = op[o].target
         /\ op' = [op EXCEPT ![o].at = x, ![o].expects = live] => op'[o].expects = live
  BY DEF Goes, OpTypes, SupTypes, Moved

(* A call moves on: admission stays as it is, is closed by the call that   *)
(* found nobody served, or is opened again by the one that closed it.      *)
LEMMA CallKeepsEvict ==
  ASSUME EvictInv, NEW o \in Ops, Moved(o), OpTypes', busy' = busy, OpOK(o)',
         \/ closed' = closed /\ (Evicting(o)' => Evicting(o))
         \/ ~closed /\ busy = {}
         \/ ~closed' /\ Evicting(o) /\ ~Evicting(o)'
  PROVE  EvictInv'
<1>1. ASSUME NEW p \in Ops, p # o
      PROVE  /\ Evicting(p)' <=> Evicting(p)
             /\ OpOK(p)'
  <2>1. op'[p] = op[p]
    BY <1>1 DEF Moved
  <2>2. Evicting(p)' <=> Evicting(p)
    BY <2>1 DEF Evicting
  <2>3. Evicting(p) => closed'
    BY <1>1 DEF EvictInv, OpOK
  <2>4. QED
    BY <2>1, <2>2, <2>3 DEF EvictInv, OpOK
<1>2. ASSUME NEW p \in Ops, NEW q \in Ops, Evicting(p)', Evicting(q)'
      PROVE  p = q
  BY <1>1, <1>2 DEF EvictInv, OpOK
<1>3. \A p \in Ops : OpOK(p)'
  BY <1>1
<1>4. closed' => busy' = {}
  BY DEF EvictInv
<1>5. QED
  BY <1>2, <1>3, <1>4 DEF EvictInv

(* The steps of the calls keep the admission of one eviction.              *)
LEMMA OpStepKeepsEvict ==
  ASSUME EvictInv, SupTypes, NEW o \in Ops, OpStep(o)
  PROVE  EvictInv' /\ Moved(o)
<1>1. OpTypes /\ OpOK(o)
  BY DEF EvictInv
<1>2. CASE CallStart(o) \/ DrainTimesOut(o)
  <2>1. Goes(o, "over") /\ busy' = busy /\ closed' = closed
    BY <1>2 DEF CallStart, DrainTimesOut, workerVars
  <2>2. Moved(o) /\ OpTypes' /\ op'[o].at = "over"
    BY <1>1, <2>1, GoesMoves DEF Places
  <2>3. QED
    BY <2>1, <2>2, CallKeepsEvict DEF OpOK, Evicting
<1>3. CASE CallStop(o)
  <2>1. /\ op' = [op EXCEPT ![o].at = "stopping", ![o].target = live]
        /\ busy' = busy /\ closed' = closed /\ Kind[o] = "stop"
    BY <1>3 DEF CallStop, workerVars
  <2>2. Moved(o) /\ OpTypes' /\ op'[o].at = "stopping"
    BY <1>1, <2>1, GoesMoves DEF Places
  <2>3. QED
    BY <2>1, <2>2, CallKeepsEvict DEF OpOK, Evicting
<1>4. CASE StopReturns(o)
  <2>1. /\ Goes(o, "over") /\ op[o].at = "stopping" /\ busy' = busy
        /\ closed' = IF Kind[o] = "evict" THEN FALSE ELSE closed
    BY <1>4 DEF StopReturns, workerVars
  <2>2. Moved(o) /\ OpTypes' /\ op'[o].at = "over"
    BY <1>1, <2>1, GoesMoves DEF Places
  <2>3. OpOK(o)' /\ ~Evicting(o)'
    BY <2>2 DEF OpOK, Evicting
  <2>4. CASE Kind[o] = "evict"
    <3>1. Evicting(o) /\ ~closed'
      BY <2>1, <2>4 DEF Evicting
    <3>2. QED
      BY <2>1, <2>2, <2>3, <3>1, CallKeepsEvict
  <2>5. CASE Kind[o] # "evict"
    BY <2>1, <2>2, <2>3, <2>5, CallKeepsEvict
  <2>6. QED
    BY <2>4, <2>5
<1>5. CASE Choose(o)
  <2>1. /\ op' = [op EXCEPT ![o] = [at |-> "chosen", expects |-> gen, target |-> live,
                                    free |-> FALSE]]
        /\ busy' = busy /\ closed' = closed /\ Kind[o] = "evict"
    BY <1>5 DEF Choose, workerVars
  <2>2. Moved(o) /\ OpTypes' /\ op'[o].at = "chosen"
    BY <1>1, <2>1, Numbers DEF OpTypes, Moved, Places, SupTypes, Gens, None
  <2>3. QED
    BY <2>1, <2>2, CallKeepsEvict DEF OpOK, Evicting
<1>6. CASE BeginEvict(o)
  <2>1. busy' = busy /\ busy = {} /\ ~closed /\ Kind[o] = "evict"
    BY <1>1, <1>6 DEF BeginEvict, workerVars, OpOK
  <2>2. CASE Goes(o, "over")
    <3>1. Moved(o) /\ OpTypes' /\ op'[o].at = "over"
      BY <1>1, <2>2, GoesMoves DEF Places
    <3>2. QED
      BY <2>1, <3>1, CallKeepsEvict DEF OpOK, Evicting
  <2>3. CASE Asks(o) /\ closed' = TRUE /\ live # None
    <3>1. Moved(o) /\ OpTypes' /\ op'[o].at = "probe" /\ op'[o].target = live
      BY <1>1, <2>3, AsksMoves
    <3>2. QED
      BY <2>1, <2>3, <3>1, CallKeepsEvict DEF OpOK, Evicting
  <2>4. QED
    BY <1>6, <2>2, <2>3 DEF BeginEvict
<1>7. CASE BeginExit(o) \/ AwaitIdle(o)
  <2>1. Asks(o) /\ busy' = busy /\ closed' = closed /\ Kind[o] \in {"exit", "drain"}
    BY <1>1, <1>7 DEF BeginExit, AwaitIdle, workerVars, OpOK
  <2>2. Moved(o) /\ OpTypes' /\ op'[o].at = "probe"
    BY <1>1, <2>1, AsksMoves
  <2>3. QED
    BY <2>1, <2>2, CallKeepsEvict DEF OpOK, Evicting
<1>8. CASE Drain(o)
  <2>1. /\ op' = [op EXCEPT ![o].at = "waiting", ![o].expects = live] /\ live # None
        /\ busy' = busy /\ closed' = closed /\ Kind[o] = "drain"
    BY <1>8 DEF Drain, Up
  <2>2. Moved(o) /\ OpTypes' /\ op'[o].at = "waiting"
    BY <1>1, <2>1, GoesMoves DEF Places
  <2>3. QED
    BY <2>1, <2>2, CallKeepsEvict DEF OpOK, Evicting
<1>9. CASE Probed(o)
  <2>1. busy' = busy /\ closed' = closed /\ op[o].at = "probe"
    BY <1>9 DEF Probed, workerVars
  <2>2. Moved(o) /\ OpTypes' /\ op'[o].at = "answered" /\ op'[o].target = op[o].target
    BY <1>1, <1>9, ProbedMoves
  <2>3. QED
    BY <1>1, <2>1, <2>2, CallKeepsEvict DEF OpOK, Evicting
<1>10. CASE Decide(o)
  <2>1. busy' = busy /\ op[o].at = "answered"
    BY <1>10 DEF Decide, workerVars
  <2>2. CASE MayStop(o)
    <3>1. op' = [op EXCEPT ![o].at = "stopping", ![o].target = live] /\ closed' = closed
      BY <1>10, <2>2 DEF Decide
    <3>2. Moved(o) /\ OpTypes' /\ op'[o].at = "stopping"
      BY <1>1, <3>1, GoesMoves DEF Places
    <3>3. QED
      BY <1>1, <2>1, <3>1, <3>2, CallKeepsEvict DEF OpOK, Evicting
  <2>3. CASE ~MayStop(o)
    <3>1. PICK x \in {"waiting", "over"} :
            Goes(o, x) /\ (x = "waiting" <=> Kind[o] = "drain")
      BY <1>10, <2>3 DEF Decide
    <3>2. closed' = IF Kind[o] = "evict" THEN FALSE ELSE closed
      BY <1>10, <2>3 DEF Decide
    <3>3. Moved(o) /\ OpTypes' /\ op'[o].at = x
      BY <1>1, <3>1, GoesMoves DEF Places
    <3>4. OpOK(o)' /\ ~Evicting(o)'
      BY <3>1, <3>3 DEF OpOK, Evicting
    <3>5. CASE Kind[o] = "evict"
      <4>1. Evicting(o) /\ ~closed'
        BY <2>1, <3>2, <3>5 DEF Evicting
      <4>2. QED
        BY <2>1, <3>3, <3>4, <4>1, CallKeepsEvict
    <3>6. CASE Kind[o] # "evict"
      BY <2>1, <3>2, <3>3, <3>4, <3>6, CallKeepsEvict
    <3>7. QED
      BY <3>5, <3>6
  <2>4. QED
    BY <2>2, <2>3
<1>11. QED
  BY <1>2, <1>3, <1>4, <1>5, <1>6, <1>7, <1>8, <1>9, <1>10 DEF OpStep

(* One eviction at a time, in every state.                                 *)
LEMMA EvictInvariant == Spec => []EvictInv
<1>1. Init => EvictInv
  BY DEF Init, EvictInv, OpTypes, OpOK, Evicting, Idle, Places
<1>2. ASSUME GenInv, EvictInv, [Next]_vars
      PROVE  EvictInv'
  <2>1. CASE UNCHANGED <<op, closed>> /\ (busy' \subseteq busy \/ ~closed)
    <3>1. OpTypes' /\ (closed' => busy' = {})
      BY <1>2, <2>1 DEF EvictInv, OpTypes
    <3>2. \A o \in Ops : OpOK(o)' /\ (Evicting(o)' <=> Evicting(o))
      BY <1>2, <2>1 DEF EvictInv, OpOK, Evicting
    <3>3. QED
      BY <1>2, <3>1, <3>2 DEF EvictInv
  <2>2. ASSUME NEW o \in Ops, OpStep(o)
        PROVE  EvictInv'
    BY <1>2, <2>2, OpStepKeepsEvict DEF GenInv
  <2>3. QED
    BY <1>2, <2>1, <2>2, OpSteps
<1>3. QED
  BY <1>1, <1>2, GenInvariant, PTL DEF Spec

(* A call that goes from its snapshot to stop() has just decided to.       *)
LEMMA StopsByDecision ==
  ASSUME EvictInv, SupTypes, [Next]_vars, NEW o \in Ops, Stops(o)
  PROVE  MayStop(o) /\ op[o].at = "answered"
<1>1. OpTypes /\ op[o].at = "answered" /\ op'[o].at = "stopping" /\ op'[o] # op[o]
  BY DEF EvictInv, Stops
<1>2. PICK p \in Ops : OpStep(p)
  BY <1>1, OpSteps
<1>3. p = o
  BY <1>1, <1>2, OpStepKeepsEvict DEF Moved
<1>4. CASE Decide(o)
  <2>1. SUFFICES ASSUME ~MayStop(o) PROVE FALSE
    BY <1>1
  <2>2. PICK x \in {"waiting", "over"} : Goes(o, x)
    BY <1>4, <2>1 DEF Decide
  <2>3. op'[o].at = x
    BY <1>1, <2>2, GoesMoves DEF Places
  <2>4. QED
    BY <1>1, <2>3
<1>5. CASE DrainTimesOut(o)
  <2>1. Goes(o, "over")
    BY <1>5 DEF DrainTimesOut
  <2>2. op'[o].at = "over"
    BY <1>1, <2>1, GoesMoves DEF Places
  <2>3. QED
    BY <1>1, <2>2
<1>6. CASE \/ CallStart(o) \/ CallStop(o) \/ StopReturns(o) \/ Choose(o) \/ BeginEvict(o)
           \/ BeginExit(o) \/ Drain(o) \/ AwaitIdle(o) \/ Probed(o)
  BY <1>1, <1>6 DEF CallStart, CallStop, StopReturns, Choose, BeginEvict, BeginExit, Drain,
                    AwaitIdle, Probed
<1>7. QED
  BY <1>2, <1>3, <1>4, <1>5, <1>6 DEF OpStep

(* An eviction never ends a Worker that serves somebody, and of a service  *)
(* that was started once it ends the generation the sweeper chose: for any *)
(* operations and interleavings between its snapshot and its stop.         *)
THEOREM EvictionsSpareTheBusy == Spec => EvictsTheIdle
<1> DEFINE Spares == \A o \in Ops : Kind[o] = "evict" /\ Stops(o) =>
             /\ live \notin busy
             /\ Cardinality(Asked) <= 1 => live = op[o].expects
<1>1. ASSUME GenInv, ChainInv, EvictInv, [Next]_vars
      PROVE  Spares
  <2>1. SUFFICES ASSUME NEW o \in Ops, Kind[o] = "evict", Stops(o)
                 PROVE  /\ live \notin busy
                        /\ Cardinality(Asked) <= 1 => live = op[o].expects
    OBVIOUS
  <2>2. MayStop(o) /\ op[o].at = "answered"
    BY <1>1, <2>1, StopsByDecision DEF GenInv
  <2>3. Evicting(o) /\ OpOK(o)
    BY <1>1, <2>1, <2>2 DEF Evicting, EvictInv
  <2>4. closed /\ op[o].target # None
    BY <2>2, <2>3 DEF OpOK
  <2>5. live \notin busy
    BY <1>1, <2>4 DEF EvictInv
  <2>6. ASSUME Cardinality(Asked) <= 1
        PROVE  live = op[o].expects
    <3>1. live \in {None, gen}
      BY <1>1, <2>6, AtMostOne DEF ChainInv, Chain
    <3>2. QED
      BY <2>1, <2>2, <2>4, <3>1 DEF MayStop
  <2>7. QED
    BY <2>5, <2>6
<1>2. QED
  BY <1>1, GenInvariant, ChainInvariant, EvictInvariant, PTL DEF Spec, EvictsTheIdle

-----------------------------------------------------------------------------
(* Drain and exit.                                                         *)

(* A process that was spawned is not spawned again: it does not come back  *)
(* to life, nor into _live.                                                *)
LEMMA SpawnedOnce ==
  ASSUME GenInv, [Next]_vars, NEW e \in Gens, start[e] \notin {"none", "exec"}
  PROVE  /\ start'[e] \notin {"none", "exec"}
         /\ live' = e => live = e
         /\ Up(e)' => Up(e)
<1>1. SupTypes /\ e # None
  BY Numbers DEF GenInv
<1>2. ASSUME NEW h, BeginStart(h), live' \in {live, None}, proc' = proc
      PROVE  start'[e] \notin {"none", "exec"} /\ (live' = e => live = e) /\ (Up(e)' => Up(e))
  <2>1. start' = [start EXCEPT ![gen + 1] = "exec"] /\ gen + 1 \in Gens
    BY <1>1, <1>2, Numbers DEF BeginStart, SupTypes
  <2>2. start[gen + 1] = "none"
    BY <1>1, <2>1 DEF GenInv, GenOK, SupTypes
  <2>3. QED
    BY <1>1, <1>2, <2>1, <2>2 DEF SupTypes, Up
<1>3. CASE Begins
  BY <1>2, <1>3 DEF Begins
<1>4. CASE TakesLive \/ Untouched
  BY <1>1, <1>4 DEF TakesLive, BeginStop, Untouched, supVars, Up
<1>5. ASSUME NEW g \in Gens, StartStep(g)
      PROVE  start'[e] \notin {"none", "exec"} /\ (live' = e => live = e) /\ (Up(e)' => Up(e))
  BY <1>1, <1>5 DEF StartStep, Spawned, SpawnFails, BecomesReady, ReadinessFails, workerVars,
                    SupTypes, Up
<1>6. ASSUME NEW g \in Gens, WatchStep(g) \/ Exits(g)
      PROVE  start'[e] \notin {"none", "exec"} /\ (live' = e => live = e) /\ (Up(e)' => Up(e))
  BY <1>1, <1>2, <1>6 DEF WatchStep, WatchWakes, Restarts, Forgone, Exits, supVars, workerVars,
                          SupTypes, Up
<1>7. QED
  BY <1>3, <1>4, <1>5, <1>6, SupSteps

(* One drain-and-exit at a time.                                           *)
OneDrain == \A o, p \in Ops : Kind[o] = "drain" /\ Kind[p] = "drain" => o = p

Draining(o) == Kind[o] = "drain" /\ op[o].at \in {"waiting", "probe", "answered"}

(* The Worker e that was drained accepts no request while it lives, and a  *)
(* snapshot that says it is idle stays true.                               *)
DrainOK(o, e) ==
  /\ e \in Gens /\ start[e] \notin {"none", "exec"}
  /\ Up(e) => e \in drained
  /\ op[o].at \in {"probe", "answered"} =>
       /\ live = e => op[o].target = e
       /\ op[o].free /\ op[o].target = e => e \notin busy

DrainInv ==
  /\ busy \subseteq Gens /\ \A g \in busy : Up(g)
  /\ \A o \in Ops : Draining(o) => DrainOK(o, op[o].expects)

(* A step of others, under one drain: the drained Worker stays drained.    *)
LEMMA OthersKeepDrain ==
  ASSUME GenInv, DrainInv, [Next]_vars, NEW o \in Ops, op'[o] = op[o], Draining(o)',
         \A e \in Gens : e \in drained /\ Up(e)' => e \in drained',
         \A e \in busy' : e \in busy \/ (e \notin drained /\ Up(e))
  PROVE  DrainOK(o, op[o].expects)'
<1>1. PICK e : e = op[o].expects
  OBVIOUS
<1>2. Draining(o) /\ DrainOK(o, e) /\ op'[o].expects = e
  BY <1>1 DEF Draining, DrainInv
<1>3. /\ start'[e] \notin {"none", "exec"}
      /\ live' = e => live = e
      /\ Up(e)' => Up(e)
  BY <1>2, SpawnedOnce DEF DrainOK
<1>4. Up(e)' => e \in drained'
  BY <1>2, <1>3 DEF DrainOK
<1>5. e \in busy' => e \in busy
  BY <1>2 DEF DrainOK
<1>6. op'[o].at \in {"probe", "answered"} =>
        /\ live' = e => op'[o].target = e
        /\ op'[o].free /\ op'[o].target = e => e \notin busy'
  BY <1>2, <1>3, <1>5 DEF DrainOK
<1>7. DrainOK(o, e)'
  BY <1>2, <1>3, <1>4, <1>6 DEF DrainOK
<1>8. QED
  BY <1>2, <1>7

(* The Workers that serve somebody are alive.                              *)
LEMMA BusyAlive ==
  ASSUME GenInv, DrainInv, [Next]_vars
  PROVE  /\ \A g \in busy' : Up(g)'
         /\ busy' \subseteq Gens
<1>1. SupTypes
  BY DEF GenInv
<1>2. ASSUME NEW g \in Gens, Crashes(g) \/ Stopped(g)
      PROVE  (\A k \in busy' : Up(k)') /\ busy' \subseteq Gens
  BY <1>1, <1>2 DEF Crashes, Stopped, Ends, DrainInv, Up, SupTypes
<1>3. ASSUME NEW g \in Gens, Spawned(g)
      PROVE  (\A k \in busy' : Up(k)') /\ busy' \subseteq Gens
  BY <1>1, <1>3 DEF Spawned, DrainInv, Up, SupTypes
<1>4. CASE RequestArrives
  BY <1>1, <1>4, Numbers DEF RequestArrives, DrainInv, Up, SupTypes, supVars
<1>5. ASSUME proc' = proc, busy' \subseteq busy
      PROVE  (\A k \in busy' : Up(k)') /\ busy' \subseteq Gens
  BY <1>5 DEF DrainInv, Up
<1>6. ASSUME NEW g \in Gens, StartStep(g) \/ WatchStep(g) \/ RequestEnds(g)
      PROVE  Spawned(g) \/ (proc' = proc /\ busy' \subseteq busy)
  BY <1>6 DEF StartStep, SpawnFails, BecomesReady, ReadinessFails, WatchStep, WatchWakes,
              Restarts, Forgone, RequestEnds, workerVars
<1>7. ASSUME NEW o \in Ops, OpStep(o)
      PROVE  proc' = proc /\ busy' = busy
  BY <1>7 DEF OpStep, CallStart, CallStop, StopReturns, Choose, BeginEvict, BeginExit, Drain,
              AwaitIdle, DrainTimesOut, Probed, Decide, workerVars
<1>8. CASE UNCHANGED vars
  BY <1>5, <1>8 DEF vars, workerVars
<1>9. QED
  BY <1>2, <1>3, <1>4, <1>5, <1>6, <1>7, <1>8 DEF Next

(* The steps of the draining call itself.                                  *)
LEMMA OwnKeepsDrain ==
  ASSUME GenInv, EvictInv, DrainInv, [Next]_vars, NEW o \in Ops, OpStep(o), Draining(o)'
  PROVE  DrainOK(o, op[o].expects)'
<1>1. SupTypes /\ OpTypes /\ OpOK(o) /\ Kind[o] = "drain" /\ \A k \in Gens : GenOK(k)
  BY DEF GenInv, EvictInv, Draining
<1>2. CASE Drain(o)
  <2>1. /\ op' = [op EXCEPT ![o].at = "waiting", ![o].expects = live] /\ Up(live)
        /\ drained' = drained \cup {live} /\ live \in Gens
        /\ UNCHANGED <<start, live, proc>>
    BY <1>1, <1>2, Numbers DEF Drain, Up, SupTypes, supVars
  <2>2. op'[o].at = "waiting" /\ op'[o].expects = live
    BY <1>1, <2>1, GoesMoves DEF Places, Up
  <2>3. PICK e : e = live
    OBVIOUS
  <2>4. start[e] \notin {"none", "exec"}
    BY <1>1, <2>1, <2>3 DEF GenOK
  <2>5. DrainOK(o, e)'
    BY <2>1, <2>2, <2>3, <2>4 DEF DrainOK
  <2>6. QED
    BY <2>2, <2>3, <2>5
<1>3. ASSUME Draining(o), op'[o].expects = op[o].expects, busy' = busy, drained' = drained,
             op'[o].at \in {"probe", "answered"} =>
               \A e \in Gens : /\ live' = e /\ DrainOK(o, e) => op'[o].target = e
                               /\ op'[o].free /\ op'[o].target = e /\ DrainOK(o, e) => e \notin busy
      PROVE  DrainOK(o, op[o].expects)'
  <2>1. PICK e : e = op[o].expects
    OBVIOUS
  <2>2. DrainOK(o, e) /\ e \in Gens
    BY <1>3, <2>1 DEF DrainInv, DrainOK
  <2>3. start'[e] \notin {"none", "exec"} /\ (Up(e)' => Up(e))
    BY <2>2, SpawnedOnce DEF DrainOK
  <2>4. DrainOK(o, e)'
    BY <1>3, <2>2, <2>3 DEF DrainOK
  <2>5. QED
    BY <1>3, <2>1, <2>4
<1>4. CASE AwaitIdle(o)
  <2>1. Asks(o) /\ op[o].at = "waiting" /\ UNCHANGED <<busy, drained, live>>
    BY <1>4 DEF AwaitIdle, supVars, workerVars
  <2>2. /\ op'[o].at = "probe" /\ op'[o].target = live /\ op'[o].expects = op[o].expects
        /\ op'[o].free => ~Up(live)
    BY <1>1, <2>1, AsksMoves
  <2>3. Draining(o)
    BY <1>1, <2>1 DEF Draining
  <2>4. op'[o].free => live \notin busy
    BY <2>2 DEF DrainInv
  <2>5. QED
    BY <1>3, <2>1, <2>2, <2>3, <2>4
<1>5. CASE Probed(o)
  <2>1. op[o].at = "probe" /\ UNCHANGED <<busy, drained, live>>
    BY <1>5 DEF Probed, supVars, workerVars
  <2>2. /\ op'[o].at = "answered" /\ op'[o].target = op[o].target
        /\ op'[o].expects = op[o].expects
        /\ op'[o].free => op[o].free \/ op[o].target \notin busy
    BY <1>1, <1>5, ProbedMoves
  <2>3. Draining(o)
    BY <1>1, <2>1 DEF Draining
  <2>4. \A e \in Gens : /\ live' = e /\ DrainOK(o, e) => op'[o].target = e
                        /\ op'[o].free /\ op'[o].target = e /\ DrainOK(o, e) => e \notin busy
    BY <2>1, <2>2 DEF DrainOK
  <2>5. QED
    BY <1>3, <2>1, <2>2, <2>3, <2>4
<1>6. CASE Decide(o)
  <2>1. op[o].at = "answered" /\ UNCHANGED <<busy, drained>>
    BY <1>6 DEF Decide, workerVars
  <2>2. CASE MayStop(o)
    <3>1. op' = [op EXCEPT ![o].at = "stopping", ![o].target = live]
      BY <1>6, <2>2 DEF Decide
    <3>2. op'[o].at = "stopping"
      BY <1>1, <3>1, GoesMoves DEF Places
    <3>3. QED
      BY <3>2 DEF Draining
  <2>3. CASE ~MayStop(o)
    <3>1. Goes(o, "waiting")
      BY <1>1, <1>6, <2>3 DEF Decide
    <3>2. op'[o].at = "waiting" /\ op'[o].expects = op[o].expects
      BY <1>1, <3>1, GoesMoves DEF Places
    <3>3. Draining(o)
      BY <1>1, <2>1 DEF Draining
    <3>4. QED
      BY <1>3, <2>1, <3>2, <3>3
  <2>4. QED
    BY <2>2, <2>3
<1>7. CASE StopReturns(o) \/ DrainTimesOut(o)
  <2>1. Goes(o, "over")
    BY <1>7 DEF StopReturns, DrainTimesOut
  <2>2. op'[o].at = "over"
    BY <1>1, <2>1, GoesMoves DEF Places
  <2>3. QED
    BY <2>2 DEF Draining
<1>8. CASE \/ CallStart(o) \/ CallStop(o) \/ Choose(o) \/ BeginExit(o) \/ BeginEvict(o)
  BY <1>1, <1>8 DEF CallStart, CallStop, Choose, BeginExit, BeginEvict, OpOK
<1>9. QED
  BY <1>2, <1>4, <1>5, <1>6, <1>7, <1>8 DEF OpStep

(* The drained Worker, in every state, when one drain runs at a time.      *)
LEMMA DrainInvariant ==
  ASSUME OneDrain
  PROVE  Spec => []DrainInv
<1>1. Init => DrainInv
  BY DEF Init, DrainInv, Draining, Idle
<1>2. ASSUME GenInv, EvictInv, DrainInv, [Next]_vars
      PROVE  DrainInv'
  <2>1. SupTypes
    BY <1>2 DEF GenInv
  <2>2. ASSUME NEW o \in Ops, Draining(o)'
        PROVE  DrainOK(o, op[o].expects)'
    <3>1. CASE OpStep(o)
      BY <1>2, <2>2, <3>1, OwnKeepsDrain
    <3>2. ASSUME op'[o] = op[o], \A e \in Gens : e \in drained /\ Up(e)' => e \in drained',
                 \A e \in busy' : e \in busy \/ (e \notin drained /\ Up(e))
          PROVE  DrainOK(o, op[o].expects)'
      BY <1>2, <2>2, <3>2, OthersKeepDrain
    <3>3. ASSUME NEW p \in Ops, OpStep(p), p # o
          PROVE  DrainOK(o, op[o].expects)'
      <4>1. op'[o] = op[o]
        BY <1>2, <2>1, <3>3, OpStepKeepsEvict DEF Moved
      <4>2. Kind[p] # "drain"
        BY <2>2, <3>3 DEF OneDrain, Draining
      <4>3. drained' = drained /\ busy' = busy
        BY <3>3, <4>2 DEF OpStep, CallStart, CallStop, StopReturns, Choose, BeginEvict,
             BeginExit, Drain, AwaitIdle, DrainTimesOut, Probed, Decide, workerVars
      <4>4. QED
        BY <3>2, <4>1, <4>3
    <3>4. ASSUME NEW g \in Gens, Crashes(g) \/ Stopped(g)
          PROVE  DrainOK(o, op[o].expects)'
      <4>1. /\ op' = op /\ drained' = drained \ {g} /\ busy' = busy \ {g}
            /\ proc' = [proc EXCEPT ![g] = "gone"]
        BY <3>4 DEF Crashes, Stopped, Ends
      <4>2. ~Up(g)'
        BY <2>1, <4>1 DEF SupTypes, Up
      <4>3. QED
        BY <3>2, <4>1, <4>2
    <3>5. ASSUME NEW g \in Gens, StartStep(g) \/ WatchStep(g) \/ RequestEnds(g)
          PROVE  DrainOK(o, op[o].expects)'
      <4>1. op' = op /\ drained' = drained /\ busy' \subseteq busy
        BY <3>5 DEF StartStep, Spawned, SpawnFails, BecomesReady, ReadinessFails, WatchStep,
                    WatchWakes, Restarts, Forgone, RequestEnds, workerVars
      <4>2. QED
        BY <3>2, <4>1
    <3>6. CASE RequestArrives
      BY <3>2, <3>6 DEF RequestArrives
    <3>7. CASE UNCHANGED vars
      BY <3>2, <3>7 DEF vars, workerVars
    <3>8. QED
      BY <1>2, <3>1, <3>3, <3>4, <3>5, <3>6, <3>7 DEF Next
  <2>3. QED
    BY <1>2, <2>2, BusyAlive DEF DrainInv
<1>3. QED
  BY <1>1, <1>2, GenInvariant, EvictInvariant, PTL DEF Spec

(* Drain and exit ends the Worker it drained once that has finished its    *)
(* requests, for any crashes, restarts and other operations around it,     *)
(* when no two drains run at a time.  Nothing in the code ensures that: a  *)
(* second drain that times out resumes the Worker of the first.            *)
THEOREM DrainsSpareTheBusy ==
  ASSUME OneDrain
  PROVE  Spec => DrainsFirst
<1> DEFINE Spares == \A o \in Ops : Kind[o] = "drain" /\ Stops(o) /\ live = op[o].expects =>
             live \notin busy
<1>1. ASSUME GenInv, EvictInv, DrainInv, [Next]_vars
      PROVE  Spares
  <2>1. SUFFICES ASSUME NEW o \in Ops, Kind[o] = "drain", Stops(o), live = op[o].expects
                 PROVE  live \notin busy
    OBVIOUS
  <2>2. MayStop(o) /\ op[o].at = "answered"
    BY <1>1, <2>1, StopsByDecision DEF GenInv
  <2>3. DrainOK(o, live)
    BY <1>1, <2>1, <2>2 DEF DrainInv, Draining
  <2>4. QED
    BY <2>2, <2>3 DEF DrainOK, MayStop
<1>2. QED
  BY <1>1, GenInvariant, EvictInvariant, DrainInvariant, PTL DEF Spec, DrainsFirst
=============================================================================
