----------------------- MODULE CodingSubagentsProofs -----------------------
(***************************************************************************)
(* Proofs about CodingSubagents for any set of children, any budget and    *)
(* any number of waits, pauses and process losses.                         *)
(***************************************************************************)
EXTENDS CodingSubagents, FiniteSetTheorems, WellFoundedInduction, TLAPS

(* The shape of a row of agent_deferred_waits.                              *)
IsWait(w) == w = [ids |-> w.ids, mode |-> w.mode, due |-> w.due]

(* WaitPaired is not inductive by itself: whether maintain() may delete the *)
(* row depends on the step it settled before, and whether the root may be   *)
(* claimed depends on the row.                                              *)
WaitInv ==
  /\ status \in [Runs -> Statuses]
  /\ IsWait(wait)
  /\ status[Root] = "running" => wait = NoWait
  /\ call = "running" => wait # NoWait
  /\ answering => wait # NoWait /\ call # "running"

(* What a step does to the root, its wait row and its wait step.            *)
WaitKept == wait' = wait /\ call' = call /\ answering' = answering
NotClaimed == status'[Root] = "running" => status[Root] = "running"
Registered == IsWait(wait') /\ wait' # NoWait /\ status[Root] = "running" /\ status'[Root] # "running"

WaitStep ==
  /\ status' \in [Runs -> Statuses]
  /\ \/ WaitKept /\ NotClaimed
     \/ WaitKept /\ wait = NoWait                                  \* Claim
     \/ Registered /\ answering' = answering                       \* register_wait
     \/ /\ wait # NoWait /\ IsWait(wait') /\ wait' # NoWait             \* a deadline
        /\ call' = call /\ answering' = answering /\ NotClaimed
     \/ /\ wait # NoWait /\ wait' = wait /\ call' # "running"      \* SettleWait
        /\ answering' /\ NotClaimed
     \/ /\ answering /\ wait' = NoWait /\ call' = call             \* DeleteWait
        /\ ~answering' /\ NotClaimed
     \/ /\ wait' = wait /\ call' = call /\ ~answering' /\ NotClaimed  \* ProcessLoss

(* The root is one of the runs.                                             *)
LEMMA RootIsRun == Root \in Runs
  BY DEF Runs

(* Move writes the status of one run, and never makes one running.          *)
LEMMA MoveFacts ==
  ASSUME status \in [Runs -> Statuses], NEW r \in Runs, NEW to \in Statuses \ {"running"},
         Move(r, to)
  PROVE  status' \in [Runs -> Statuses] /\ NotClaimed
  BY RootIsRun DEF Move, NotClaimed, Statuses, Terminal

(* So does the cancellation of a set of runs.                               *)
LEMMA CancelFacts ==
  ASSUME status \in [Runs -> Statuses], NEW S, Cancel(S)
  PROVE  status' \in [Runs -> Statuses] /\ NotClaimed
  BY RootIsRun DEF Cancel, NotClaimed, Statuses, Terminal

(* A wait that falls due is still a wait.                                   *)
LEMMA DueIsWait ==
  ASSUME IsWait(wait), wait' = [wait EXCEPT !.due = TRUE]
  PROVE  IsWait(wait') /\ wait' # NoWait
<1>1. wait' = [ids |-> wait.ids, mode |-> wait.mode, due |-> TRUE]
  BY DEF IsWait
<1>2. wait'.due # NoWait.due
  BY <1>1 DEF NoWait
<1>3. QED
  BY <1>1, <1>2 DEF IsWait

(* The steps of a task.                                                     *)
LEMMA TaskWaitStep ==
  ASSUME WaitInv, NEW r \in Runs, Task(r) \/ Unwind(r) \/ TaskDone(r) \/ Reconcile(r)
  PROVE  WaitStep
<1>0. status \in [Runs -> Statuses]
  BY DEF WaitInv
<1>1. CASE Finish(r)
  BY <1>0, <1>1, MoveFacts DEF Finish, waitVars, WaitStep, WaitKept, Statuses, Terminal
<1>2. CASE Requeue(r)
  BY <1>0, <1>2, MoveFacts DEF Requeue, waitVars, WaitStep, WaitKept, Statuses, Terminal
<1>3. CASE ReserveModel(r)
  BY <1>0, <1>3, MoveFacts DEF ReserveModel, waitVars, WaitStep, WaitKept, NotClaimed, Statuses, Terminal
<1>4. CASE ModelFails(r)
  <2>1. PICK to \in {"failed", "queued"} : Move(r, to)
    BY <1>4 DEF ModelFails
  <2>2. status' \in [Runs -> Statuses] /\ NotClaimed
    BY <1>0, <2>1, MoveFacts DEF Statuses, Terminal
  <2>3. QED
    BY <1>4, <2>2 DEF ModelFails, waitVars, WaitStep, WaitKept
<1>5. CASE StartModel(r) \/ ModelAnswers(r) \/ SettleModelStep(r) \/ ChargeModel(r)
  BY <1>0, <1>5 DEF StartModel, ModelAnswers, SettleModelStep, ChargeModel, runVars, waitVars,
                    WaitStep, WaitKept, NotClaimed
<1>6. CASE Unwind(r) \/ TaskDone(r) \/ Reconcile(r)
  BY <1>0, <1>6 DEF Unwind, TaskDone, Reconcile, runVars, waitVars, WaitStep, WaitKept, NotClaimed
<1>7. QED
  BY <1>1, <1>2, <1>3, <1>4, <1>5, <1>6 DEF Task

(* The tools of the root.                                                   *)
LEMMA RootWaitStep ==
  ASSUME WaitInv, RootTask \/ BindChild
  PROVE  WaitStep
<1>0. status \in [Runs -> Statuses]
  BY DEF WaitInv
<1>1. CASE StartTool \/ ReturnTool \/ BindChild
  BY <1>0, <1>1 DEF StartTool, ReturnTool, BindChild, runVars, waitVars, WaitStep, WaitKept, NotClaimed
<1>2. CASE CreateChild
  <2>1. status' \in [Runs -> Statuses] /\ NotClaimed
    BY <1>0, <1>2, RootIsRun DEF CreateChild, NotClaimed, Statuses
  <2>2. QED
    BY <1>2, <2>1 DEF CreateChild, waitVars, WaitStep, WaitKept
<1>3. CASE RegisterWait
  <2>1. CASE status[Root] = "running"
    <3>1. PICK ids \in (SUBSET bound) \ {{}}, mode \in {"any", "all"} :
            wait' = [ids |-> ids, mode |-> mode, due |-> FALSE] /\ Move(Root, "queued")
      BY <1>3, <2>1 DEF RegisterWait
    <3>2. IsWait(wait')
      BY <3>1 DEF IsWait
    <3>3. wait'.ids # NoWait.ids
      BY <3>1 DEF NoWait
    <3>4. status' \in [Runs -> Statuses] /\ status'[Root] = "queued"
      BY <1>0, <2>1, <3>1, RootIsRun DEF Move, Statuses
    <3>5. answering' = answering
      BY <1>3 DEF RegisterWait
    <3>6. QED
      BY <2>1, <3>2, <3>3, <3>4, <3>5 DEF WaitStep, Registered
  <2>2. CASE status[Root] # "running"
    BY <1>0, <1>3, <2>2 DEF RegisterWait, waitVars, WaitStep, WaitKept, NotClaimed
  <2>3. QED
    BY <2>1, <2>2
<1>4. QED
  BY <1>1, <1>2, <1>3 DEF RootTask

(* The dispatcher: maintain() and the claims.                               *)
LEMMA DispatcherWaitStep ==
  ASSUME WaitInv, SettleWait \/ DeleteWait \/ EndsChildren \/ Claim \/ Sweep
  PROVE  WaitStep
<1>0. status \in [Runs -> Statuses]
  BY DEF WaitInv
<1>1. CASE SettleWait
  BY <1>0, <1>1 DEF SettleWait, runVars, WaitStep, NotClaimed
<1>2. CASE DeleteWait
  BY <1>0, <1>2 DEF DeleteWait, runVars, WaitStep, NotClaimed
<1>3. CASE EndsChildren
  BY <1>0, <1>3, CancelFacts DEF EndsChildren, waitVars, WaitStep, WaitKept
<1>4. CASE Claim
  <2>1. PICK r \in Claimable :
          status' = [s \in Runs |-> IF s \in Overdue THEN "cancelled"
                                   ELSE IF s = r THEN "running" ELSE status[s]]
    BY <1>4 DEF Claim
  <2>2. status' \in [Runs -> Statuses]
    BY <1>0, <2>1 DEF Statuses, Terminal
  <2>3. CASE r = Root
    BY <1>4, <2>1, <2>2, <2>3 DEF Claim, Claimable, waitVars, WaitStep, WaitKept
  <2>4. CASE r # Root
    BY <1>4, <2>1, <2>2, <2>4, RootIsRun DEF Claim, waitVars, WaitStep, WaitKept, NotClaimed
  <2>5. QED
    BY <2>3, <2>4
<1>5. CASE Sweep
  <2>1. status' \in [Runs -> Statuses] /\ NotClaimed
    BY <1>0, <1>5, RootIsRun DEF Sweep, NotClaimed, Statuses, Terminal
  <2>2. QED
    BY <1>5, <2>1 DEF Sweep, waitVars, WaitStep, WaitKept
<1>6. QED
  BY <1>1, <1>2, <1>3, <1>4, <1>5

(* The clock, the user, the loss of the process and its restart.            *)
LEMMA OutsideWaitStep ==
  ASSUME WaitInv, Clock \/ User \/ ProcessLoss \/ Restart
  PROVE  WaitStep
<1>0. status \in [Runs -> Statuses] /\ IsWait(wait)
  BY DEF WaitInv
<1>1. CASE WaitFallsDue
  BY <1>0, <1>1, DueIsWait DEF WaitFallsDue, runVars, WaitStep, NotClaimed
<1>2. ASSUME NEW r \in Runs, DeadlinePasses(r)
      PROVE  WaitStep
  <2>1. CASE r = Root /\ wait # NoWait
    BY <1>0, <1>2, <2>1, DueIsWait DEF DeadlinePasses, WaitStep, NotClaimed
  <2>2. CASE ~(r = Root /\ wait # NoWait)
    BY <1>0, <1>2, <2>2 DEF DeadlinePasses, WaitStep, WaitKept, NotClaimed
  <2>3. QED
    BY <2>1, <2>2
<1>3. CASE CancelLists
  BY <1>0, <1>3 DEF CancelLists, runVars, waitVars, WaitStep, WaitKept, NotClaimed
<1>4. CASE CancelEnds
  BY <1>0, <1>4, CancelFacts DEF CancelEnds, waitVars, WaitStep, WaitKept
<1>5. CASE Pause
  <2>1. status' \in [Runs -> Statuses] /\ NotClaimed
    BY <1>0, <1>5, RootIsRun DEF Pause, NotClaimed, Statuses
  <2>2. QED
    BY <1>5, <2>1 DEF Pause, waitVars, WaitStep, WaitKept
<1>6. CASE Resume
  <2>1. status' \in [Runs -> Statuses] /\ NotClaimed
    BY <1>0, <1>6, RootIsRun DEF Resume, NotClaimed, Statuses
  <2>2. QED
    BY <1>6, <2>1 DEF Resume, waitVars, WaitStep, WaitKept
<1>7. CASE ProcessLoss
  BY <1>0, <1>7 DEF ProcessLoss, runVars, waitVars, WaitStep, NotClaimed
<1>8. CASE Restart
  <2>1. status' \in [Runs -> Statuses] /\ NotClaimed
    BY <1>0, <1>8, RootIsRun DEF Restart, NotClaimed, Statuses
  <2>2. QED
    BY <1>8, <2>1 DEF Restart, waitVars, WaitStep, WaitKept
<1>9. QED
  BY <1>1, <1>2, <1>3, <1>4, <1>5, <1>6, <1>7, <1>8 DEF Clock, User

(* Every step of the coordinator, the runtime and the user is one of these. *)
LEMMA NextIsWaitStep ==
  ASSUME WaitInv, Next
  PROVE  WaitStep
  BY TaskWaitStep, RootWaitStep, DispatcherWaitStep, OutsideWaitStep DEF Next

(* Every wait call of the root gets its one result, for any children,       *)
(* pauses, cancels and process losses: register_wait takes the root off its *)
(* slot in the transaction that opens the call, claim_next passes over a    *)
(* root with a wait row, and maintain() settles before it deletes.          *)
THEOREM WaitsPaired == Spec => []WaitPaired
<1>1. Init => WaitInv
  BY RootIsRun DEF Init, WaitInv, IsWait, NoWait, Statuses
<1>2. ASSUME WaitInv, [Next]_vars
      PROVE  WaitInv'
  <2>1. CASE UNCHANGED vars
    BY <1>2, <2>1 DEF vars, runVars, waitVars, WaitInv
  <2>2. CASE Next
    <3>1. WaitStep
      BY <1>2, <2>2, NextIsWaitStep
    <3>2. status' \in [Runs -> Statuses] /\ IsWait(wait')
      BY <1>2, <3>1 DEF WaitStep, WaitKept, Registered, WaitInv, IsWait, NoWait
    <3>3. status'[Root] = "running" => wait' = NoWait
      BY <1>2, <3>1 DEF WaitStep, WaitKept, NotClaimed, Registered, WaitInv
    <3>4. call' = "running" => wait' # NoWait
      BY <1>2, <3>1 DEF WaitStep, WaitKept, Registered, WaitInv
    <3>5. answering' => wait' # NoWait /\ call' # "running"
      BY <1>2, <3>1 DEF WaitStep, WaitKept, Registered, WaitInv
    <3>6. QED
      BY <3>2, <3>3, <3>4, <3>5 DEF WaitInv
  <2>3. QED
    BY <1>2, <2>1, <2>2
<1>3. WaitInv => WaitPaired
  BY DEF WaitInv, WaitPaired
<1>4. QED
  BY <1>1, <1>2, <1>3, PTL DEF Spec

-----------------------------------------------------------------------------
(* Sums.                                                                    *)

(* A sum of naturals is the number of its units.                            *)
Units(F, T) == {u \in T \X Nat : u[2] \in 1..F[u[1]]}

(* Adding element after element reaches every subset of a finite set.       *)
LEMMA SubsetsUp ==
  ASSUME NEW S, IsFiniteSet(S), NEW G, {} \in G,
         \A T \in SUBSET S : T # {} /\ (\A x \in T : T \ {x} \in G) => T \in G
  PROVE  \A T \in SUBSET S : T \in G
<1> DEFINE bad == {T \in SUBSET S : T \notin G}
<1> SUFFICES ASSUME bad # {} PROVE FALSE
  OBVIOUS
<1>1. IsWellFoundedOn(StrictSubsetOrdering(S), SUBSET S)
  BY FS_StrictSubsetOrderingWellFounded, FS_FiniteSubsetsOfFinite
<1>2. bad \subseteq SUBSET S
  OBVIOUS
<1>3. PICK T \in bad : \A U \in bad : ~(<<U, T>> \in StrictSubsetOrdering(S))
  <2> HIDE DEF bad
  <2> QED BY <1>1, <1>2, WFMin
<1>4. T \in SUBSET S /\ T \notin G /\ T # {}
  OBVIOUS
<1>5. PICK x \in T : T \ {x} \notin G
  BY <1>4
<1>6. T \ {x} \in bad
  BY <1>4, <1>5
<1>7. <<T \ {x}, T>> \in StrictSubsetOrdering(S)
  BY <1>4, <1>5 DEF StrictSubsetOrdering
<1> QED BY <1>3, <1>6, <1>7

(* The units of one term.                                                   *)
LEMMA TermUnits ==
  ASSUME NEW x, NEW I, IsFiniteSet(I)
  PROVE  IsFiniteSet({x} \X I) /\ Cardinality({x} \X I) = Cardinality(I)
<1> DEFINE f == [i \in I |-> <<x, i>>]
<1>1. f \in Bijection(I, {x} \X I)
  <2>1. f \in [I -> {x} \X I]
    OBVIOUS
  <2>2. \A i, j \in I : f[i] = f[j] => i = j
    OBVIOUS
  <2>3. \A u \in {x} \X I : \E i \in I : f[i] = u
    <3> SUFFICES ASSUME NEW u \in {x} \X I PROVE \E i \in I : f[i] = u
      OBVIOUS
    <3>1. u[2] \in I /\ u = <<x, u[2]>>
      OBVIOUS
    <3> QED BY <3>1
  <2> HIDE DEF f
  <2> QED BY <2>1, <2>2, <2>3 DEF Bijection, Injection, Surjection, IsInjective
<1> HIDE DEF f
<1> QED BY <1>1, FS_Bijection DEF ExistsBijection

(* The first units of a term.                                               *)
LEMMA FirstUnits ==
  ASSUME NEW x, NEW n \in Nat
  PROVE  IsFiniteSet({x} \X (1..n)) /\ Cardinality({x} \X (1..n)) = n
<1> DEFINE I == 1..n
<1>1. IsFiniteSet(I) /\ Cardinality(I) = n
  BY FS_Interval
<1> HIDE DEF I
<1>2. IsFiniteSet({x} \X I) /\ Cardinality({x} \X I) = n
  BY <1>1, TermUnits
<1> QED BY <1>2 DEF I

(* The units of a sum, one term set apart.                                  *)
LEMMA UnitsSplit ==
  ASSUME NEW S, NEW F \in [S -> Nat], NEW T \in SUBSET S, NEW x \in T
  PROVE  /\ Units(F, T) = Units(F, T \ {x}) \cup ({x} \X (1..F[x]))
         /\ Units(F, T \ {x}) \cap ({x} \X (1..F[x])) = {}
BY DEF Units

(* There are finitely many.                                                 *)
LEMMA UnitsFinite ==
  ASSUME NEW S, IsFiniteSet(S), NEW F \in [S -> Nat]
  PROVE  \A T \in SUBSET S : IsFiniteSet(Units(F, T)) /\ Cardinality(Units(F, T)) \in Nat
<1> DEFINE G == {T \in SUBSET S : IsFiniteSet(Units(F, T))}
<1>1. {} \in G
  <2>1. Units(F, {}) = {}
    BY DEF Units
  <2> QED BY <2>1, FS_EmptySet
<1>2. ASSUME NEW T \in SUBSET S, T # {}, \A x \in T : T \ {x} \in G PROVE T \in G
  <2>1. PICK x \in T : T \ {x} \in G
    BY <1>2
  <2> DEFINE A == Units(F, T \ {x})
             B == {x} \X (1..F[x])
  <2>2. IsFiniteSet(A)
    BY <2>1
  <2>3. IsFiniteSet(B)
    BY FirstUnits
  <2>4. Units(F, T) = A \cup B
    BY UnitsSplit
  <2>5. IsFiniteSet(A \cup B)
    <3> HIDE DEF A, B
    <3> QED BY <2>2, <2>3, FS_Union
  <2> HIDE DEF A, B
  <2> QED BY <2>4, <2>5
<1>3. \A T \in SUBSET S : T \in G
  <2> HIDE DEF G
  <2> QED BY <1>1, <1>2, SubsetsUp
<1> QED BY <1>3, FS_CardinalityType

(* One term more.                                                           *)
LEMMA UnitsAdd ==
  ASSUME NEW S, IsFiniteSet(S), NEW F \in [S -> Nat], NEW T \in SUBSET S, NEW x \in T
  PROVE  Cardinality(Units(F, T)) = F[x] + Cardinality(Units(F, T \ {x}))
<1> DEFINE A == Units(F, T \ {x})
           B == {x} \X (1..F[x])
<1>1. IsFiniteSet(B) /\ Cardinality(B) = F[x]
  BY FirstUnits
<1>2. IsFiniteSet(A) /\ Cardinality(A) \in Nat
  BY UnitsFinite
<1>3. Units(F, T) = A \cup B /\ A \cap B = {}
  BY UnitsSplit
<1>4. F[x] \in Nat
  OBVIOUS
<1>5. Cardinality(Units(F, T)) = Cardinality(A) + F[x]
  <2> HIDE DEF A, B
  <2>1. Cardinality(A \cup B) = Cardinality(A) + Cardinality(B) - Cardinality(A \cap B)
    BY <1>1, <1>2, FS_Union
  <2>2. Cardinality(A \cap B) = 0
    BY <1>3, FS_EmptySet
  <2> QED BY <1>1, <1>2, <1>3, <1>4, <2>1, <2>2
<1> QED BY <1>2, <1>4, <1>5

(* SumFunction counts them.                                                 *)
LEMMA SumCounts ==
  ASSUME NEW S, IsFiniteSet(S), NEW F \in [S -> Nat]
  PROVE  SumFunction(F) = Cardinality(Units(F, S)) /\ SumFunction(F) \in Nat
<1> DEFINE pick(T) == CHOOSE x \in T : TRUE
           R(f) == f = [T \in SUBSET S |-> IF T = {} THEN 0 ELSE F[pick(T)] + f[T \ {pick(T)}]]
           c == [T \in SUBSET S |-> Cardinality(Units(F, T))]
           g == CHOOSE f : R(f)
<1>0. \A T \in SUBSET S : T # {} => pick(T) \in T /\ T \ {pick(T)} \in SUBSET S
  OBVIOUS
<1>1. c[{}] = 0
  <2>1. Units(F, {}) = {}
    BY DEF Units
  <2> QED BY <2>1, FS_EmptySet
<1>2. \A T \in SUBSET S : T # {} => c[T] = F[pick(T)] + c[T \ {pick(T)}]
  <2> SUFFICES ASSUME NEW T \in SUBSET S, T # {} PROVE c[T] = F[pick(T)] + c[T \ {pick(T)}]
    OBVIOUS
  <2> DEFINE x == pick(T)
  <2>1. x \in T /\ T \ {x} \in SUBSET S
    BY <1>0
  <2> HIDE DEF x
  <2>2. Cardinality(Units(F, T)) = F[x] + Cardinality(Units(F, T \ {x}))
    BY <2>1, UnitsAdd
  <2> QED BY <2>1, <2>2 DEF x
<1>3. R(c)
  <2>1. c = [T \in SUBSET S |-> c[T]]
    OBVIOUS
  <2> HIDE DEF c, pick
  <2> QED BY <1>1, <1>2, <2>1
<1>4. R(g)
  <2> HIDE DEF c
  <2> QED BY <1>3
<1>5. SumFunction(F) = g[S]
  <2>1. DOMAIN F = S
    OBVIOUS
  <2> QED BY <2>1 DEF SumFunction, SumFunctionOnSet, FoldFunctionOnSet, MapThenFoldSet
<1> HIDE DEF g, pick
<1>6. g[{}] = 0 /\ \A T \in SUBSET S : T # {} => g[T] = F[pick(T)] + g[T \ {pick(T)}]
  BY <1>4
<1> DEFINE G == {T \in SUBSET S : g[T] = c[T]}
<1>7. {} \in G
  BY <1>1, <1>6
<1>8. \A T \in SUBSET S : T # {} /\ (\A x \in T : T \ {x} \in G) => T \in G
  <2> HIDE DEF c
  <2> QED BY <1>0, <1>2, <1>6
<1>9. S \in G
  <2> HIDE DEF G
  <2> QED BY <1>7, <1>8, SubsetsUp
<1>10. c[S] = Cardinality(Units(F, S)) /\ Cardinality(Units(F, S)) \in Nat
  BY UnitsFinite
<1> QED BY <1>5, <1>9, <1>10

(* A sum in which one term grows by at most m, and no other grows.          *)
LEMMA TotalGrows ==
  ASSUME NEW S, IsFiniteSet(S), NEW F \in [S -> Nat], NEW G \in [S -> Nat],
         NEW x \in S, NEW m \in Nat, G[x] <= F[x] + m,
         \A y \in S \ {x} : G[y] <= F[y]
  PROVE  SumFunction(G) <= SumFunction(F) + m
<1> DEFINE A == Units(F, S)
           B == {x} \X ((F[x] + 1)..(F[x] + m))
           C == Units(G, S)
<1>1. C \subseteq A \cup B
  BY DEF Units
<1>2. IsFiniteSet(B) /\ Cardinality(B) = m
  <2> DEFINE I == (F[x] + 1)..(F[x] + m)
  <2>1. IsFiniteSet(I) /\ Cardinality(I) = m
    <3> DEFINE a == F[x] + 1
               b == F[x] + m
    <3>1. a \in Int /\ b \in Int /\ b - a + 1 = m /\ (a > b => m = 0)
      OBVIOUS
    <3> HIDE DEF a, b
    <3> QED BY <3>1, FS_Interval DEF I, a, b
  <2> HIDE DEF I
  <2>2. IsFiniteSet({x} \X I) /\ Cardinality({x} \X I) = m
    BY <2>1, TermUnits
  <2> QED BY <2>2 DEF I
<1>3. IsFiniteSet(A) /\ Cardinality(A) \in Nat
  BY UnitsFinite
<1>4. SumFunction(F) = Cardinality(A) /\ SumFunction(G) = Cardinality(C)
  BY SumCounts
<1>5. Cardinality(C) \in Nat
  BY UnitsFinite
<1> HIDE DEF A, B, C
<1>6. /\ IsFiniteSet(A \cup B)
      /\ Cardinality(A \cup B) = Cardinality(A) + Cardinality(B) - Cardinality(A \cap B)
  BY <1>2, <1>3, FS_Union
<1>7. Cardinality(A \cap B) \in Nat
  BY <1>2, FS_Intersection, FS_CardinalityType
<1>8. Cardinality(C) <= Cardinality(A \cup B)
  BY <1>1, <1>6, FS_Subset
<1>9. Cardinality(A \cup B) <= Cardinality(A) + m /\ Cardinality(A \cup B) \in Nat
  BY <1>2, <1>3, <1>6, <1>7, FS_CardinalityType
<1> QED BY <1>3, <1>4, <1>5, <1>8, <1>9

(* The terms over a part of the set sum to no more.                         *)
LEMMA PartSum ==
  ASSUME NEW S, IsFiniteSet(S), NEW F \in [S -> Nat], NEW T \in SUBSET S, NEW H \in [T -> Nat],
         \A y \in T : H[y] = F[y]
  PROVE  SumFunction(H) <= SumFunction(F)
<1>1. IsFiniteSet(T)
  BY FS_Subset
<1>2. SumFunction(F) = Cardinality(Units(F, S)) /\ SumFunction(H) = Cardinality(Units(H, T))
  BY <1>1, SumCounts
<1>3. Units(H, T) \subseteq Units(F, S)
  BY DEF Units
<1>4. IsFiniteSet(Units(F, S))
  BY UnitsFinite
<1> QED BY <1>2, <1>3, <1>4, FS_Subset

(* A sum in which no term grows.                                            *)
LEMMA TotalShrinks ==
  ASSUME NEW S, IsFiniteSet(S), NEW F \in [S -> Nat], NEW G \in [S -> Nat],
         \A y \in S : G[y] <= F[y]
  PROVE  SumFunction(G) <= SumFunction(F)
<1>1. SumFunction(F) = Cardinality(Units(F, S)) /\ SumFunction(G) = Cardinality(Units(G, S))
  BY SumCounts
<1>2. Units(G, S) \subseteq Units(F, S)
  BY DEF Units
<1>3. IsFiniteSet(Units(F, S))
  BY UnitsFinite
<1> QED BY <1>1, <1>2, <1>3, FS_Subset

(* The smaller of two numbers.                                              *)
LEMMA MinOfTwo ==
  ASSUME NEW a \in Int, NEW b \in Int
  PROVE  Min({a, b}) \in {a, b} /\ Min({a, b}) <= a /\ Min({a, b}) <= b
<1>1. \E x \in {a, b} : \A y \in {a, b} : x <= y
  <2>1. CASE a <= b
    BY <2>1
  <2>2. CASE b <= a
    BY <2>2
  <2> QED BY <2>1, <2>2
<1> QED BY <1>1 DEF Min

-----------------------------------------------------------------------------
(* What a reservation book holds.                                           *)

Rows == [reserved : Nat, charged : Nat \cup {NotCharged}]
TakenByRun(b) == SumFunction([k \in Calls |-> Taken(b[k])])
TakenByTree(B) == SumFunction([r \in Runs |-> TakenByRun(B[r])])
TakenByChildren(B) == SumFunction([c \in Children |-> TakenByRun(B[c])])
HeldByRun(b) == SumFunction([k \in Calls |-> Held(b[k])])
HeldByTree(B) == SumFunction([r \in Runs |-> HeldByRun(B[r])])

(* There are finitely many runs and calls.                                  *)
LEMMA FiniteTree ==
  IsFiniteSet(Calls) /\ IsFiniteSet(Runs) /\ IsFiniteSet(Children) /\ Children \in SUBSET Runs
<1>1. IsFiniteSet(Calls)
  <2>1. MaxCalls \in Int /\ 1 \in Int
    BY SubagentAssumption
  <2> QED BY <2>1, FS_Interval DEF Calls
<1>2. IsFiniteSet({Root} \cup Children)
  BY SubagentAssumption, FS_AddElement
<1> QED BY <1>1, <1>2, SubagentAssumption DEF Runs

(* What a row takes and holds are numbers, and it takes no more than both   *)
(* what it holds and what it reserved.                                      *)
LEMMA RowFacts ==
  ASSUME NEW b \in Rows
  PROVE  /\ Taken(b) \in Nat /\ Held(b) \in Nat /\ b.reserved \in Nat
         /\ Taken(b) <= Held(b) /\ Taken(b) <= b.reserved
BY DEF Rows, Held, Taken, NotCharged

(* So are those of a run.                                                   *)
LEMMA RunTakes ==
  ASSUME NEW b \in [Calls -> Rows]
  PROVE  /\ [k \in Calls |-> Taken(b[k])] \in [Calls -> Nat]
         /\ TakenByRun(b) \in Nat /\ HeldByRun(b) \in Nat
         /\ TakenByRun(b) <= HeldByRun(b)
<1> DEFINE F == [k \in Calls |-> Held(b[k])]
           G == [k \in Calls |-> Taken(b[k])]
<1>1. F \in [Calls -> Nat] /\ G \in [Calls -> Nat] /\ \A k \in Calls : G[k] <= F[k]
  BY RowFacts
<1>2. SumFunction(F) \in Nat /\ SumFunction(G) \in Nat /\ SumFunction(G) <= SumFunction(F)
  <2> HIDE DEF F, G
  <2> QED BY <1>1, FiniteTree, SumCounts, TotalShrinks
<1> QED BY <1>1, <1>2 DEF TakenByRun, HeldByRun

(* The children take no more than the tree, the tree no more than it holds. *)
LEMMA TreeTakes ==
  ASSUME NEW B \in [Runs -> [Calls -> Rows]]
  PROVE  /\ [r \in Runs |-> TakenByRun(B[r])] \in [Runs -> Nat]
         /\ [c \in Children |-> TakenByRun(B[c])] \in [Children -> Nat]
         /\ TakenByTree(B) \in Nat /\ TakenByChildren(B) \in Nat /\ HeldByTree(B) \in Nat
         /\ TakenByChildren(B) <= TakenByTree(B) /\ TakenByTree(B) <= HeldByTree(B)
<1> DEFINE E == [r \in Runs |-> HeldByRun(B[r])]
           F == [r \in Runs |-> TakenByRun(B[r])]
           H == [c \in Children |-> TakenByRun(B[c])]
<1>1. /\ E \in [Runs -> Nat] /\ F \in [Runs -> Nat] /\ H \in [Children -> Nat]
      /\ \A c \in Children : H[c] = F[c]
      /\ \A r \in Runs : F[r] <= E[r]
  BY FiniteTree, RunTakes
<1>2. /\ HeldByTree(B) = SumFunction(E) /\ TakenByTree(B) = SumFunction(F)
      /\ TakenByChildren(B) = SumFunction(H)
  BY DEF HeldByTree, TakenByTree, TakenByChildren
<1>3. /\ SumFunction(E) \in Nat /\ SumFunction(F) \in Nat /\ SumFunction(H) \in Nat
      /\ SumFunction(H) <= SumFunction(F) /\ SumFunction(F) <= SumFunction(E)
  <2> HIDE DEF E, F, H
  <2> QED BY <1>1, FiniteTree, SumCounts, PartSum, TotalShrinks
<1> QED BY <1>1, <1>2, <1>3

(* A row that takes more makes its run take as much more.                   *)
LEMMA RowGrows ==
  ASSUME NEW b \in [Calls -> Rows], NEW d \in [Calls -> Rows], NEW k \in Calls, NEW m \in Nat,
         Taken(d[k]) <= Taken(b[k]) + m, \A j \in Calls \ {k} : Taken(d[j]) <= Taken(b[j])
  PROVE  TakenByRun(d) <= TakenByRun(b) + m
<1> DEFINE F == [j \in Calls |-> Taken(b[j])]
           G == [j \in Calls |-> Taken(d[j])]
<1>1. F \in [Calls -> Nat] /\ G \in [Calls -> Nat]
  BY RunTakes
<1>2. G[k] <= F[k] + m /\ \A j \in Calls \ {k} : G[j] <= F[j]
  OBVIOUS
<1>3. SumFunction(G) <= SumFunction(F) + m
  <2> HIDE DEF F, G
  <2> QED BY <1>1, <1>2, FiniteTree, TotalGrows
<1> QED BY <1>3 DEF TakenByRun

(* Rows that take no more make their run take no more.                      *)
LEMMA RowsShrink ==
  ASSUME NEW b \in [Calls -> Rows], NEW d \in [Calls -> Rows],
         \A j \in Calls : Taken(d[j]) <= Taken(b[j])
  PROVE  TakenByRun(d) <= TakenByRun(b)
<1> DEFINE F == [j \in Calls |-> Taken(b[j])]
           G == [j \in Calls |-> Taken(d[j])]
<1>1. F \in [Calls -> Nat] /\ G \in [Calls -> Nat]
  BY RunTakes
<1>2. \A j \in Calls : G[j] <= F[j]
  OBVIOUS
<1>3. SumFunction(G) <= SumFunction(F)
  <2> HIDE DEF F, G
  <2> QED BY <1>1, <1>2, FiniteTree, TotalShrinks
<1> QED BY <1>3 DEF TakenByRun

(* A run that takes more makes the tree take as much more, and the children *)
(* unless it is the root.                                                   *)
LEMMA TreeGrows ==
  ASSUME NEW B \in [Runs -> [Calls -> Rows]], NEW D \in [Runs -> [Calls -> Rows]],
         NEW r \in Runs, NEW m \in Nat,
         TakenByRun(D[r]) <= TakenByRun(B[r]) + m, \A s \in Runs \ {r} : D[s] = B[s]
  PROVE  /\ TakenByTree(D) <= TakenByTree(B) + m
         /\ TakenByChildren(D) <= TakenByChildren(B) + m
         /\ r = Root => TakenByChildren(D) <= TakenByChildren(B)
<1> DEFINE F == [s \in Runs |-> TakenByRun(B[s])]
           G == [s \in Runs |-> TakenByRun(D[s])]
           H == [c \in Children |-> TakenByRun(B[c])]
           I == [c \in Children |-> TakenByRun(D[c])]
<1>1. F \in [Runs -> Nat] /\ G \in [Runs -> Nat] /\ H \in [Children -> Nat] /\ I \in [Children -> Nat]
  BY TreeTakes
<1>2. G[r] <= F[r] + m /\ \A s \in Runs \ {r} : G[s] <= F[s]
  <2>1. \A s \in Runs \ {r} : G[s] = F[s] /\ F[s] \in Nat
    BY <1>1
  <2> QED BY <2>1
<1>3. /\ \A c \in Children \ {r} : I[c] <= H[c]
      /\ r \in Children => I[r] <= H[r] + m
  <2>1. \A s \in Children \ {r} : I[s] = H[s] /\ H[s] \in Nat
    BY <1>1, FiniteTree
  <2> QED BY <2>1
<1>4. Root \notin Children /\ (r = Root \/ r \in Children)
  BY SubagentAssumption DEF Runs
<1>5. TakenByTree(B) = SumFunction(F) /\ TakenByTree(D) = SumFunction(G)
  BY DEF TakenByTree
<1>6. TakenByChildren(B) = SumFunction(H) /\ TakenByChildren(D) = SumFunction(I)
  BY DEF TakenByChildren
<1> HIDE DEF F, G, H, I
<1>7. SumFunction(G) <= SumFunction(F) + m
  BY <1>1, <1>2, FiniteTree, TotalGrows
<1>8. r = Root => SumFunction(I) <= SumFunction(H)
  BY <1>1, <1>3, <1>4, FiniteTree, TotalShrinks
<1>9. r \in Children => SumFunction(I) <= SumFunction(H) + m
  BY <1>1, <1>3, FiniteTree, TotalGrows
<1>10. SumFunction(I) \in Nat /\ SumFunction(H) \in Nat
  BY <1>1, FiniteTree, SumCounts
<1> QED BY <1>4, <1>5, <1>6, <1>7, <1>8, <1>9, <1>10

(* The same words of the model.                                             *)
LEMMA BookWords ==
  ASSUME NEW r
  PROVE  run_used(r) = HeldByRun(book[r]) /\ used = HeldByTree(book)
         /\ (BudgetHeld <=> /\ TakenByTree(book) <= RootTokens
                            /\ TakenByChildren(book) <= RootTokens - ParentReserve)
BY DEF run_used, used, BudgetHeld, TakenOf, HeldByRun, HeldByTree, TakenByRun, TakenByTree,
   TakenByChildren

-----------------------------------------------------------------------------
(* The budget.                                                              *)

StepStatuses == {"none", "running", "completed", "failed", "cancelled", "uncertain"}

BudgetTypes ==
  /\ step \in [Runs -> [Calls -> StepStatuses]]
  /\ usage \in [Runs -> [Calls -> Nat]]
  /\ book \in [Runs -> [Calls -> Rows]]
  /\ spent \in [Runs -> Nat]

(* BudgetHeld says nothing of the values it sums.  That usage is a number   *)
(* when it is charged is part of what keeps it.                             *)
BudgetInv == BudgetTypes /\ BudgetHeld

(* A step that leaves the book alone keeps the budget.                      *)
LEMMA SameBook ==
  ASSUME BudgetInv, book' = book, BudgetTypes'
  PROVE  BudgetInv'
BY DEF BudgetInv, BudgetHeld, TakenOf, Taken

(* Steps that touch neither the calls nor the book.                         *)
LEMMA CalmSteps ==
  ASSUME BudgetInv,
         \/ \E r \in Runs : Finish(r) \/ Requeue(r) \/ TaskDone(r)
         \/ RootTask \/ BindChild \/ SettleWait \/ DeleteWait \/ EndsChildren \/ Claim \/ Sweep
         \/ Clock \/ CancelLists \/ CancelEnds \/ Pause
         \/ UNCHANGED vars
  PROVE  BudgetInv'
<1>1. UNCHANGED <<budgetVars, spent>>
  <2>1. ASSUME NEW r \in Runs, Finish(r) \/ Requeue(r) \/ TaskDone(r)
        PROVE  UNCHANGED <<budgetVars, spent>>
    BY <2>1 DEF Finish, Requeue, TaskDone
  <2>2. CASE RootTask \/ BindChild
    BY <2>2 DEF RootTask, StartTool, CreateChild, ReturnTool, RegisterWait, BindChild
  <2>3. CASE SettleWait \/ DeleteWait \/ EndsChildren \/ Claim \/ Sweep
    BY <2>3 DEF SettleWait, DeleteWait, EndsChildren, Claim, Sweep, taskVars
  <2>4. CASE Clock \/ CancelLists \/ CancelEnds \/ Pause
    BY <2>4 DEF Clock, WaitFallsDue, DeadlinePasses, CancelLists, CancelEnds, Pause, taskVars
  <2>5. CASE UNCHANGED vars
    BY <2>5 DEF vars, taskVars
  <2> QED BY <2>1, <2>2, <2>3, <2>4, <2>5
<1>2. BudgetTypes'
  BY <1>1 DEF BudgetInv, BudgetTypes, budgetVars
<1> QED BY <1>1, <1>2, SameBook DEF budgetVars

(* Steps of a call other than its reservation and its charge: the book      *)
(* stays, and usage is a number.                                            *)
LEMMA CallSteps ==
  ASSUME BudgetInv, NEW r \in Runs,
         StartModel(r) \/ ModelAnswers(r) \/ ModelFails(r) \/ SettleModelStep(r) \/ Unwind(r)
  PROVE  BudgetInv'
<1>1. BudgetTypes
  BY DEF BudgetInv
<1>2. CASE StartModel(r)
  BY <1>1, <1>2, SameBook DEF StartModel, BudgetTypes, StepStatuses
<1>3. CASE ModelAnswers(r)
  <2>1. PICK k \in Own(r) : \E t \in 0..MaxAnswer \cup {book[r][k].reserved} :
                              spent' = [spent EXCEPT ![r] = t]
    BY <1>3 DEF ModelAnswers
  <2>2. PICK t \in 0..MaxAnswer \cup {book[r][k].reserved} :
               spent' = [spent EXCEPT ![r] = t]
    BY <2>1
  <2>3. k \in Calls
    BY DEF Own
  <2>4. t \in Nat
    <3>1. book[r][k] \in Rows
      BY <1>1, <2>3 DEF BudgetTypes
    <3> QED BY <2>2, <3>1, RowFacts, SubagentAssumption
  <2>5. UNCHANGED budgetVars
    BY <1>3 DEF ModelAnswers
  <2> QED BY <1>1, <2>2, <2>4, <2>5, SameBook DEF BudgetTypes, budgetVars
<1>4. CASE ModelFails(r)
  <2>1. PICK k \in Own(r) : step' = [step EXCEPT ![r][k] = "failed"]
    BY <1>4 DEF ModelFails
  <2>2. UNCHANGED <<book, usage, spent>>
    BY <1>4 DEF ModelFails
  <2>3. step' \in [Runs -> [Calls -> StepStatuses]]
    BY <1>1, <2>1 DEF BudgetTypes, StepStatuses
  <2>4. BudgetTypes'
    BY <1>1, <2>2, <2>3 DEF BudgetTypes
  <2> QED BY <2>2, <2>4, SameBook
<1>5. CASE SettleModelStep(r)
  <2>1. PICK k \in Own(r) : /\ step' = [step EXCEPT ![r][k] = "completed"]
                            /\ usage' = [usage EXCEPT ![r][k] = spent[r]]
    BY <1>5 DEF SettleModelStep
  <2>2. book' = book /\ spent' = [spent EXCEPT ![r] = 0]
    BY <1>5 DEF SettleModelStep
  <2>3. step' \in [Runs -> [Calls -> StepStatuses]]
    BY <1>1, <2>1 DEF BudgetTypes, StepStatuses
  <2>4. usage' \in [Runs -> [Calls -> Nat]] /\ spent' \in [Runs -> Nat]
    BY <1>1, <2>1, <2>2 DEF BudgetTypes
  <2>5. BudgetTypes'
    BY <1>1, <2>2, <2>3, <2>4 DEF BudgetTypes
  <2> QED BY <2>2, <2>5, SameBook
<1>6. CASE Unwind(r)
  BY <1>1, <1>6, SameBook DEF Unwind, BudgetTypes, StepStatuses
<1> QED BY <1>2, <1>3, <1>4, <1>5, <1>6

(* What a call reserves is within the allowance of its run.                 *)
LEMMA ReservedFacts ==
  ASSUME BudgetTypes, NEW r \in Runs, Allowance(r) > InputBound
  PROVE  LET v == InputBound + Min({MaxOutput, Allowance(r) - InputBound})
         IN  /\ v \in Nat
             /\ TakenByTree(book) + v <= RootTokens
             /\ r # Root => TakenByChildren(book) + v <= RootTokens - ParentReserve
<1> DEFINE a == Allowance(r)
<1>1. {InputBound, MaxOutput, RootTokens, ParentReserve, ChildTokens} \subseteq Nat
  BY SubagentAssumption
<1>2. /\ HeldByTree(book) \in Nat /\ TakenByTree(book) \in Nat /\ TakenByChildren(book) \in Nat
      /\ TakenByChildren(book) <= TakenByTree(book) /\ TakenByTree(book) <= HeldByTree(book)
  BY TreeTakes DEF BudgetTypes
<1>3. used = HeldByTree(book) /\ run_used(r) \in Nat
  BY BookWords, RunTakes DEF BudgetTypes
<1>4. /\ a \in Int /\ a <= RootTokens - HeldByTree(book)
      /\ r # Root => a <= RootTokens - HeldByTree(book) - ParentReserve
  <2>1. CASE r = Root
    BY <1>1, <1>2, <1>3, <2>1 DEF Allowance
  <2>2. CASE r # Root
    <3> DEFINE x == RootTokens - used - ParentReserve
               y == ChildTokens - run_used(r)
    <3>1. x \in Int /\ y \in Int
      BY <1>1, <1>2, <1>3
    <3>2. Min({x, y}) \in {x, y} /\ Min({x, y}) <= x
      <4> HIDE DEF x, y
      <4> QED BY <3>1, MinOfTwo
    <3>3. a = Min({x, y})
      BY <2>2 DEF Allowance
    <3>4. a \in Int /\ a <= x
      <4> HIDE DEF x, y, a
      <4> QED BY <3>1, <3>2, <3>3
    <3> HIDE DEF a
    <3> QED BY <1>1, <1>2, <1>3, <3>4
  <2> QED BY <2>1, <2>2
<1> HIDE DEF a
<1> DEFINE w == Min({MaxOutput, a - InputBound})
<1>5. a > InputBound
  BY DEF a
<1>6. w \in Nat /\ w <= a - InputBound
  <2>1. a - InputBound \in Nat
    BY <1>1, <1>4, <1>5
  <2> DEFINE x == a - InputBound
  <2>2. x \in Int /\ MaxOutput \in Int
    BY <1>1, <2>1
  <2>3. Min({MaxOutput, x}) \in {MaxOutput, x} /\ Min({MaxOutput, x}) <= x
    <3> HIDE DEF x
    <3> QED BY <2>2, MinOfTwo
  <2> QED BY <1>1, <2>1, <2>3
<1> HIDE DEF w
<1>7. /\ InputBound + w \in Nat
      /\ TakenByTree(book) + (InputBound + w) <= RootTokens
      /\ r # Root => TakenByChildren(book) + (InputBound + w) <= RootTokens - ParentReserve
  BY <1>1, <1>2, <1>4, <1>6
<1> QED BY <1>7 DEF w, a

(* A reservation fits what is left of the budget.                           *)
LEMMA ReserveModelKeeps ==
  ASSUME BudgetInv, NEW r \in Runs, ReserveModel(r)
  PROVE  BudgetInv'
<1>1. PICK k \in Own(r) :
        IF Allowance(r) > InputBound
        THEN /\ book' = [book EXCEPT ![r][k].reserved =
                           InputBound + Min({MaxOutput, Allowance(r) - InputBound})]
             /\ Goto(r, "calling")
             /\ UNCHANGED <<status, step>>
        ELSE /\ step' = [step EXCEPT ![r][k] = "failed"]
             /\ Move(r, "failed")
             /\ Goto(r, "done")
             /\ UNCHANGED book
  BY DEF ReserveModel
<1>2. UNCHANGED <<usage, spent>> /\ BudgetTypes /\ BudgetHeld /\ k \in Calls
  BY DEF ReserveModel, BudgetInv, Own
<1>3. CASE ~(Allowance(r) > InputBound)
  <2>1. step' = [step EXCEPT ![r][k] = "failed"] /\ book' = book
    BY <1>1, <1>3
  <2>2. step' \in [Runs -> [Calls -> StepStatuses]]
    BY <1>2, <2>1 DEF BudgetTypes, StepStatuses
  <2>3. BudgetTypes'
    BY <1>2, <2>1, <2>2 DEF BudgetTypes
  <2> QED BY <2>1, <2>3, SameBook
<1>4. CASE Allowance(r) > InputBound
  <2> DEFINE v == InputBound + Min({MaxOutput, Allowance(r) - InputBound})
  <2>1. /\ v \in Nat
        /\ TakenByTree(book) + v <= RootTokens
        /\ r # Root => TakenByChildren(book) + v <= RootTokens - ParentReserve
    BY <1>2, <1>4, ReservedFacts
  <2>2. book' = [book EXCEPT ![r][k].reserved = v] /\ step' = step
    BY <1>1, <1>4
  <2> HIDE DEF v
  <2>3. BudgetTypes'
    <3>1. [book[r][k] EXCEPT !.reserved = v] \in Rows
      <4> DEFINE row == book[r][k]
      <4>1. row \in Rows
        BY <1>2 DEF BudgetTypes
      <4> HIDE DEF row
      <4>2. [row EXCEPT !.reserved = v] \in Rows
        BY <2>1, <4>1 DEF Rows
      <4> QED BY <4>2 DEF row
    <3>2. book' \in [Runs -> [Calls -> Rows]]
      BY <1>2, <2>2, <3>1 DEF BudgetTypes
    <3> QED BY <1>2, <2>2, <3>2 DEF BudgetTypes
  <2>4. /\ \A j \in Calls \ {k} : book'[r][j] = book[r][j]
        /\ book'[r][k].reserved = v
        /\ \A s \in Runs \ {r} : book'[s] = book[s]
    BY <1>2, <2>1, <2>2 DEF BudgetTypes, Rows
  <2>5. TakenByRun(book'[r]) <= TakenByRun(book[r]) + v
    <3>1. book[r] \in [Calls -> Rows] /\ book'[r] \in [Calls -> Rows]
      BY <1>2, <2>3 DEF BudgetTypes
    <3>2. \A j \in Calls : Taken(book[r][j]) \in Nat
      BY <3>1, RowFacts
    <3>3. Taken(book'[r][k]) <= Taken(book[r][k]) + v
      <4>1. Taken(book'[r][k]) \in Nat /\ Taken(book'[r][k]) <= v /\ Taken(book[r][k]) \in Nat
        BY <1>2, <2>4, <3>1, RowFacts
      <4> QED BY <2>1, <4>1
    <3>4. \A j \in Calls \ {k} : Taken(book'[r][j]) <= Taken(book[r][j])
      BY <2>4, <3>2
    <3> QED BY <1>2, <2>1, <3>1, <3>3, <3>4, RowGrows
  <2>6. /\ TakenByTree(book') <= TakenByTree(book) + v
        /\ TakenByChildren(book') <= TakenByChildren(book) + v
        /\ r = Root => TakenByChildren(book') <= TakenByChildren(book)
    BY <1>2, <2>1, <2>3, <2>4, <2>5, TreeGrows DEF BudgetTypes
  <2>7. /\ TakenByTree(book) \in Nat /\ TakenByTree(book') \in Nat
        /\ TakenByChildren(book) \in Nat /\ TakenByChildren(book') \in Nat
    BY <1>2, <2>3, TreeTakes DEF BudgetTypes
  <2>8. RootTokens \in Nat /\ ParentReserve \in Nat
    BY SubagentAssumption
  <2>9. TakenByChildren(book) <= RootTokens - ParentReserve
    BY <1>2, BookWords
  <2>10. /\ TakenByTree(book') <= RootTokens
         /\ TakenByChildren(book') <= RootTokens - ParentReserve
    BY <2>1, <2>6, <2>7, <2>8, <2>9
  <2>11. BudgetHeld'
    BY <2>10 DEF BudgetHeld, TakenOf, TakenByTree, TakenByChildren, TakenByRun, Taken
  <2> QED BY <2>3, <2>11 DEF BudgetInv
<1> QED BY <1>3, <1>4

(* A charge takes no more than its reservation took, whatever was used.     *)
LEMMA ChargedKeeps ==
  ASSUME BudgetInv, NEW r \in Runs, NEW K,
         book' = [book EXCEPT ![r] = Charged(r, K)],
         step' = step, usage' = usage, spent' = spent
  PROVE  BudgetInv'
<1>1. BudgetTypes /\ BudgetHeld
  BY DEF BudgetInv
<1>2. /\ \A j \in Calls : book'[r][j] = IF j \in K \cap Uncharged(r)
                                        THEN [book[r][j] EXCEPT !.charged = usage[r][j]]
                                        ELSE book[r][j]
      /\ \A s \in Runs \ {r} : book'[s] = book[s]
      /\ book' = [book EXCEPT ![r] = Charged(r, K)]
  BY <1>1 DEF BudgetTypes, Charged
<1>3. Charged(r, K) \in [Calls -> Rows]
  <2> SUFFICES ASSUME NEW j \in Calls PROVE Charged(r, K)[j] \in Rows
    BY DEF Charged
  <2> DEFINE row == book[r][j]
  <2>1. row \in Rows /\ usage[r][j] \in Nat
    BY <1>1 DEF BudgetTypes
  <2>2. Charged(r, K)[j] \in {row, [row EXCEPT !.charged = usage[r][j]]}
    BY DEF Charged
  <2> HIDE DEF row
  <2>3. [row EXCEPT !.charged = usage[r][j]] \in Rows
    BY <2>1 DEF Rows
  <2> QED BY <2>1, <2>2, <2>3
<1>4. BudgetTypes'
  BY <1>1, <1>2, <1>3 DEF BudgetTypes
<1>5. \A j \in Calls : Taken(book'[r][j]) <= Taken(book[r][j])
  <2> SUFFICES ASSUME NEW j \in Calls PROVE Taken(book'[r][j]) <= Taken(book[r][j])
    OBVIOUS
  <2>1. book[r][j] \in Rows /\ book'[r][j] \in Rows
    BY <1>1, <1>4 DEF BudgetTypes
  <2>2. Taken(book[r][j]) \in Nat /\ Taken(book'[r][j]) \in Nat
        /\ Taken(book'[r][j]) <= book'[r][j].reserved
    BY <2>1, RowFacts
  <2>3. CASE j \in K \cap Uncharged(r)
    <3>1. book'[r][j].reserved = book[r][j].reserved /\ book[r][j].charged = NotCharged
      BY <1>2, <2>1, <2>3 DEF Rows, Uncharged
    <3>2. Taken(book[r][j]) = book[r][j].reserved
      BY <2>1, <3>1 DEF Taken, NotCharged, Rows
    <3> QED BY <2>2, <3>1, <3>2
  <2>4. CASE j \notin K \cap Uncharged(r)
    <3>1. book'[r][j] = book[r][j]
      BY <1>2, <2>4
    <3> QED BY <2>2, <3>1
  <2> QED BY <2>3, <2>4
<1>6. TakenByRun(book'[r]) <= TakenByRun(book[r]) + 0
  <2>1. book[r] \in [Calls -> Rows] /\ book'[r] \in [Calls -> Rows]
    BY <1>1, <1>4 DEF BudgetTypes
  <2>2. TakenByRun(book[r]) \in Nat /\ TakenByRun(book'[r]) <= TakenByRun(book[r])
    BY <1>5, <2>1, RunTakes, RowsShrink
  <2>3. TakenByRun(book'[r]) \in Nat
    BY <2>1, RunTakes
  <2> QED BY <2>2, <2>3
<1>7. /\ TakenByTree(book') <= TakenByTree(book) + 0
      /\ TakenByChildren(book') <= TakenByChildren(book) + 0
  BY <1>1, <1>2, <1>4, <1>6, TreeGrows DEF BudgetTypes
<1>8. /\ TakenByTree(book) \in Nat /\ TakenByTree(book') \in Nat
      /\ TakenByChildren(book) \in Nat /\ TakenByChildren(book') \in Nat
      /\ RootTokens \in Nat /\ ParentReserve \in Nat
  BY <1>1, <1>4, TreeTakes, SubagentAssumption DEF BudgetTypes
<1>9. /\ TakenByTree(book) <= RootTokens
      /\ TakenByChildren(book) <= RootTokens - ParentReserve
  BY <1>1, BookWords
<1>10. /\ TakenByTree(book') <= RootTokens
       /\ TakenByChildren(book') <= RootTokens - ParentReserve
  BY <1>7, <1>8, <1>9
<1>11. BudgetHeld'
  BY <1>10 DEF BudgetHeld, TakenOf, TakenByTree, TakenByChildren, TakenByRun, Taken
<1> QED BY <1>4, <1>11 DEF BudgetInv

(* The user's decision on a call that recovery left uncertain.              *)
LEMMA ResumeKeeps ==
  ASSUME BudgetInv, Resume
  PROVE  BudgetInv'
<1> DEFINE unsure(r, k) == r \in {s \in Runs : status[s] = "interrupted"} /\ step[r][k] = "uncertain"
<1>1. PICK to \in {"failed", "completed"} :
        /\ step' = [r \in Runs |-> [k \in Calls |-> IF unsure(r, k) THEN to ELSE step[r][k]]]
        /\ usage' = [r \in Runs |-> [k \in Calls |->
                      IF unsure(r, k) /\ to = "completed" THEN book[r][k].reserved
                      ELSE usage[r][k]]]
  BY DEF Resume
<1>2. book' = book /\ spent' = spent /\ BudgetTypes
  BY DEF Resume, taskVars, BudgetInv
<1>3. \A r \in Runs : \A k \in Calls : book[r][k].reserved \in Nat
  BY <1>2 DEF BudgetTypes, Rows
<1>4. step' \in [Runs -> [Calls -> StepStatuses]] /\ usage' \in [Runs -> [Calls -> Nat]]
  BY <1>1, <1>2, <1>3 DEF BudgetTypes, StepStatuses
<1> QED BY <1>2, <1>4, SameBook DEF BudgetTypes

(* A lost process leaves the rows, and recovery settles what is open.       *)
LEMMA RecoveryKeeps ==
  ASSUME BudgetInv, ProcessLoss \/ Restart
  PROVE  BudgetInv'
<1>1. BudgetTypes
  BY DEF BudgetInv
<1>2. CASE ProcessLoss
  BY <1>1, <1>2, SameBook DEF ProcessLoss, budgetVars, BudgetTypes
<1>3. CASE Restart
  <2>1. book' = book /\ usage' = usage /\ spent' = spent
    BY <1>3 DEF Restart, taskVars
  <2>2. step' \in [Runs -> [Calls -> StepStatuses]]
    BY <1>1, <1>3 DEF Restart, BudgetTypes, StepStatuses
  <2> QED BY <1>1, <2>1, <2>2, SameBook DEF BudgetTypes
<1> QED BY <1>2, <1>3

(* Nothing is taken before the first call.                                  *)
LEMMA NothingTaken ==
  ASSUME Init
  PROVE  BudgetInv
<1>1. /\ step = [r \in Runs |-> [k \in Calls |-> "none"]]
      /\ usage = [r \in Runs |-> [k \in Calls |-> 0]]
      /\ book = [r \in Runs |-> [k \in Calls |-> NoRow]]
      /\ spent = [r \in Runs |-> 0]
  BY DEF Init
<1>2. BudgetTypes
  BY <1>1 DEF BudgetTypes, StepStatuses, Rows, NoRow, NotCharged
<1>3. TakenByTree(book) = 0
  <2> DEFINE F == [k \in Calls |-> Taken(NoRow)]
             G == [r \in Runs |-> TakenByRun(book[r])]
  <2>1. Taken(NoRow) = 0
    BY DEF Taken, NoRow, NotCharged
  <2>2. F \in [Calls -> Nat] /\ Units(F, Calls) = {}
    BY <2>1 DEF Units
  <2>3. SumFunction(F) = 0
    <3> HIDE DEF F
    <3> QED BY <2>2, FiniteTree, SumCounts, FS_EmptySet
  <2>4. \A r \in Runs : TakenByRun(book[r]) = 0
    <3> SUFFICES ASSUME NEW r \in Runs PROVE TakenByRun(book[r]) = 0
      OBVIOUS
    <3>1. [k \in Calls |-> Taken(book[r][k])] = F
      BY <1>1
    <3> QED BY <2>3, <3>1 DEF TakenByRun
  <2>5. G \in [Runs -> Nat] /\ Units(G, Runs) = {}
    BY <2>4 DEF Units
  <2>6. SumFunction(G) = 0
    <3> HIDE DEF G
    <3> QED BY <2>5, FiniteTree, SumCounts, FS_EmptySet
  <2> QED BY <2>6 DEF TakenByTree
<1>4. TakenByChildren(book) \in Nat /\ TakenByChildren(book) <= TakenByTree(book)
  BY <1>2, TreeTakes DEF BudgetTypes
<1>5. RootTokens \in Nat /\ ParentReserve \in Nat /\ ParentReserve <= RootTokens
  BY SubagentAssumption
<1>6. BudgetHeld
  BY <1>3, <1>4, <1>5, BookWords
<1> QED BY <1>2, <1>6 DEF BudgetInv

(* Every step keeps the budget.                                             *)
LEMMA NextKeepsBudget ==
  ASSUME BudgetInv, [Next]_vars
  PROVE  BudgetInv'
<1>1. ASSUME NEW r \in Runs, Task(r) \/ Unwind(r) \/ TaskDone(r) \/ Reconcile(r)
      PROVE  BudgetInv'
  <2>1. CASE Finish(r) \/ Requeue(r) \/ TaskDone(r)
    BY <2>1, CalmSteps
  <2>2. CASE StartModel(r) \/ ModelAnswers(r) \/ ModelFails(r) \/ SettleModelStep(r) \/ Unwind(r)
    BY <2>2, CallSteps
  <2>3. CASE ReserveModel(r)
    BY <2>3, ReserveModelKeeps
  <2>4. CASE ChargeModel(r)
    <3>1. /\ step' = step /\ usage' = usage /\ spent' = spent
          /\ book' = [book EXCEPT ![r] = Charged(r, Own(r))]
      BY <2>4 DEF ChargeModel
    <3> QED BY <3>1, ChargedKeeps
  <2>5. CASE Reconcile(r)
    <3>1. /\ step' = step /\ usage' = usage /\ spent' = spent
          /\ book' = [book EXCEPT ![r] = Charged(r, Calls)]
      BY <2>5 DEF Reconcile, taskVars
    <3> QED BY <3>1, ChargedKeeps
  <2> QED BY <1>1, <2>1, <2>2, <2>3, <2>4, <2>5 DEF Task
<1>2. CASE \/ RootTask \/ BindChild \/ SettleWait \/ DeleteWait \/ EndsChildren \/ Claim \/ Sweep
           \/ Clock \/ CancelLists \/ CancelEnds \/ Pause \/ UNCHANGED vars
  BY <1>2, CalmSteps
<1>3. CASE Resume
  BY <1>3, ResumeKeeps
<1>4. CASE ProcessLoss \/ Restart
  BY <1>4, RecoveryKeeps
<1> QED BY <1>1, <1>2, <1>3, <1>4 DEF Next, User

(* The tree of a root never takes more than the root budget, but for what   *)
(* providers report beyond the reservations of their own calls, and its     *)
(* children leave the parent its reserve: for any number of children and    *)
(* calls and any report, whatever pauses, cancels and process losses come   *)
(* between a reservation, the answer and the charge.  About reserve_model   *)
(* and settle_model.                                                        *)
THEOREM BudgetKept == Spec => []BudgetHeld
<1>1. Init => BudgetInv
  BY NothingTaken
<1>2. BudgetInv /\ [Next]_vars => BudgetInv'
  BY NextKeepsBudget
<1>3. BudgetInv => BudgetHeld
  BY DEF BudgetInv
<1>4. QED
  BY <1>1, <1>2, <1>3, PTL DEF Spec
=============================================================================
