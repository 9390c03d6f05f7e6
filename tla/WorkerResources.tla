-------------------------- MODULE WorkerResources --------------------------
(***************************************************************************)
(* Memory admission and idle eviction of Model Workers                     *)
(* (ai2apps/worker_resources.py).  A Ticket is one request for a worker;   *)
(* the scheduler reserves its estimated bytes before it starts and the     *)
(* sweeper stops a worker that holds no reservation.                       *)
(*                                                                         *)
(* The sampled system memory is one number, headroom: the total the host   *)
(* can still promise (the lower of soft ceiling - used, hard ceiling -     *)
(* used and available - safety margin).  It changes at any time.           *)
(***************************************************************************)
EXTENDS Naturals, FiniteSets, FiniteSetsExt

CONSTANTS
  Jobs,        \* calls of acquire(), each with at most one ticket
  Workers,     \* service keys
  Job,         \* the arguments of each call
  Ranks,       \* _CLASS_RANK values in use
  Actors, NoActor, Apps, NoApp, Requests,
  NoTimeout,
  MaxPinned,   \* WorkerResourceConfig.max_pinned_workers
  Headrooms    \* the memory samples of this model

JobArguments ==
  [worker : Workers, rank : Ranks, actor : Actors \cup {NoActor},
   app : Apps \cup {NoApp}, request : Requests,
   timeout : Nat \cup {NoTimeout}, bytes : Nat]

ASSUME ResourceAssumption ==
  /\ IsFiniteSet(Jobs)
  /\ Job \in [Jobs -> JobArguments]
  /\ Ranks \subseteq 0..4
  /\ NoActor \notin Actors /\ NoApp \notin Apps /\ NoTimeout \notin Nat
  /\ MaxPinned \in Nat
  /\ Headrooms \subseteq Nat

VARIABLES
  reservations,  \* tickets in WorkerResourceManager._reservations
  evicting,      \* _evicting: workers whose admission is closed
  pinned,        \* _pinned
  headroom       \* what the next memory sample allows

resourceVars == <<reservations, evicting, pinned, headroom>>

ResourcesInit ==
  /\ reservations = {} /\ evicting = {} /\ pinned = {}
  /\ headroom \in Headrooms

ReservedBytes == MapThenSumSet(LAMBDA j : Job[j].bytes, reservations)

(* Variant: admission stays open during an eviction.                       *)
AdmitsEvicting(j) ==
  j \in reservations \/ ReservedBytes + Job[j].bytes <= headroom

(* try_reserve would return a reservation.                                 *)
Admits(j) ==
  \/ j \in reservations
  \/ /\ Job[j].worker \notin evicting
     /\ ReservedBytes + Job[j].bytes <= headroom

ReservedOn(w) == {j \in reservations : Job[j].worker = w}

(* evict_idle up to its first await.  Its only caller is the sweeper task, *)
(* which evicts one worker at a time.                                      *)
BeginEviction(w) ==
  /\ evicting = {}
  /\ ReservedOn(w) = {} /\ w \notin pinned /\ w \notin evicting
  /\ evicting' = evicting \cup {w}
  /\ UNCHANGED <<reservations, pinned, headroom>>

(* set_pinned: a pin is refused during an eviction and above the limit.    *)
Pin(w) ==
  /\ w \notin evicting /\ w \notin pinned
  /\ Cardinality(pinned) < MaxPinned
  /\ pinned' = pinned \cup {w}
  /\ UNCHANGED <<reservations, evicting, headroom>>

Unpin(w) ==
  /\ w \in pinned
  /\ pinned' = pinned \ {w}
  /\ UNCHANGED <<reservations, evicting, headroom>>

MemoryChanges(h) ==
  /\ headroom' = h /\ h # headroom
  /\ UNCHANGED <<reservations, evicting, pinned>>
=============================================================================
