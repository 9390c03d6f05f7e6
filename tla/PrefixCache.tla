---------------------------- MODULE PrefixCache ----------------------------
(***************************************************************************)
(* Prefix reuse of the inference engine (BlockAwarePrefixCache in          *)
(* omlx/cache/prefix_cache.py, driven by omlx/scheduler.py): a request     *)
(* looks up the blocks of its prompt, rebuilds their data from SSD, runs,  *)
(* and its own blocks are stored when it finishes.                         *)
(*                                                                         *)
(* Two threads share the pool: the inference thread, and the single        *)
(* thread of _store_cache_executor, which stores finished requests while   *)
(* the next ones are admitted.  Every call into the pool is atomic; the    *)
(* sequences of calls are not.  Without the executor the inference thread  *)
(* stores a request itself.                                                *)
(***************************************************************************)
EXTENDS PagedCache

CONSTANTS
  Requests, NoRequest,
  Chain,        \* the chain hashes of each request's full blocks
  Rejected,     \* requests the memory guard rejects before prefill
  Failing,      \* requests whose store may raise
  Executors     \* whether _store_cache_executor exists: the cases in question

ASSUME RequestAssumption ==
  /\ NoRequest \notin Requests /\ Chain \in [Requests -> Seq(Hashes)]
  /\ Rejected \cup Failing \subseteq Requests /\ Executors \subseteq BOOLEAN

(* compute_block_hash covers a block's tokens and its parent's hash, so a  *)
(* hash stands for one place in one chain.                                 *)
ASSUME ChainAssumption ==
  \A r, s \in Requests : \A i \in DOMAIN Chain[r], k \in DOMAIN Chain[s] :
    Chain[r][i] = Chain[s][k] => i = k /\ SubSeq(Chain[r], 1, i) = SubSeq(Chain[s], 1, k)

VARIABLES
  executor,  \* _store_cache_executor is not None
  pool,
  ssd,       \* hashes whose data PagedSSDCacheManager holds
  phase,     \* where each request is
  table,     \* its BlockTable
  loaded,    \* the content reconstruct_cache put into its prompt cache
  fetch,     \* fetch_cache between its calls: its request, the blocks to claim
             \* and whether it has turned to the prefix index
  queue,     \* requests submitted to the store executor
  store      \* store_cache between its calls

vars == <<executor, pool, ssd, phase, table, loaded, fetch, queue, store>>

NoFetch == [req |-> NoRequest, ids |-> <<>>, indexed |-> FALSE]
NoStore == [req |-> NoRequest, at |-> "idle", ids |-> <<>>]

Init ==
  /\ executor \in Executors
  /\ pool = NewPool /\ ssd = {}
  /\ phase = [r \in Requests |-> "new"]
  /\ table = [r \in Requests |-> <<>>]
  /\ loaded = [r \in Requests |-> <<>>]
  /\ fetch = NoFetch /\ queue = <<>> /\ store = NoStore

(* The inference thread is free, between two requests.                     *)
InferenceTurn ==
  /\ fetch = NoFetch
  /\ executor \/ (store = NoStore /\ queue = <<>>)

-----------------------------------------------------------------------------
(* fetch_cache: find_shared_prefix.  A long prompt that shares tokens with *)
(* a store in flight is put off for up to four seconds; a prompt of fewer  *)
(* than 512 tokens, two blocks, never is, and the requests here are such.  *)
FindSharedPrefix(r) ==
  LET walk == GetComputedBlocks(pool, ssd, Chain[r])
  IN  /\ InferenceTurn /\ phase[r] = "new"
      /\ pool' = walk.pool
      /\ fetch' = [req |-> r, ids |-> walk.found, indexed |-> walk.found = <<>>]
      /\ phase' = [phase EXCEPT ![r] = "fetching"]
      /\ UNCHANGED <<executor, ssd, table, loaded, queue, store>>

(* Its loop: increment_ref, whose result is ignored, and the block if it   *)
(* is allocated.                                                           *)
ClaimBlock ==
  LET r == fetch.req
      b == Head(fetch.ids)
  IN  /\ fetch # NoFetch /\ fetch.ids # <<>>
      /\ pool' = IncrementRef(pool, b)
      /\ table' = [table EXCEPT ![r] = IF b \in pool.allocated THEN Append(@, b) ELSE @]
      /\ fetch' = [fetch EXCEPT !.ids = Tail(@)]
      /\ UNCHANGED <<executor, ssd, phase, loaded, queue, store>>

(* Variant: the block is taken without a look at its hash.                 *)
AcquireUnseen ==
  LET r == fetch.req
  IN  /\ fetch.indexed /\ Len(table[r]) < Len(Chain[r])
      /\ \E b \in pool.allocated :
           /\ pool' = IncrementRef(pool, b)
           /\ table' = [table EXCEPT ![r] = Append(@, b)]
      /\ UNCHANGED <<executor, ssd, phase, loaded, fetch, queue, store>>

(* Nothing was found: fetch_cache walks a chain of _prefix_index, which is *)
(* a hint that may be stale and is left open.  acquire_cached_block takes  *)
(* a block if it still holds the hash, and the first that does not ends    *)
(* the walk.                                                               *)
AcquireBlock ==
  LET r == fetch.req
      n == Len(table[r])
  IN  /\ fetch.indexed /\ n < Len(Chain[r])
      /\ \E b \in pool.allocated :
           /\ pool.hash[b] = Chain[r][n + 1]
           /\ pool' = IncrementRef(pool, b)
           /\ table' = [table EXCEPT ![r] = Append(@, b)]
      /\ UNCHANGED <<executor, ssd, phase, loaded, fetch, queue, store>>

(* The blocks whose data reconstruct_cache can load: up to the first that  *)
(* is gone, has no hash or is not on SSD.                                  *)
Loadable(r) ==
  LET ok(b) == b \in pool.allocated /\ pool.hash[b] \in ssd
      n == CHOOSE k \in 0..Len(table[r]) :
             /\ \A i \in 1..k : ok(table[r][i])
             /\ k = Len(table[r]) \/ ~ok(table[r][k + 1])
  IN  SubSeq(table[r], 1, n)

(* The first block that failed to load leaves the index.                   *)
ForgetUnloadable(r) ==
  LET n == Len(Loadable(r)) + 1
  IN  IF n > Len(table[r]) THEN pool
      ELSE [pool EXCEPT !.index = Pop(@, pool.hash[table[r][n]], table[r][n])]

(* The references of the blocks behind the first n are freed: those that   *)
(* did not load, and then those given up.                                  *)
DropBehind(r, n) ==
  LET m == Len(Loadable(r))
  IN  FreeAll(FreeAll(ForgetUnloadable(r), SubSeq(table[r], m + 1, Len(table[r]))),
              SubSeq(table[r], n + 1, m))

(* reconstruct_cache and what the scheduler makes of it.  The walk back to *)
(* a block with the state of every layer keeps some of the loaded blocks;  *)
(* of None the scheduler makes delete_block_table and a request that       *)
(* starts from its first token.                                            *)
Reconstruct ==
  LET r == fetch.req
  IN  /\ fetch # NoFetch /\ fetch.ids = <<>>
      /\ \E n \in 0..Len(Loadable(r)) :
           /\ pool' = DropBehind(r, n)
           /\ table' = [table EXCEPT ![r] = SubSeq(@, 1, n)]
           /\ loaded' = [loaded EXCEPT ![r] = [i \in 1..n |-> pool.hash[table[r][i]]]]
      /\ phase' = [phase EXCEPT ![r] = "running"]
      /\ fetch' = NoFetch
      /\ UNCHANGED <<executor, ssd, queue, store>>

(* The scheduler's fallback when the cache cannot be trimmed by one        *)
(* token: delete_block_table and a full prefill.                           *)
FullPrefill(r) ==
  /\ InferenceTurn /\ phase[r] = "running" /\ loaded[r] = Chain[r] /\ Chain[r] # <<>>
  /\ pool' = FreeAll(pool, table[r])
  /\ table' = [table EXCEPT ![r] = <<>>]
  /\ loaded' = [loaded EXCEPT ![r] = <<>>]
  /\ UNCHANGED <<executor, ssd, phase, fetch, queue, store>>

(* _release_paged_cache_for_request: release_cache frees the table of a    *)
(* request it has an entry for, and fetch_cache makes no entry.            *)
Reject(r) ==
  /\ InferenceTurn /\ r \in Rejected /\ phase[r] = "running"
  /\ phase' = [phase EXCEPT ![r] = "rejected"]
  /\ UNCHANGED <<executor, pool, ssd, table, loaded, fetch, queue, store>>

(* An abort, or an end without a cache to store.                           *)
Abort(r) ==
  /\ InferenceTurn /\ phase[r] = "running"
  /\ pool' = ReleaseForEviction(pool, table[r])
  /\ phase' = [phase EXCEPT ![r] = "over"]
  /\ UNCHANGED <<executor, ssd, table, loaded, fetch, queue, store>>

(* _cleanup_finished submits the request to the store executor.            *)
Finish(r) ==
  /\ InferenceTurn /\ phase[r] = "running"
  /\ phase' = [phase EXCEPT ![r] = "storing"]
  /\ queue' = Append(queue, r)
  /\ UNCHANGED <<executor, pool, ssd, table, loaded, fetch, store>>

(* ... or the submission raises, which _cleanup_finished only logs: the    *)
(* request ends with its references.                                       *)
SubmitFails(r) ==
  /\ executor /\ InferenceTurn /\ r \in Failing /\ phase[r] = "running"
  /\ phase' = [phase EXCEPT ![r] = "failed"]
  /\ UNCHANGED <<executor, pool, ssd, table, loaded, fetch, queue, store>>

-----------------------------------------------------------------------------
(* store_cache on the executor's thread, one block of the chain at a time. *)
StoreBegins ==
  /\ store = NoStore /\ queue # <<>>
  /\ store' = [req |-> Head(queue), at |-> "next", ids |-> <<>>]
  /\ queue' = Tail(queue)
  /\ UNCHANGED <<executor, pool, ssd, phase, table, loaded, fetch>>

NextHash == Chain[store.req][Len(table[store.req]) + 1]
Moves(at, ids) == store' = [store EXCEPT !.at = at, !.ids = ids]

(* Deduplication: find_cached_block ...                                    *)
StoreFinds ==
  /\ store.at = "next" /\ Len(table[store.req]) < Len(Chain[store.req])
  /\ LET hit == Lookup(pool.index, NextHash)
     IN  IF hit = <<>> THEN Moves("allocate", <<>>) ELSE Moves("share", hit)
  /\ UNCHANGED <<executor, pool, ssd, phase, table, loaded, fetch, queue>>

(* ... and increment_ref, whose result is ignored.                         *)
StoreShares ==
  /\ store.at = "share"
  /\ pool' = IncrementRef(pool, store.ids[1])
  /\ table' = [table EXCEPT ![store.req] = Append(@, store.ids[1])]
  /\ Moves("next", <<>>)
  /\ UNCHANGED <<executor, ssd, phase, loaded, fetch, queue>>

StoreAllocates ==
  /\ store.at = "allocate" /\ pool.free # <<>>
  /\ pool' = Allocate(pool)
  /\ table' = [table EXCEPT ![store.req] = Append(@, Head(pool.free))]
  /\ Moves("register", <<Head(pool.free)>>)
  /\ UNCHANGED <<executor, ssd, phase, loaded, fetch, queue>>

(* The queue is empty.  handle_memory_pressure rotates the free queue, so  *)
(* that it finds nothing either, and the chain is left where it is.        *)
StoreOutOfBlocks ==
  /\ store.at = "allocate" /\ pool.free = <<>>
  /\ Moves("release", <<>>)
  /\ UNCHANGED <<executor, pool, ssd, phase, table, loaded, fetch, queue>>

StoreRegisters ==
  /\ store.at = "register"
  /\ pool' = Register(pool, store.ids[1], Chain[store.req][Len(table[store.req])])
  /\ Moves("save", store.ids)
  /\ UNCHANGED <<executor, ssd, phase, table, loaded, fetch, queue>>

StoreSaves ==
  /\ store.at = "save"
  /\ ssd' = ssd \cup {Chain[store.req][Len(table[store.req])]}
  /\ Moves("next", <<>>)
  /\ UNCHANGED <<executor, pool, phase, table, loaded, fetch, queue>>

(* save_block fails, or there is no data to save: the block is rolled      *)
(* back.                                                                   *)
StoreFailsToSave ==
  /\ store.at = "save"
  /\ pool' = Free(pool, store.ids[1])
  /\ table' = [table EXCEPT ![store.req] = Front(@)]
  /\ Moves("release", <<>>)
  /\ UNCHANGED <<executor, ssd, phase, loaded, fetch, queue>>

(* The end of _async_store_cache_worker.                                   *)
StoreReleases ==
  /\ \/ store.at = "release"
     \/ store.at = "next" /\ Len(table[store.req]) = Len(Chain[store.req])
  /\ pool' = ReleaseForEviction(pool, table[store.req])
  /\ phase' = [phase EXCEPT ![store.req] = "over"]
  /\ store' = NoStore
  /\ UNCHANGED <<executor, ssd, table, loaded, fetch, queue>>

(* Taking or saving a block's data raises, and the worker only logs it: it *)
(* passes over release_for_eviction, and nobody comes back for the table.  *)
StoreFails ==
  /\ store.at \in {"next", "save"} /\ store.req \in Failing
  /\ phase' = [phase EXCEPT ![store.req] = "failed"]
  /\ store' = NoStore
  /\ UNCHANGED <<executor, pool, ssd, table, loaded, fetch, queue>>

(* PagedSSDCacheManager drops a file (its size limit, another process).    *)
SsdLoses(h) ==
  /\ h \in ssd
  /\ ssd' = ssd \ {h}
  /\ UNCHANGED <<executor, pool, phase, table, loaded, fetch, queue, store>>

Next ==
  \/ \E r \in Requests :
       FindSharedPrefix(r) \/ FullPrefill(r) \/ Reject(r) \/ Abort(r) \/ Finish(r)
       \/ SubmitFails(r)
  \/ ClaimBlock \/ AcquireBlock \/ Reconstruct
  \/ StoreBegins \/ StoreFinds \/ StoreShares \/ StoreAllocates \/ StoreOutOfBlocks
  \/ StoreRegisters \/ StoreSaves \/ StoreFailsToSave \/ StoreReleases
  \/ StoreFails
  \/ \E h \in Hashes : SsdLoses(h)

Spec == Init /\ [][Next]_vars

-----------------------------------------------------------------------------
(* Places of blocks in the tables of some requests.                        *)
Places(R) == UNION {{r} \X (1..Len(table[r])) : r \in R}
References(R, b) == Cardinality({c \in Places(R) : table[c[1]][c[2]] = b})

(* Requests that are still to give their references back, and requests     *)
(* that ended without: _release_paged_cache_for_request frees nothing for  *)
(* a rejected one, although its comment says that it must, "or rejected    *)
(* requests leak block refs" (scheduler.py:10438-10441), and so does a     *)
(* store that raises.                                                      *)
Live == {r \in Requests : phase[r] \in {"fetching", "running", "storing"}}
Leaking == {r \in Requests : phase[r] \in {"rejected", "failed"}}

(* Without the store thread the references of a block are those live       *)
(* requests count on and those the leaking ones left behind, no more and   *)
(* no fewer: every other way to the end of a request gives back what it    *)
(* took and nothing of anybody else's, so that what nobody refers to can   *)
(* be evicted and no block is given away while a request still counts on   *)
(* it (fetch_cache, reconstruct_cache, store_cache, release_for_eviction). *)
RefsAccounted ==
  ~executor => \A b \in Blocks : pool.refs[b] = References(Live, b) + References(Leaking, b)

(* A block is either free, once, or allocated, with two threads working on *)
(* the pool as well; without the store thread the index leads only to      *)
(* allocated blocks that hold the hash it was asked for.  With it a block  *)
(* may be freed by another request between its allocation and its          *)
(* registration, and the index then leads to a free block.                 *)
PoolConsistent ==
  /\ Range(pool.free) = Blocks \ pool.allocated
  /\ Len(pool.free) = Cardinality(Blocks \ pool.allocated)
  /\ ~executor => \A h \in Hashes : \A b \in Range(pool.index[h]) :
                    b \in pool.allocated /\ pool.hash[b] = h

(* A request computes on the key-value data of its own tokens only: what   *)
(* was loaded for it is a prefix of its chain.                             *)
OwnPrefixOnly == \A r \in Requests : IsPrefix(loaded[r], Chain[r])

(* ... and so it is when the inference thread stores the requests itself:  *)
(* evicted, reused and unloadable blocks never reach another prompt.       *)
SerialPrefixOnly == ~executor => OwnPrefixOnly
=============================================================================
