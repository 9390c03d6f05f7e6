----------------------------- MODULE PagedCache -----------------------------
(***************************************************************************)
(* The block pool of the inference engine (omlx/cache/paged_cache.py):     *)
(* metadata of key-value cache blocks, their reference counts, the free    *)
(* queue and the index from content hashes to blocks.  Each operator is    *)
(* one method of PagedCacheManager, atomic under its lock, as a function   *)
(* from a pool to the pool it leaves.                                      *)
(*                                                                         *)
(* The pool has grown to max_blocks.  The null block, statistics and token *)
(* counts are left out.                                                    *)
(***************************************************************************)
EXTENDS Integers, FiniteSets, Sequences, SequencesExt

CONSTANTS
  Blocks,   \* block ids
  Hashes,   \* chain hashes: a block's content and everything before it
  NoHash

ASSUME PoolAssumption == IsFiniteSet(Blocks) /\ NoHash \notin Hashes

Pools ==
  [refs : [Blocks -> Int],                      \* CacheBlock.ref_count
   hash : [Blocks -> Hashes \cup {NoHash}],     \* CacheBlock.block_hash
   allocated : SUBSET Blocks,                   \* allocated_blocks
   free : Seq(Blocks),                          \* free_block_queue
   index : [Hashes -> Seq(Blocks)]]             \* cached_block_hash_to_block

NewPool ==
  [refs |-> [b \in Blocks |-> 0],
   hash |-> [b \in Blocks |-> NoHash],
   allocated |-> {},
   free |-> SetToSeq(Blocks),
   index |-> [h \in Hashes |-> <<>>]]

-----------------------------------------------------------------------------
(* BlockHashToBlockMap: a hash may map to several blocks; get_block        *)
(* returns the one that was inserted first, if any.                        *)
Lookup(index, h) == IF index[h] = <<>> THEN <<>> ELSE <<Head(index[h])>>

Insert(index, h, b) ==
  [index EXCEPT ![h] = IF Contains(@, b) THEN @ ELSE Append(@, b)]

(* pop: the entry of one block.                                            *)
Without(s, b) ==
  IF Contains(s, b) THEN RemoveAt(s, CHOOSE i \in 1..Len(s) : s[i] = b) ELSE s

Pop(index, h, b) ==
  [k \in Hashes |-> IF k = h THEN Without(index[k], b) ELSE index[k]]

(* _maybe_evict_cached_block: a hash that is no longer in the index stays  *)
(* on the block.                                                           *)
MaybeEvictCached(pool, b) ==
  LET h == pool.hash[b]
      cached == h # NoHash /\ Contains(pool.index[h], b)
  IN  [pool EXCEPT !.index = Pop(@, h, b), !.hash[b] = IF cached THEN NoHash ELSE @]

(* allocate_block with a block in the free queue.                          *)
Allocate(pool) ==
  LET b == Head(pool.free)
  IN  [MaybeEvictCached(pool, b) EXCEPT !.free = Tail(@),
                                        !.refs[b] = 1,
                                        !.allocated = @ \cup {b}]

(* Variant: the block goes back to the queue whoever else refers to it.    *)
FreeShared(pool, b) ==
  IF b \notin pool.allocated THEN pool
  ELSE [pool EXCEPT !.refs[b] = 0,
                    !.index = Pop(@, pool.hash[b], b),
                    !.allocated = @ \ {b},
                    !.free = Append(@, b)]

(* Variant: the freed block stays in the index.                            *)
FreeKeepsIndex(pool, b) ==
  IF b \notin pool.allocated THEN pool
  ELSE IF pool.refs[b] > 1 THEN [pool EXCEPT !.refs[b] = @ - 1]
  ELSE [pool EXCEPT !.refs[b] = @ - 1,
                    !.allocated = @ \ {b},
                    !.free = Append(@, b)]

(* free_block: the last reference returns the block to the free queue.     *)
Free(pool, b) ==
  IF b \notin pool.allocated THEN pool
  ELSE IF pool.refs[b] > 1 THEN [pool EXCEPT !.refs[b] = @ - 1]
  ELSE [pool EXCEPT !.refs[b] = @ - 1,
                    !.index = Pop(@, pool.hash[b], b),
                    !.allocated = @ \ {b},
                    !.free = Append(@, b)]

FreeAll(pool, ids) ==
  LET after[i \in 0..Len(ids)] == IF i = 0 THEN pool ELSE Free(after[i - 1], ids[i])
  IN  after[Len(ids)]

(* increment_ref: no effect on a block that is not allocated.              *)
IncrementRef(pool, b) ==
  IF b \in pool.allocated THEN [pool EXCEPT !.refs[b] = @ + 1] ELSE pool

(* release_for_eviction: the blocks stay allocated and indexed.            *)
ReleaseOne(pool, b) ==
  IF b \in pool.allocated /\ pool.refs[b] > 0
  THEN [pool EXCEPT !.refs[b] = @ - 1] ELSE pool
ReleaseForEviction(pool, ids) ==
  LET after[i \in 0..Len(ids)] == IF i = 0 THEN pool ELSE ReleaseOne(after[i - 1], ids[i])
  IN  after[Len(ids)]

(* register_block_hash, with the assignment of block_hash before it.       *)
Register(pool, b, h) ==
  [pool EXCEPT !.hash[b] = h, !.index = Insert(@, h, b)]

(* The lazy restore of a hash whose data is on SSD: a block for it, with   *)
(* no reference.                                                           *)
Restore(pool, h) ==
  LET b == Head(pool.free)
  IN  Register([Allocate(pool) EXCEPT !.refs[b] = 0], b, h)

(* One turn of get_computed_blocks: a hash in the index, else one to       *)
(* restore, else the end.  A walk is the pool, the blocks found and        *)
(* whether it goes on.                                                     *)
Step(ssd, walk, h) ==
  LET hit == Lookup(walk.pool.index, h)
      cold == h \in ssd /\ walk.pool.free # <<>>
  IN  IF ~walk.open THEN walk
      ELSE IF hit # <<>> THEN [walk EXCEPT !.found = @ \o hit]
      ELSE IF cold THEN [walk EXCEPT !.pool = Restore(@, h),
                                     !.found = Append(@, Head(walk.pool.free))]
      ELSE [walk EXCEPT !.open = FALSE]

GetComputedBlocks(pool, ssd, chain) ==
  LET after[i \in 0..Len(chain)] ==
        IF i = 0 THEN [pool |-> pool, found |-> <<>>, open |-> TRUE]
        ELSE Step(ssd, after[i - 1], chain[i])
  IN  after[Len(chain)]
=============================================================================
