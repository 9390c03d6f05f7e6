------------------------- MODULE PrefixCacheProofs -------------------------
(***************************************************************************)
(* Proofs about the prefix cache for any requests, chains and blocks.      *)
(***************************************************************************)
EXTENDS PrefixCache, FiniteSetTheorems, SequenceTheorems, WellFoundedInduction, TLAPS

(* A pool whose blocks are each free, once, or allocated.                  *)
PoolOK(p) ==
  /\ p \in Pools
  /\ IsInjective(p.free)
  /\ Range(p.free) = Blocks \ p.allocated

(* The index leads to allocated blocks of the hash, each once.             *)
IndexOK(p) ==
  \A h \in Hashes :
    /\ IsInjective(p.index[h])
    /\ \A b \in Range(p.index[h]) : b \in p.allocated /\ p.hash[b] = h

-----------------------------------------------------------------------------
(* Counting up from 0 reaches every number of an interval.                 *)
LEMMA CountUp ==
  ASSUME NEW n \in Nat, NEW S, 0 \in S,
         \A i \in 0..n : i \in S /\ i < n => i + 1 \in S
  PROVE  \A i \in 0..n : i \in S
<1> DEFINE bad == {i \in 0..n : i \notin S}
<1> SUFFICES ASSUME bad # {} PROVE FALSE
  OBVIOUS
<1>1. bad \subseteq Nat
  OBVIOUS
<1>2. PICK m \in bad : \A k \in bad : ~(<<k, m>> \in OpToRel(<, Nat))
  <2> HIDE DEF bad
  <2> QED BY <1>1, NatLessThanWellFounded, WFMin
<1>3. m \in Nat /\ m - 1 \in 0..n /\ m - 1 < n /\ m \notin S
  OBVIOUS
<1>4. m - 1 \notin S
  BY <1>3
<1>5. m - 1 \in bad
  BY <1>3, <1>4
<1>6. <<m - 1, m>> \in Nat \X Nat /\ <<m - 1, m>>[1] < <<m - 1, m>>[2]
  BY <1>3
<1>7. <<m - 1, m>> \in OpToRel(<, Nat)
  BY <1>6 DEF OpToRel
<1>8. QED
  BY <1>2, <1>5, <1>7

(* The values a loop over 1..n with body G goes through, from a.           *)
IsTrace(f, n, D, a, G) ==
  /\ f \in [0..n -> D] /\ f[0] = a
  /\ \A i \in 1..n : f[i] = G[<<f[i - 1], i>>]

(* Every loop has a trace.                                                 *)
LEMMA LoopTrace ==
  ASSUME NEW n \in Nat, NEW D, NEW a \in D, NEW G \in [D \X (1..n) -> D]
  PROVE  \E f : IsTrace(f, n, D, a, G)
<1> DEFINE Trace(k, f) == f[0] = a /\ \A i \in 1..k : f[i] = G[<<f[i - 1], i>>]
           S == {k \in 0..n : \E f \in [0..k -> D] : Trace(k, f)}
<1>1. 0 \in S
  <2> DEFINE f == [i \in 0..0 |-> a]
  <2>1. f \in [0..0 -> D] /\ f[0] = a /\ 1..0 = {}
    OBVIOUS
  <2> HIDE DEF f
  <2>2. Trace(0, f)
    BY <2>1
  <2> QED BY <2>1, <2>2
<1>2. ASSUME NEW k \in 0..n, k \in S, k < n
      PROVE  k + 1 \in S
  <2>1. PICK f \in [0..k -> D] : Trace(k, f)
    BY <1>2
  <2> DEFINE g == [i \in 0..(k + 1) |-> IF i <= k THEN f[i] ELSE G[<<f[k], k + 1>>]]
  <2>2. f[k] \in D /\ k + 1 \in 1..n
    BY <1>2
  <2>3. g \in [0..(k + 1) -> D]
    BY <2>2
  <2>4. \A i \in 0..k : g[i] = f[i]
    OBVIOUS
  <2>5. g[k + 1] = G[<<f[k], k + 1>>]
    OBVIOUS
  <2> HIDE DEF g
  <2>6. Trace(k + 1, g)
    <3>1. g[0] = a
      BY <2>1, <2>4
    <3>2. ASSUME NEW i \in 1..k PROVE g[i] = G[<<g[i - 1], i>>]
      <4>1. i \in 0..k /\ i - 1 \in 0..k
        OBVIOUS
      <4>2. g[i] = f[i] /\ g[i - 1] = f[i - 1] /\ f[i] = G[<<f[i - 1], i>>]
        BY <2>1, <2>4, <4>1
      <4> QED BY <4>2
    <3>3. g[k + 1] = G[<<g[(k + 1) - 1], k + 1>>]
      <4>1. (k + 1) - 1 = k /\ k \in 0..k
        OBVIOUS
      <4> QED BY <2>4, <2>5, <4>1
    <3>4. \A i \in 1..(k + 1) : i \in 1..k \/ i = k + 1
      OBVIOUS
    <3> QED BY <3>1, <3>2, <3>3, <3>4
  <2> QED BY <2>2, <2>3, <2>6
<1>3. n \in S
  <2> HIDE DEF S
  <2>1. \A i \in 0..n : i \in S
    BY <1>1, <1>2, CountUp
  <2> QED BY <2>1
<1>4. QED
  BY <1>3 DEF IsTrace

-----------------------------------------------------------------------------
(* The operators on sequences and pools.                                   *)

(* What Without leaves.                                                    *)
LEMMA WithoutFacts ==
  ASSUME NEW s \in Seq(Blocks), NEW b
  PROVE  /\ Without(s, b) \in Seq(Blocks)
         /\ Range(Without(s, b)) \subseteq Range(s)
         /\ IsInjective(s) => IsInjective(Without(s, b)) /\ b \notin Range(Without(s, b))
<1>1. CASE ~Contains(s, b)
  BY <1>1 DEF Without, Contains, Range
<1>2. CASE Contains(s, b)
  <2> DEFINE p == CHOOSE i \in 1..Len(s) : s[i] = b
             w == Without(s, b)
  <2>1. p \in 1..Len(s) /\ s[p] = b
    BY <1>2 DEF Contains
  <2> DEFINE u == SubSeq(s, 1, p - 1)
             v == SubSeq(s, p + 1, Len(s))
  <2>2. w = u \o v
    BY <1>2 DEF Without, RemoveAt
  <2> HIDE DEF p
  <2>3. /\ u \in Seq(Blocks) /\ Len(u) = p - 1 /\ \A i \in 1..(p - 1) : u[i] = s[i]
    <3>1. \A i \in 1..(p - 1) : s[i] \in Blocks
      BY <2>1
    <3> QED BY <2>1, <3>1, SubSeqProperties
  <2>4. /\ v \in Seq(Blocks) /\ Len(v) = Len(s) - p
        /\ \A i \in 1..(Len(s) - p) : v[i] = s[p + i]
    <3>1. \A i \in (p + 1)..Len(s) : s[i] \in Blocks
      BY <2>1
    <3> QED BY <2>1, <3>1, SubSeqProperties
  <2> HIDE DEF u, v, w
  <2>5. w \in Seq(Blocks) /\ Len(w) = Len(s) - 1
    <3>1. w \in Seq(Blocks) /\ Len(w) = Len(u) + Len(v)
      BY <2>2, <2>3, <2>4, ConcatProperties
    <3>2. Len(s) \in Nat /\ p \in Nat
      BY <2>1
    <3> QED BY <2>3, <2>4, <3>1, <3>2
  <2>6. \A i \in 1..Len(w) : w[i] = s[IF i < p THEN i ELSE i + 1]
    <3> TAKE i \in 1..Len(w)
    <3>1. w[i] = IF i <= p - 1 THEN u[i] ELSE v[i - (p - 1)]
      BY <2>1, <2>2, <2>3, <2>4, <2>5, ConcatProperties
    <3>2. CASE i < p
      BY <2>1, <2>3, <2>5, <3>1, <3>2
    <3>3. CASE i >= p
      BY <2>1, <2>4, <2>5, <3>1, <3>3
    <3> QED BY <2>1, <2>5, <3>2, <3>3
  <2>7. Range(w) \subseteq Range(s)
    BY <2>1, <2>5, <2>6 DEF Range
  <2>8. ASSUME IsInjective(s) PROVE IsInjective(w) /\ b \notin Range(w)
    <3>0. DOMAIN s = 1..Len(s) /\ DOMAIN w = 1..Len(w) /\ Len(s) \in Nat
      BY <2>5
    <3>1. \A i, j \in 1..Len(s) : s[i] = s[j] => i = j
      BY <2>8, <3>0 DEF IsInjective
    <3>2. \A i \in 1..Len(w) : w[i] # b
      BY <2>1, <2>5, <2>6, <3>0, <3>1
    <3>3. \A i, j \in 1..Len(w) : w[i] = w[j] => i = j
      BY <2>1, <2>5, <2>6, <3>0, <3>1
    <3> QED BY <3>0, <3>2, <3>3 DEF IsInjective, Range
  <2> QED BY <2>5, <2>7, <2>8 DEF w
<1> QED BY <1>1, <1>2

(* Appending an element a sequence does not have.                          *)
LEMMA AppendFacts ==
  ASSUME NEW s \in Seq(Blocks), NEW b \in Blocks
  PROVE  /\ Append(s, b) \in Seq(Blocks)
         /\ Range(Append(s, b)) = Range(s) \cup {b}
         /\ IsInjective(s) /\ b \notin Range(s) => IsInjective(Append(s, b))
<1> DEFINE w == Append(s, b)
<1>1. /\ w \in Seq(Blocks) /\ Len(w) = Len(s) + 1 /\ w[Len(s) + 1] = b
      /\ \A i \in 1..Len(s) : w[i] = s[i]
  BY AppendProperties
<1> HIDE DEF w
<1>2. Range(w) = Range(s) \cup {b}
  BY <1>1 DEF Range
<1>3. IsInjective(s) /\ b \notin Range(s) => IsInjective(w)
  BY <1>1 DEF IsInjective, Range
<1> QED BY <1>1, <1>2, <1>3 DEF w

(* Taking the head of a sequence without repetitions.                      *)
LEMMA TailFacts ==
  ASSUME NEW s \in Seq(Blocks), s # <<>>
  PROVE  /\ Head(s) \in Range(s) /\ Head(s) = s[1] /\ Head(s) \in Blocks
         /\ Tail(s) \in Seq(Blocks)
         /\ IsInjective(s) => IsInjective(Tail(s)) /\ Range(Tail(s)) = Range(s) \ {Head(s)}
<1> DEFINE w == Tail(s)
<1>1. /\ w \in Seq(Blocks) /\ Len(w) = Len(s) - 1 /\ Head(s) = s[1] /\ Len(s) \in Nat \ {0}
      /\ \A i \in 1..Len(w) : w[i] = s[i + 1]
  BY HeadTailProperties, EmptySeq
<1>0. \A i \in 2..Len(s) : i - 1 \in 1..Len(w) /\ w[i - 1] = s[i]
  BY <1>1
<1> HIDE DEF w
<1>2. Head(s) \in Range(s)
  BY <1>1 DEF Range
<1>3. ASSUME IsInjective(s)
      PROVE  IsInjective(w) /\ Range(w) = Range(s) \ {Head(s)}
  <2>0. DOMAIN s = 1..Len(s) /\ DOMAIN w = 1..Len(w) /\ Len(s) \in Nat
    BY <1>1
  <2>1. \A i, j \in 1..Len(s) : s[i] = s[j] => i = j
    BY <1>3, <2>0 DEF IsInjective
  <2>2. \A i, j \in 1..Len(w) : w[i] = w[j] => i = j
    BY <1>1, <2>0, <2>1
  <2>3. \A i \in 1..Len(w) : w[i] # s[1] /\ i + 1 \in 1..Len(s)
    BY <1>1, <2>0, <2>1
  <2>4. Range(w) \subseteq Range(s) \ {Head(s)}
    BY <1>1, <2>0, <2>3 DEF Range
  <2>5. ASSUME NEW x \in Range(s) \ {Head(s)} PROVE x \in Range(w)
    <3>1. PICK i \in 1..Len(s) : s[i] = x
      BY <2>0 DEF Range
    <3>2. i \in 2..Len(s)
      BY <1>1, <2>0, <2>5, <3>1
    <3> QED BY <1>0, <2>0, <3>1, <3>2 DEF Range
  <2> QED BY <2>0, <2>2, <2>4, <2>5 DEF IsInjective
<1> QED BY <1>1, <1>2, <1>3 DEF w

(* The fields of a pool.                                                   *)
LEMMA PoolFields ==
  ASSUME NEW p \in Pools
  PROVE  /\ p.refs \in [Blocks -> Int] /\ p.hash \in [Blocks -> Hashes \cup {NoHash}]
         /\ p.allocated \in SUBSET Blocks /\ p.free \in Seq(Blocks)
         /\ p.index \in [Hashes -> Seq(Blocks)]
BY DEF Pools

(* The index without a block under one hash.                               *)
LEMMA PopFacts ==
  ASSUME NEW index \in [Hashes -> Seq(Blocks)], NEW h, NEW b
  PROVE  /\ Pop(index, h, b) \in [Hashes -> Seq(Blocks)]
         /\ \A k \in Hashes : Range(Pop(index, h, b)[k]) \subseteq Range(index[k])
         /\ \A k \in Hashes : IsInjective(index[k]) => IsInjective(Pop(index, h, b)[k])
         /\ h \in Hashes /\ IsInjective(index[h]) => b \notin Range(Pop(index, h, b)[h])
BY WithoutFacts DEF Pop

(* The index with a block entered under a hash.                            *)
LEMMA InsertFacts ==
  ASSUME NEW index \in [Hashes -> Seq(Blocks)], NEW h \in Hashes, NEW b \in Blocks
  PROVE  /\ Insert(index, h, b) \in [Hashes -> Seq(Blocks)]
         /\ \A k \in Hashes \ {h} : Insert(index, h, b)[k] = index[k]
         /\ Range(Insert(index, h, b)[h]) = Range(index[h]) \cup {b}
         /\ IsInjective(index[h]) => IsInjective(Insert(index, h, b)[h])
<1>1. index[h] \in Seq(Blocks)
  OBVIOUS
<1>2. Contains(index[h], b) <=> b \in Range(index[h])
  BY <1>1 DEF Contains, Range
<1>3. CASE Contains(index[h], b)
  BY <1>1, <1>2, <1>3 DEF Insert
<1>4. CASE ~Contains(index[h], b)
  BY <1>1, <1>2, <1>4, AppendFacts DEF Insert
<1> QED BY <1>3, <1>4

(* free_block of one reference among several.                              *)
LEMMA FreeShares ==
  ASSUME NEW p \in Pools, NEW b \in p.allocated, p.refs[b] > 1
  PROVE  /\ Free(p, b) \in Pools
         /\ Free(p, b).refs = [p.refs EXCEPT ![b] = @ - 1]
         /\ Free(p, b).hash = p.hash /\ Free(p, b).allocated = p.allocated
         /\ Free(p, b).free = p.free /\ Free(p, b).index = p.index
<1>1. Free(p, b) = [p EXCEPT !.refs = [p.refs EXCEPT ![b] = @ - 1]]
  BY DEF Free, Pools
<1>2. [p.refs EXCEPT ![b] = @ - 1] \in [Blocks -> Int]
  BY PoolFields
<1> QED BY <1>1, <1>2 DEF Pools

(* free_block of the last reference.                                       *)
LEMMA FreeReturns ==
  ASSUME NEW p \in Pools, NEW b \in p.allocated, ~(p.refs[b] > 1)
  PROVE  /\ Free(p, b) \in Pools
         /\ Free(p, b).refs = [p.refs EXCEPT ![b] = @ - 1]
         /\ Free(p, b).hash = p.hash /\ Free(p, b).allocated = p.allocated \ {b}
         /\ Free(p, b).free = Append(p.free, b)
         /\ Free(p, b).index = Pop(p.index, p.hash[b], b)
<1> DEFINE refs == [p.refs EXCEPT ![b] = @ - 1]
           index == Pop(p.index, p.hash[b], b)
           free == Append(p.free, b)
<1>1. Free(p, b) = [p EXCEPT !.refs = refs, !.index = index, !.allocated = p.allocated \ {b},
                             !.free = free]
  BY DEF Free, Pools
<1>2. refs \in [Blocks -> Int] /\ index \in [Hashes -> Seq(Blocks)] /\ free \in Seq(Blocks)
  <2>1. /\ p.refs \in [Blocks -> Int] /\ p.free \in Seq(Blocks) /\ b \in Blocks
        /\ p.index \in [Hashes -> Seq(Blocks)]
    BY PoolFields
  <2>2. index \in [Hashes -> Seq(Blocks)]
    BY <2>1, PopFacts
  <2>3. free \in Seq(Blocks)
    BY <2>1, AppendFacts
  <2> QED BY <2>1, <2>2, <2>3
<1> HIDE DEF refs, index, free
<1>3. Free(p, b) \in Pools
  BY <1>1, <1>2 DEF Pools
<1>4. /\ Free(p, b).refs = refs /\ Free(p, b).index = index /\ Free(p, b).free = free
      /\ Free(p, b).hash = p.hash /\ Free(p, b).allocated = p.allocated \ {b}
  BY <1>1 DEF Pools
<1> QED BY <1>3, <1>4 DEF refs, index, free

(* free_block keeps blocks free once or allocated, and the index sound.    *)
LEMMA FreeKeeps ==
  ASSUME NEW p, PoolOK(p), NEW b \in Blocks
  PROVE  /\ PoolOK(Free(p, b)) /\ Free(p, b).hash = p.hash
         /\ IndexOK(p) => IndexOK(Free(p, b))
<1>0. p \in Pools
  BY DEF PoolOK
<1>1. CASE b \notin p.allocated
  BY <1>1 DEF Free
<1>2. CASE b \in p.allocated /\ p.refs[b] > 1
  BY <1>0, <1>2, FreeShares DEF PoolOK, IndexOK
<1>3. CASE b \in p.allocated /\ ~(p.refs[b] > 1)
  <2> DEFINE q == Free(p, b)
  <2>1. /\ q \in Pools /\ q.hash = p.hash /\ q.allocated = p.allocated \ {b}
        /\ q.free = Append(p.free, b) /\ q.index = Pop(p.index, p.hash[b], b)
    BY <1>0, <1>3, FreeReturns
  <2> HIDE DEF q
  <2>2. p.free \in Seq(Blocks) /\ p.index \in [Hashes -> Seq(Blocks)]
    BY <1>0, PoolFields
  <2>3. PoolOK(q)
    BY <1>3, <2>1, <2>2, AppendFacts DEF PoolOK
  <2>4. ASSUME IndexOK(p), NEW h \in Hashes
        PROVE  /\ IsInjective(q.index[h])
               /\ \A c \in Range(q.index[h]) : c \in q.allocated /\ q.hash[c] = h
    <3>1. IsInjective(p.index[h]) /\ \A c \in Range(p.index[h]) : c \in p.allocated /\ p.hash[c] = h
      BY <2>4 DEF IndexOK
    <3> DEFINE k == p.hash[b]
               index == p.index
    <3>0. q.index = Pop(index, k, b) /\ index \in [Hashes -> Seq(Blocks)]
      BY <2>1, <2>2
    <3> HIDE DEF k, index
    <3>2. /\ Range(q.index[h]) \subseteq Range(index[h])
          /\ IsInjective(index[h]) => IsInjective(q.index[h])
          /\ k = h /\ IsInjective(index[h]) => b \notin Range(q.index[h])
      BY <3>0, PopFacts
    <3>3. b \notin Range(q.index[h])
      BY <3>1, <3>2 DEF k, index
    <3>4. Range(q.index[h]) \subseteq Range(p.index[h]) /\ IsInjective(q.index[h])
      BY <3>1, <3>2 DEF index
    <3> QED BY <2>1, <3>1, <3>3, <3>4
  <2> QED BY <2>1, <2>3, <2>4 DEF IndexOK, q
<1> QED BY <1>1, <1>2, <1>3

(* Only the references differ.                                             *)
RefsOnly(p, q) ==
  /\ q \in Pools /\ q.hash = p.hash /\ q.allocated = p.allocated /\ q.free = p.free
  /\ q.index = p.index

(* What does not depend on the references stays.                           *)
LEMMA RefsOnlyKeeps ==
  ASSUME NEW p, NEW q, RefsOnly(p, q), PoolOK(p)
  PROVE  PoolOK(q) /\ (IndexOK(p) => IndexOK(q))
BY DEF RefsOnly, PoolOK, IndexOK

(* increment_ref and the turns of release_for_eviction change references   *)
(* of an allocated block only.                                             *)
LEMMA RefSteps ==
  ASSUME NEW p \in Pools, NEW b \in Blocks
  PROVE  /\ RefsOnly(p, IncrementRef(p, b)) /\ RefsOnly(p, ReleaseOne(p, b))
         /\ b \in p.allocated => IncrementRef(p, b).refs = [p.refs EXCEPT ![b] = @ + 1]
         /\ b \in p.allocated /\ p.refs[b] > 0 =>
              ReleaseOne(p, b).refs = [p.refs EXCEPT ![b] = @ - 1]
<1>0. p.refs \in [Blocks -> Int]
  BY PoolFields
<1>1. ASSUME NEW refs \in [Blocks -> Int]
      PROVE  RefsOnly(p, [p EXCEPT !.refs = refs]) /\ [p EXCEPT !.refs = refs].refs = refs
  BY <1>1 DEF RefsOnly, Pools
<1>2. RefsOnly(p, p)
  BY DEF RefsOnly
<1>3. CASE b \in p.allocated
  <2> DEFINE up == [p.refs EXCEPT ![b] = @ + 1]
             down == [p.refs EXCEPT ![b] = @ - 1]
  <2>1. up \in [Blocks -> Int] /\ down \in [Blocks -> Int]
    BY <1>0
  <2>2. IncrementRef(p, b) = [p EXCEPT !.refs = up]
    BY <1>3 DEF IncrementRef, Pools
  <2>3. ReleaseOne(p, b) = IF p.refs[b] > 0 THEN [p EXCEPT !.refs = down] ELSE p
    BY <1>3 DEF ReleaseOne, Pools
  <2> HIDE DEF up, down
  <2>4. /\ RefsOnly(p, IncrementRef(p, b)) /\ IncrementRef(p, b).refs = up
        /\ RefsOnly(p, ReleaseOne(p, b)) /\ (p.refs[b] > 0 => ReleaseOne(p, b).refs = down)
    BY <1>1, <1>2, <2>1, <2>2, <2>3
  <2> QED BY <2>4 DEF up, down
<1>4. CASE b \notin p.allocated
  BY <1>2, <1>4 DEF IncrementRef, ReleaseOne
<1> QED BY <1>3, <1>4

(* A pool of which only the index has lost a block.                        *)
LEMMA PopKeeps ==
  ASSUME NEW p, PoolOK(p), NEW h, NEW b
  PROVE  LET q == [p EXCEPT !.index = Pop(p.index, h, b)]
         IN  /\ PoolOK(q) /\ (IndexOK(p) => IndexOK(q))
             /\ q.hash = p.hash /\ q.allocated = p.allocated /\ q.refs = p.refs
<1> DEFINE index == p.index
           popped == Pop(index, h, b)
           q == [p EXCEPT !.index = popped]
<1>1. p \in Pools /\ index \in [Hashes -> Seq(Blocks)]
  BY PoolFields DEF PoolOK
<1> HIDE DEF index
<1>2. /\ popped \in [Hashes -> Seq(Blocks)]
      /\ \A k \in Hashes : Range(popped[k]) \subseteq Range(index[k])
      /\ \A k \in Hashes : IsInjective(index[k]) => IsInjective(popped[k])
  BY <1>1, PopFacts
<1> HIDE DEF popped
<1>3. /\ q \in Pools /\ q.hash = p.hash /\ q.allocated = p.allocated /\ q.refs = p.refs
      /\ q.free = p.free /\ q.index = popped
  BY <1>1, <1>2 DEF Pools
<1> HIDE DEF q
<1>4. PoolOK(q)
  BY <1>3 DEF PoolOK
<1>5. ASSUME IndexOK(p) PROVE IndexOK(q)
  BY <1>2, <1>3, <1>5 DEF IndexOK, index
<1> QED BY <1>3, <1>4, <1>5 DEF q, popped, index

(* allocate_block takes the first free block and enters it nowhere.        *)
LEMMA AllocateFacts ==
  ASSUME NEW p, PoolOK(p), p.free # <<>>
  PROVE  LET b == Head(p.free)
             q == Allocate(p)
         IN  /\ b \in Blocks \ p.allocated /\ PoolOK(q)
             /\ q.refs = [p.refs EXCEPT ![b] = 1] /\ q.allocated = p.allocated \cup {b}
             /\ \A c \in Blocks \ {b} : q.hash[c] = p.hash[c]
             /\ IndexOK(p) => IndexOK(q) /\ \A h \in Hashes : b \notin Range(q.index[h])
<1> DEFINE b == Head(p.free)
           q == Allocate(p)
           h == p.hash[b]
           index == Pop(p.index, h, b)
           hash == [p.hash EXCEPT ![b] = IF h # NoHash /\ Contains(p.index[h], b) THEN NoHash ELSE @]
           refs == [p.refs EXCEPT ![b] = 1]
           free == Tail(p.free)
<1>0. /\ p \in Pools /\ p.refs \in [Blocks -> Int] /\ p.free \in Seq(Blocks)
      /\ p.hash \in [Blocks -> Hashes \cup {NoHash}] /\ p.allocated \in SUBSET Blocks
      /\ p.index \in [Hashes -> Seq(Blocks)]
  BY PoolFields DEF PoolOK
<1>1. q = [p EXCEPT !.refs = refs, !.hash = hash, !.allocated = p.allocated \cup {b},
                    !.free = free, !.index = index]
  BY <1>0 DEF Allocate, MaybeEvictCached, Pools
<1>2. /\ b \in Blocks \ p.allocated /\ free \in Seq(Blocks) /\ IsInjective(free)
      /\ Range(free) = Range(p.free) \ {b}
  BY <1>0, TailFacts DEF PoolOK
<1>3. /\ index \in [Hashes -> Seq(Blocks)]
      /\ \A k \in Hashes : Range(index[k]) \subseteq Range(p.index[k])
      /\ \A k \in Hashes : IsInjective(p.index[k]) => IsInjective(index[k])
  <2> HIDE DEF h, b
  <2> QED BY <1>0, PopFacts
<1>4. hash \in [Blocks -> Hashes \cup {NoHash}] /\ \A c \in Blocks \ {b} : hash[c] = p.hash[c]
  BY <1>0
<1>5. refs \in [Blocks -> Int]
  BY <1>0
<1> HIDE DEF b, q, h, index, hash, refs, free
<1>6. /\ q \in Pools /\ q.refs = refs /\ q.hash = hash /\ q.free = free /\ q.index = index
      /\ q.allocated = p.allocated \cup {b}
  BY <1>0, <1>1, <1>2, <1>3, <1>4, <1>5 DEF Pools
<1>7. PoolOK(q)
  BY <1>2, <1>6 DEF PoolOK
<1>8. ASSUME IndexOK(p) PROVE IndexOK(q) /\ \A k \in Hashes : b \notin Range(q.index[k])
  <2>1. \A k \in Hashes : /\ IsInjective(p.index[k])
                          /\ \A c \in Range(p.index[k]) : c \in p.allocated /\ p.hash[c] = k
    BY <1>8 DEF IndexOK
  <2>2. \A k \in Hashes : b \notin Range(q.index[k])
    BY <1>2, <1>3, <1>6, <2>1
  <2>3. ASSUME NEW k \in Hashes, NEW c \in Range(q.index[k])
        PROVE  c \in q.allocated /\ q.hash[c] = k
    <3>1. c \in p.allocated /\ p.hash[c] = k /\ c # b
      BY <1>3, <1>6, <2>1, <2>2, <2>3
    <3> QED BY <1>0, <1>4, <1>6, <3>1
  <2> QED BY <1>3, <1>6, <2>1, <2>2, <2>3 DEF IndexOK
<1> QED BY <1>2, <1>4, <1>6, <1>7, <1>8 DEF b, q, refs

(* register_block_hash of a block that is in no entry of the index.        *)
LEMMA RegisterFacts ==
  ASSUME NEW p, PoolOK(p), NEW b \in Blocks, NEW h \in Hashes
  PROVE  LET q == Register(p, b, h)
         IN  /\ PoolOK(q) /\ q.refs = p.refs /\ q.allocated = p.allocated /\ q.free = p.free
             /\ q.hash = [p.hash EXCEPT ![b] = h]
             /\ IndexOK(p) /\ b \in p.allocated /\ (\A k \in Hashes : b \notin Range(p.index[k]))
                  => IndexOK(q)
<1> DEFINE q == Register(p, b, h)
           hash == [p.hash EXCEPT ![b] = h]
           index == Insert(p.index, h, b)
<1>0. /\ p \in Pools /\ p.hash \in [Blocks -> Hashes \cup {NoHash}]
      /\ p.index \in [Hashes -> Seq(Blocks)]
  BY PoolFields DEF PoolOK
<1>1. q = [p EXCEPT !.hash = hash, !.index = index]
  BY <1>0 DEF Register, Pools
<1>2. /\ index \in [Hashes -> Seq(Blocks)]
      /\ \A k \in Hashes \ {h} : index[k] = p.index[k]
      /\ Range(index[h]) = Range(p.index[h]) \cup {b}
      /\ IsInjective(p.index[h]) => IsInjective(index[h])
  BY <1>0, InsertFacts
<1>3. hash \in [Blocks -> Hashes \cup {NoHash}] /\ hash[b] = h
      /\ \A c \in Blocks \ {b} : hash[c] = p.hash[c]
  BY <1>0
<1> HIDE DEF q, hash, index
<1>4. /\ q \in Pools /\ q.refs = p.refs /\ q.allocated = p.allocated /\ q.free = p.free
      /\ q.hash = hash /\ q.index = index
  BY <1>0, <1>1, <1>2, <1>3 DEF Pools
<1>5. PoolOK(q)
  BY <1>4 DEF PoolOK
<1>6. ASSUME IndexOK(p), b \in p.allocated, \A k \in Hashes : b \notin Range(p.index[k])
      PROVE  IndexOK(q)
  <2>1. \A k \in Hashes : /\ IsInjective(p.index[k])
                          /\ \A c \in Range(p.index[k]) : c \in p.allocated /\ p.hash[c] = k
    BY <1>6 DEF IndexOK
  <2>2. ASSUME NEW k \in Hashes, NEW c \in Range(q.index[k])
        PROVE  c \in q.allocated /\ q.hash[c] = k
    <3>1. CASE c = b
      BY <1>2, <1>3, <1>4, <1>6, <2>2, <3>1
    <3>2. CASE c # b
      <4>1. c \in Range(p.index[k])
        BY <1>2, <1>4, <2>2, <3>2
      <4>2. c \in p.allocated /\ c \in Blocks
        BY <1>0, <2>1, <4>1, PoolFields
      <4> QED BY <1>3, <1>4, <2>1, <3>2, <4>1, <4>2
    <3> QED BY <3>1, <3>2
  <2> QED BY <1>2, <1>4, <2>1, <2>2 DEF IndexOK
<1> QED BY <1>4, <1>5, <1>6 DEF q, hash

(* The new pool: every block is free, once.                                *)
LEMMA NewPoolOK == PoolOK(NewPool) /\ IndexOK(NewPool)
<1> DEFINE n == Cardinality(Blocks)
           f == SetToSeq(Blocks)
<1>1. n \in Nat /\ ExistsBijection(1..n, Blocks)
  BY PoolAssumption, FS_CardinalityType
<1>2. PICK g : g \in Bijection(1..n, Blocks)
  BY <1>1 DEF ExistsBijection
<1>3. g \in [1..n -> Blocks] /\ IsInjective(g)
  BY <1>2 DEF Bijection, Injection
<1>4. f \in [1..n -> Blocks] /\ IsInjective(f)
  BY <1>3 DEF SetToSeq
<1>5. f \in Surjection(1..n, Blocks)
  <2>1. f \in Injection(1..n, Blocks)
    BY <1>4 DEF Injection
  <2>2. Cardinality(1..n) = n
    BY <1>1, FS_Interval
  <2> QED BY <2>1, <2>2, PoolAssumption, FS_Injection
<1> HIDE DEF f
<1>6. f \in Seq(Blocks) /\ Range(f) = Blocks
  <2>1. f \in Seq(Blocks)
    BY <1>1, <1>4, SeqDef
  <2>2. Range(f) = Blocks
    BY <1>4, <1>5 DEF Surjection, Range
  <2> QED BY <2>1, <2>2
<1>7. NewPool \in Pools
  BY <1>6 DEF NewPool, Pools, f
<1>8. NewPool.free = f /\ NewPool.allocated = {} /\ \A h \in Hashes : NewPool.index[h] = <<>>
  BY DEF NewPool, f
<1>9. PoolOK(NewPool)
  BY <1>4, <1>6, <1>7, <1>8 DEF PoolOK
<1>10. IsInjective(<<>>) /\ Range(<<>>) = {}
  BY DEF IsInjective, Range
<1> QED BY <1>8, <1>9, <1>10 DEF IndexOK

-----------------------------------------------------------------------------
(* The loops.                                                              *)

(* The pools free_block and release_for_eviction go through.               *)
Frees(f, p, ids) ==
  /\ f \in [0..Len(ids) -> {q \in Pools : PoolOK(q)}]
  /\ f[0] = p /\ FreeAll(p, ids) = f[Len(ids)]
  /\ \A i \in 1..Len(ids) : f[i] = Free(f[i - 1], ids[i])
Releases(f, p, ids) ==
  /\ f \in [0..Len(ids) -> {q \in Pools : PoolOK(q)}]
  /\ f[0] = p /\ ReleaseForEviction(p, ids) = f[Len(ids)]
  /\ \A i \in 1..Len(ids) : f[i] = ReleaseOne(f[i - 1], ids[i])

(* free_block along a block list goes from pool to pool.                   *)
LEMMA FreeAllTrace ==
  ASSUME NEW p, PoolOK(p), NEW ids \in Seq(Blocks)
  PROVE  \E f : Frees(f, p, ids)
<1> DEFINE D == {q \in Pools : PoolOK(q)}
           n == Len(ids)
           G == [x \in D \X (1..n) |-> Free(x[1], ids[x[2]])]
           T(f) == f = [i \in 0..n |-> IF i = 0 THEN p ELSE Free(f[i - 1], ids[i])]
<1>0. n \in Nat /\ p \in D /\ \A i \in 1..n : ids[i] \in Blocks
  BY DEF PoolOK
<1>1. \A q \in D, i \in 1..n : Free(q, ids[i]) \in D
  <2>1. \A q \in D, i \in 1..n : PoolOK(Free(q, ids[i]))
    BY <1>0, FreeKeeps
  <2> QED BY <2>1 DEF PoolOK
<1>2. G \in [D \X (1..n) -> D]
  BY <1>1
<1>3. \A q \in D, i \in 1..n : G[<<q, i>>] = Free(q, ids[i])
  OBVIOUS
<1> HIDE DEF G, D
<1>3a. PICK f : IsTrace(f, n, D, p, G)
  <2>1. n \in Nat /\ p \in D
    BY <1>0
  <2> HIDE DEF n
  <2> QED BY <1>2, <2>1, LoopTrace
<1>4. f \in [0..n -> D] /\ f[0] = p /\ \A i \in 1..n : f[i] = G[<<f[i - 1], i>>]
  BY <1>3a DEF IsTrace
<1>5. \A i \in 1..n : f[i] = Free(f[i - 1], ids[i])
  <2> TAKE i \in 1..n
  <2>1. f[i - 1] \in D
    BY <1>0, <1>4
  <2> QED BY <1>3, <1>4, <2>1
<1>6. T(f)
  <2>1. \A i \in 0..n : f[i] = IF i = 0 THEN p ELSE Free(f[i - 1], ids[i])
    BY <1>0, <1>4, <1>5
  <2> QED BY <1>4, <2>1
<1>7. FreeAll(p, ids) = (CHOOSE g : T(g))[n]
  BY DEF FreeAll
<1> DEFINE g == CHOOSE g : T(g)
<1>8. T(g)
  BY <1>6
<1> HIDE DEF g
<1>9. \A i \in 1..n : g[i] = Free(g[i - 1], ids[i])
  BY <1>0, <1>8
<1>10. \A i \in 0..n : g[i] \in D
  <2> DEFINE S == {i \in 0..n : g[i] \in D}
  <2>1. 0 \in S
    BY <1>0, <1>8
  <2>2. ASSUME NEW i \in 0..n, i \in S, i < n PROVE i + 1 \in S
    <3>1. i + 1 \in 1..n /\ (i + 1) - 1 = i /\ i + 1 \in 0..n
      BY <1>0, <2>2
    <3> QED BY <1>1, <1>9, <2>2, <3>1
  <2> HIDE DEF S
  <2>3. \A i \in 0..n : i \in S
    BY <1>0, <2>1, <2>2, CountUp
  <2> QED BY <2>3 DEF S
<1>11. g \in [0..n -> D] /\ g[0] = p
  BY <1>0, <1>8, <1>10
<1> QED BY <1>7, <1>9, <1>11 DEF D, g, Frees

(* So does release_for_eviction.                                           *)
LEMMA ReleaseTrace ==
  ASSUME NEW p, PoolOK(p), NEW ids \in Seq(Blocks)
  PROVE  \E f : Releases(f, p, ids)
<1> DEFINE D == {q \in Pools : PoolOK(q)}
           n == Len(ids)
           G == [x \in D \X (1..n) |-> ReleaseOne(x[1], ids[x[2]])]
           T(f) == f = [i \in 0..n |-> IF i = 0 THEN p ELSE ReleaseOne(f[i - 1], ids[i])]
<1>0. n \in Nat /\ p \in D /\ \A i \in 1..n : ids[i] \in Blocks
  BY DEF PoolOK
<1>1. \A q \in D, i \in 1..n : ReleaseOne(q, ids[i]) \in D
  <2>1. \A q \in D, i \in 1..n : PoolOK(ReleaseOne(q, ids[i]))
    BY <1>0, RefSteps, RefsOnlyKeeps
  <2> QED BY <2>1 DEF PoolOK
<1>2. G \in [D \X (1..n) -> D]
  BY <1>1
<1>3. \A q \in D, i \in 1..n : G[<<q, i>>] = ReleaseOne(q, ids[i])
  OBVIOUS
<1> HIDE DEF G, D
<1>3a. PICK f : IsTrace(f, n, D, p, G)
  <2>1. n \in Nat /\ p \in D
    BY <1>0
  <2> HIDE DEF n
  <2> QED BY <1>2, <2>1, LoopTrace
<1>4. f \in [0..n -> D] /\ f[0] = p /\ \A i \in 1..n : f[i] = G[<<f[i - 1], i>>]
  BY <1>3a DEF IsTrace
<1>5. \A i \in 1..n : f[i] = ReleaseOne(f[i - 1], ids[i])
  <2> TAKE i \in 1..n
  <2>1. f[i - 1] \in D
    BY <1>0, <1>4
  <2> QED BY <1>3, <1>4, <2>1
<1>6. T(f)
  <2>1. \A i \in 0..n : f[i] = IF i = 0 THEN p ELSE ReleaseOne(f[i - 1], ids[i])
    BY <1>0, <1>4, <1>5
  <2> QED BY <1>4, <2>1
<1>7. ReleaseForEviction(p, ids) = (CHOOSE g : T(g))[n]
  BY DEF ReleaseForEviction
<1> DEFINE g == CHOOSE g : T(g)
<1>8. T(g)
  BY <1>6
<1> HIDE DEF g
<1>9. \A i \in 1..n : g[i] = ReleaseOne(g[i - 1], ids[i])
  BY <1>0, <1>8
<1>10. \A i \in 0..n : g[i] \in D
  <2> DEFINE S == {i \in 0..n : g[i] \in D}
  <2>1. 0 \in S
    BY <1>0, <1>8
  <2>2. ASSUME NEW i \in 0..n, i \in S, i < n PROVE i + 1 \in S
    <3>1. i + 1 \in 1..n /\ (i + 1) - 1 = i /\ i + 1 \in 0..n
      BY <1>0, <2>2
    <3> QED BY <1>1, <1>9, <2>2, <3>1
  <2> HIDE DEF S
  <2>3. \A i \in 0..n : i \in S
    BY <1>0, <2>1, <2>2, CountUp
  <2> QED BY <2>3 DEF S
<1>11. g \in [0..n -> D] /\ g[0] = p
  BY <1>0, <1>8, <1>10
<1> QED BY <1>7, <1>9, <1>11 DEF D, g, Releases

(* A walk of get_computed_blocks.                                          *)
Walks == [pool : {q \in Pools : PoolOK(q)}, found : Seq(Blocks), open : BOOLEAN]
Walking(f, p, on, ids) ==
  /\ f \in [0..Len(ids) -> Walks]
  /\ f[0] = [pool |-> p, found |-> <<>>, open |-> TRUE]
  /\ GetComputedBlocks(p, on, ids) = f[Len(ids)]
  /\ \A i \in 1..Len(ids) : f[i] = Step(on, f[i - 1], ids[i])

(* A turn of the walk that restores a block from SSD.                      *)
LEMMA RestoreFacts ==
  ASSUME NEW p, PoolOK(p), p.free # <<>>, NEW h \in Hashes
  PROVE  LET b == Head(p.free)
             q == Restore(p, h)
         IN  /\ b \in Blocks \ p.allocated /\ PoolOK(q)
             /\ q.refs = [p.refs EXCEPT ![b] = 0] /\ q.allocated = p.allocated \cup {b}
             /\ q.hash[b] = h /\ \A c \in Blocks \ {b} : q.hash[c] = p.hash[c]
             /\ IndexOK(p) => IndexOK(q)
<1> DEFINE b == Head(p.free)
           m == Allocate(p)
           refs == [p.refs EXCEPT ![b] = 0]
           z == [m EXCEPT !.refs[b] = 0]
           q == Register(z, b, h)
<1>1. /\ b \in Blocks \ p.allocated /\ PoolOK(m)
      /\ m.refs = [p.refs EXCEPT ![b] = 1] /\ m.allocated = p.allocated \cup {b}
      /\ \A c \in Blocks \ {b} : m.hash[c] = p.hash[c]
      /\ IndexOK(p) => IndexOK(m) /\ \A k \in Hashes : b \notin Range(m.index[k])
  BY AllocateFacts
<1>2. p.refs \in [Blocks -> Int]
  BY PoolFields DEF PoolOK
<1> HIDE DEF m, b
<1>3. z = [m EXCEPT !.refs = refs] /\ refs \in [Blocks -> Int]
  BY <1>1, <1>2 DEF PoolOK, Pools
<1>4. RefsOnly(m, z) /\ z.refs = refs
  <2> HIDE DEF refs, z
  <2> QED BY <1>1, <1>3 DEF PoolOK, Pools, RefsOnly
<1> HIDE DEF z, refs
<1>5. PoolOK(z) /\ (IndexOK(m) => IndexOK(z))
  BY <1>1, <1>4, RefsOnlyKeeps
<1>6. z.hash = m.hash /\ z.allocated = m.allocated /\ z.index = m.index
  BY <1>4 DEF RefsOnly
<1>7. /\ PoolOK(q) /\ q.refs = refs /\ q.allocated = m.allocated
      /\ q.hash = [m.hash EXCEPT ![b] = h]
      /\ IndexOK(z) /\ b \in m.allocated /\ (\A k \in Hashes : b \notin Range(m.index[k]))
           => IndexOK(q)
  BY <1>1, <1>4, <1>5, <1>6, RegisterFacts
<1>8. m.hash \in [Blocks -> Hashes \cup {NoHash}]
  BY <1>1, PoolFields DEF PoolOK
<1> HIDE DEF q
<1>9. q.hash[b] = h /\ \A c \in Blocks \ {b} : q.hash[c] = p.hash[c]
  BY <1>1, <1>7, <1>8
<1> QED BY <1>1, <1>5, <1>7, <1>9 DEF b, m, z, q, refs, Restore

(* The cases of a turn.                                                    *)
LEMMA StepCases ==
  ASSUME NEW w \in Walks, NEW h \in Hashes, NEW on
  PROVE  LET v == Step(on, w, h)
             b == Head(w.pool.free)
             c == Head(w.pool.index[h])
         IN  /\ v \in Walks
             /\ \/ v.pool = w.pool /\ v.found = w.found /\ ~v.open
                \/ /\ w.open /\ v.open /\ v.pool = w.pool /\ v.found = Append(w.found, c)
                   /\ c \in Range(w.pool.index[h])
                \/ /\ w.open /\ v.open /\ v.found = Append(w.found, b) /\ w.pool.free # <<>>
                   /\ v.pool = Restore(w.pool, h)
<1> DEFINE v == Step(on, w, h)
           p == w.pool
           b == Head(p.free)
           c == Head(p.index[h])
           restored == Restore(p, h)
<1>0. /\ PoolOK(p) /\ p \in Pools /\ w.found \in Seq(Blocks) /\ w.open \in BOOLEAN
      /\ p.index[h] \in Seq(Blocks)
  <2>1. PoolOK(p) /\ p \in Pools /\ w.found \in Seq(Blocks) /\ w.open \in BOOLEAN
    BY DEF Walks
  <2>2. p.index \in [Hashes -> Seq(Blocks)]
    BY <2>1, PoolFields
  <2> QED BY <2>1, <2>2
<1>1. CASE ~w.open
  <2>1. v = w
    BY <1>1 DEF Step
  <2> QED BY <1>1, <2>1
<1>2. CASE w.open /\ p.index[h] # <<>>
  <2>1. Lookup(p.index, h) = <<c>> /\ c \in Blocks /\ c \in Range(p.index[h])
    BY <1>0, <1>2, TailFacts DEF Lookup
  <2>2. <<c>> # <<>> /\ w.found \o <<c>> = Append(w.found, c)
    BY <1>0, <2>1, AppendIsConcat
  <2>3. v = [w EXCEPT !.found = w.found \o <<c>>]
    <3> HIDE DEF c
    <3> QED BY <1>2, <2>1, <2>2 DEF Step, Walks
  <2>4. Append(w.found, c) \in Seq(Blocks)
    BY <1>0, <2>1, AppendProperties
  <2> HIDE DEF c
  <2>5. v = [w EXCEPT !.found = Append(w.found, c)]
    BY <2>2, <2>3
  <2> HIDE DEF v
  <2>6. v \in Walks /\ v.pool = w.pool /\ v.found = Append(w.found, c) /\ (v.open <=> w.open)
    BY <2>4, <2>5 DEF Walks
  <2> QED BY <1>2, <2>1, <2>6 DEF v, c
<1>3. CASE w.open /\ p.index[h] = <<>> /\ h \in on /\ p.free # <<>>
  <2>1. Lookup(p.index, h) = <<>>
    BY <1>3 DEF Lookup
  <2>2. v = [w EXCEPT !.pool = restored, !.found = Append(w.found, b)]
    <3> HIDE DEF restored
    <3> QED BY <1>3, <2>1 DEF Step, Walks, restored
  <2>3. PoolOK(restored) /\ b \in Blocks
    BY <1>0, <1>3, RestoreFacts
  <2>4. Append(w.found, b) \in Seq(Blocks) /\ restored \in Pools
    BY <1>0, <2>3, AppendProperties DEF PoolOK
  <2> HIDE DEF v, restored, b
  <2>5. v \in Walks /\ v.pool = restored /\ v.found = Append(w.found, b) /\ (v.open <=> w.open)
    BY <2>2, <2>3, <2>4 DEF Walks
  <2> QED BY <1>3, <2>5 DEF v, restored, b
<1>4. CASE w.open /\ p.index[h] = <<>> /\ ~(h \in on /\ p.free # <<>>)
  <2>1. Lookup(p.index, h) = <<>>
    BY <1>4 DEF Lookup
  <2>2. v = [w EXCEPT !.open = FALSE]
    BY <1>4, <2>1 DEF Step, Walks
  <2> HIDE DEF v
  <2>3. v \in Walks /\ v.pool = w.pool /\ v.found = w.found /\ ~v.open
    BY <2>2 DEF Walks
  <2> QED BY <2>3 DEF v
<1> QED BY <1>1, <1>2, <1>3, <1>4

(* A turn keeps a walk a walk.                                             *)
LEMMA StepWalks ==
  ASSUME NEW w \in Walks, NEW h \in Hashes, NEW on
  PROVE  Step(on, w, h) \in Walks
BY StepCases

(* So does the walk along a chain.                                         *)
LEMMA WalkTrace ==
  ASSUME NEW p, PoolOK(p), NEW on, NEW ids \in Seq(Hashes)
  PROVE  \E f : Walking(f, p, on, ids)
<1> DEFINE D == Walks
           n == Len(ids)
           a == [pool |-> p, found |-> <<>>, open |-> TRUE]
           G == [x \in D \X (1..n) |-> Step(on, x[1], ids[x[2]])]
           T(f) == f = [i \in 0..n |-> IF i = 0 THEN a ELSE Step(on, f[i - 1], ids[i])]
<1>0. n \in Nat /\ a \in D /\ \A i \in 1..n : ids[i] \in Hashes
  BY DEF PoolOK, Walks
<1>1. \A q \in D, i \in 1..n : Step(on, q, ids[i]) \in D
  BY <1>0, StepWalks
<1>2. G \in [D \X (1..n) -> D]
  BY <1>1
<1>3. \A q \in D, i \in 1..n : G[<<q, i>>] = Step(on, q, ids[i])
  OBVIOUS
<1> HIDE DEF G, D
<1>3a. PICK f : IsTrace(f, n, D, a, G)
  <2>1. n \in Nat /\ a \in D
    BY <1>0
  <2> HIDE DEF n
  <2> QED BY <1>2, <2>1, LoopTrace
<1>4. f \in [0..n -> D] /\ f[0] = a /\ \A i \in 1..n : f[i] = G[<<f[i - 1], i>>]
  BY <1>3a DEF IsTrace
<1>5. \A i \in 1..n : f[i] = Step(on, f[i - 1], ids[i])
  <2> TAKE i \in 1..n
  <2>1. f[i - 1] \in D
    BY <1>0, <1>4
  <2> QED BY <1>3, <1>4, <2>1
<1>6. T(f)
  <2>1. \A i \in 0..n : f[i] = IF i = 0 THEN a ELSE Step(on, f[i - 1], ids[i])
    BY <1>0, <1>4, <1>5
  <2> QED BY <1>4, <2>1
<1>7. GetComputedBlocks(p, on, ids) = (CHOOSE g : T(g))[n]
  BY DEF GetComputedBlocks
<1> DEFINE g == CHOOSE g : T(g)
<1>8. T(g)
  BY <1>6
<1> HIDE DEF g
<1>9. \A i \in 1..n : g[i] = Step(on, g[i - 1], ids[i])
  <2> TAKE i \in 1..n
  <2>1. i \in 0..n /\ i # 0
    BY <1>0
  <2> HIDE DEF a
  <2> QED BY <1>8, <2>1
<1>10. \A i \in 0..n : g[i] \in D
  <2> DEFINE S == {i \in 0..n : g[i] \in D}
  <2>1. 0 \in S
    BY <1>0, <1>8
  <2>2. ASSUME NEW i \in 0..n, i \in S, i < n PROVE i + 1 \in S
    <3>1. i + 1 \in 1..n /\ (i + 1) - 1 = i /\ i + 1 \in 0..n
      BY <1>0, <2>2
    <3> QED BY <1>1, <1>9, <2>2, <3>1
  <2> HIDE DEF S
  <2>3. \A i \in 0..n : i \in S
    BY <1>0, <2>1, <2>2, CountUp
  <2> QED BY <2>3 DEF S
<1>11. g \in [0..n -> D] /\ g[0] = a
  BY <1>0, <1>8, <1>10
<1> QED BY <1>7, <1>9, <1>11 DEF D, g, Walking

(* The loops keep the pool in order.                                       *)
LEMMA LoopsKeepPool ==
  ASSUME NEW p, PoolOK(p), NEW ids \in Seq(Blocks)
  PROVE  PoolOK(FreeAll(p, ids)) /\ PoolOK(ReleaseForEviction(p, ids))
<1>0. Len(ids) \in 0..Len(ids)
  OBVIOUS
<1>1. PoolOK(FreeAll(p, ids))
  BY <1>0, FreeAllTrace DEF Frees
<1>2. PoolOK(ReleaseForEviction(p, ids))
  BY <1>0, ReleaseTrace DEF Releases
<1> QED BY <1>1, <1>2

(* The walk leaves a pool in order and finds at most the chain.            *)
LEMMA WalkKeepsPool ==
  ASSUME NEW p, PoolOK(p), NEW on, NEW chain \in Seq(Hashes)
  PROVE  LET walk == GetComputedBlocks(p, on, chain)
         IN  PoolOK(walk.pool) /\ walk.found \in Seq(Blocks) /\ Len(walk.found) <= Len(chain)
<1>0a. PICK f : Walking(f, p, on, chain)
  BY WalkTrace
<1>1. /\ f \in [0..Len(chain) -> Walks]
      /\ f[0] = [pool |-> p, found |-> <<>>, open |-> TRUE]
      /\ GetComputedBlocks(p, on, chain) = f[Len(chain)]
      /\ \A i \in 1..Len(chain) : f[i] = Step(on, f[i - 1], chain[i])
  BY <1>0a DEF Walking
<1> DEFINE n == Len(chain)
           S == {i \in 0..n : Len(f[i].found) <= i}
<1>0. n \in Nat
  OBVIOUS
<1>2. 0 \in S
  <2>1. f[0].found = <<>>
    BY <1>1
  <2> QED BY <1>0, <2>1
<1>3. ASSUME NEW i \in 0..n, i \in S, i < n PROVE i + 1 \in S
  <2>1. i + 1 \in 1..n /\ (i + 1) - 1 = i /\ i + 1 \in 0..n
    BY <1>0, <1>3
  <2>2. f[i + 1] = Step(on, f[i], chain[i + 1]) /\ f[i] \in Walks /\ chain[i + 1] \in Hashes
    BY <1>1, <2>1
  <2>3. /\ f[i].found \in Seq(Blocks) /\ f[i + 1].found \in Seq(Blocks)
        /\ \/ f[i + 1].found = f[i].found
           \/ \E b : f[i + 1].found = Append(f[i].found, b)
    <3>1. f[i].found \in Seq(Blocks)
      BY <2>2 DEF Walks
    <3>2. f[i + 1].found \in Seq(Blocks)
      BY <2>2, StepCases DEF Walks
    <3>3. \/ f[i + 1].found = f[i].found
          \/ \E b : f[i + 1].found = Append(f[i].found, b)
      <4> DEFINE w == f[i]
                 v == f[i + 1]
                 h == chain[i + 1]
      <4>1. v = Step(on, w, h) /\ w \in Walks /\ h \in Hashes
        BY <2>2
      <4> HIDE DEF w, v, h
      <4>2. \/ v.found = w.found
            \/ v.found = Append(w.found, Head(w.pool.index[h]))
            \/ v.found = Append(w.found, Head(w.pool.free))
        BY <4>1, StepCases
      <4> QED BY <4>2 DEF w, v
    <3> QED BY <3>1, <3>2, <3>3
  <2>4. Len(f[i + 1].found) <= Len(f[i].found) + 1
    BY <2>3
  <2> QED BY <1>3, <2>1, <2>3, <2>4
<1>4. n \in S
  <2> HIDE DEF S
  <2>1. \A i \in 0..n : i \in S
    BY <1>0, <1>2, <1>3, CountUp
  <2> QED BY <1>0, <2>1
<1>5. f[n] \in Walks
  BY <1>0, <1>1
<1> QED BY <1>1, <1>4, <1>5 DEF Walks

-----------------------------------------------------------------------------
(* References and claims.                                                  *)

BlockAt(tab, c) == tab[c[1]][c[2]]
ClaimsIn(Q, tab, b) == {c \in Q : BlockAt(tab, c) = b}

(* The references of the pool are those of the places Q in tables tab.     *)
Counted(p, Q, tab) ==
  /\ IsFiniteSet(Q)
  /\ \A c \in Q : BlockAt(tab, c) \in p.allocated
  /\ \A b \in Blocks : p.refs[b] = Cardinality(ClaimsIn(Q, tab, b))

(* One more place is one more claim on its block.                          *)
LEMMA ClaimGrows ==
  ASSUME NEW Q, NEW tab, NEW new, NEW x, NEW b, IsFiniteSet(Q), x \notin Q,
         \A c \in Q : BlockAt(new, c) = BlockAt(tab, c), BlockAt(new, x) = b
  PROVE  /\ IsFiniteSet(Q \cup {x})
         /\ \A d : Cardinality(ClaimsIn(Q \cup {x}, new, d)) =
                     IF d = b THEN Cardinality(ClaimsIn(Q, tab, d)) + 1
                     ELSE Cardinality(ClaimsIn(Q, tab, d))
<1>1. IsFiniteSet(Q \cup {x})
  BY FS_AddElement
<1>2. ASSUME NEW d
      PROVE  Cardinality(ClaimsIn(Q \cup {x}, new, d)) =
               IF d = b THEN Cardinality(ClaimsIn(Q, tab, d)) + 1
               ELSE Cardinality(ClaimsIn(Q, tab, d))
  <2>1. IsFiniteSet(ClaimsIn(Q, tab, d)) /\ x \notin ClaimsIn(Q, tab, d)
    <3>1. ClaimsIn(Q, tab, d) \in SUBSET Q
      BY DEF ClaimsIn
    <3> QED BY <3>1, FS_Subset
  <2>2. CASE d = b
    <3>1. ClaimsIn(Q \cup {x}, new, d) = ClaimsIn(Q, tab, d) \cup {x}
      BY <2>2 DEF ClaimsIn
    <3>2. Cardinality(ClaimsIn(Q, tab, d) \cup {x}) = Cardinality(ClaimsIn(Q, tab, d)) + 1
      BY <2>1, FS_AddElement
    <3> QED BY <2>2, <3>1, <3>2
  <2>3. CASE d # b
    <3>1. ClaimsIn(Q \cup {x}, new, d) = ClaimsIn(Q, tab, d)
      BY <2>3 DEF ClaimsIn
    <3> QED BY <2>3, <3>1
  <2> QED BY <2>2, <2>3
<1> QED BY <1>1, <1>2

(* One place less is one claim less.                                       *)
LEMMA ClaimShrinks ==
  ASSUME NEW Q, NEW tab, NEW x \in Q, NEW b, IsFiniteSet(Q), BlockAt(tab, x) = b
  PROVE  /\ IsFiniteSet(Q \ {x})
         /\ \A d : Cardinality(ClaimsIn(Q \ {x}, tab, d)) =
                     IF d = b THEN Cardinality(ClaimsIn(Q, tab, d)) - 1
                     ELSE Cardinality(ClaimsIn(Q, tab, d))
         /\ Cardinality(ClaimsIn(Q, tab, b)) \in Nat \ {0}
         /\ Cardinality(ClaimsIn(Q, tab, b)) = 1 => \A c \in Q \ {x} : BlockAt(tab, c) # b
<1>1. IsFiniteSet(Q \ {x})
  BY FS_RemoveElement
<1>2. \A d : IsFiniteSet(ClaimsIn(Q, tab, d))
  <2>1. \A d : ClaimsIn(Q, tab, d) \in SUBSET Q
    BY DEF ClaimsIn
  <2> QED BY <2>1, FS_Subset
<1>3. ASSUME NEW d
      PROVE  Cardinality(ClaimsIn(Q \ {x}, tab, d)) =
               IF d = b THEN Cardinality(ClaimsIn(Q, tab, d)) - 1
               ELSE Cardinality(ClaimsIn(Q, tab, d))
  <2>1. ClaimsIn(Q \ {x}, tab, d) = ClaimsIn(Q, tab, d) \ {x}
    BY DEF ClaimsIn
  <2>2. x \in ClaimsIn(Q, tab, d) <=> d = b
    BY DEF ClaimsIn
  <2> QED BY <1>2, <2>1, <2>2, FS_RemoveElement
<1>4. x \in ClaimsIn(Q, tab, b)
  BY DEF ClaimsIn
<1>5. Cardinality(ClaimsIn(Q, tab, b)) \in Nat \ {0}
  BY <1>2, <1>4, FS_CardinalityType, FS_EmptySet
<1>6. ASSUME Cardinality(ClaimsIn(Q, tab, b)) = 1, NEW c \in Q \ {x}
      PROVE  BlockAt(tab, c) # b
  <2>1. PICK y : ClaimsIn(Q, tab, b) = {y}
    BY <1>2, <1>6, FS_Singleton
  <2> QED BY <1>4, <2>1 DEF ClaimsIn
<1> QED BY <1>1, <1>3, <1>5, <1>6

(* free_block and release_for_eviction of one claim.                       *)
LEMMA ClaimEnds ==
  ASSUME NEW p, PoolOK(p), NEW Q, NEW tab, Counted(p, Q, tab), NEW x \in Q, NEW b,
         BlockAt(tab, x) = b
  PROVE  Counted(Free(p, b), Q \ {x}, tab) /\ Counted(ReleaseOne(p, b), Q \ {x}, tab)
<1>0. /\ p \in Pools /\ p.refs \in [Blocks -> Int] /\ p.allocated \subseteq Blocks
      /\ b \in p.allocated /\ b \in Blocks
  BY PoolFields DEF PoolOK, Counted
<1>1. /\ IsFiniteSet(Q \ {x})
      /\ \A d : Cardinality(ClaimsIn(Q \ {x}, tab, d)) =
                  IF d = b THEN Cardinality(ClaimsIn(Q, tab, d)) - 1
                  ELSE Cardinality(ClaimsIn(Q, tab, d))
      /\ Cardinality(ClaimsIn(Q, tab, b)) \in Nat \ {0}
      /\ Cardinality(ClaimsIn(Q, tab, b)) = 1 => \A c \in Q \ {x} : BlockAt(tab, c) # b
  BY ClaimShrinks DEF Counted
<1>2. p.refs[b] = Cardinality(ClaimsIn(Q, tab, b)) /\ p.refs[b] > 0
  BY <1>0, <1>1 DEF Counted
<1>3. ASSUME NEW q, q.refs = [p.refs EXCEPT ![b] = @ - 1],
             \A c \in Q \ {x} : BlockAt(tab, c) \in q.allocated
      PROVE  Counted(q, Q \ {x}, tab)
  <2>1. \A d \in Blocks : q.refs[d] = Cardinality(ClaimsIn(Q \ {x}, tab, d))
    BY <1>0, <1>1, <1>3 DEF Counted
  <2> QED BY <1>1, <1>3, <2>1 DEF Counted
<1>4. Counted(ReleaseOne(p, b), Q \ {x}, tab)
  <2> DEFINE q == ReleaseOne(p, b)
  <2>1. q.refs = [p.refs EXCEPT ![b] = @ - 1] /\ q.allocated = p.allocated
    BY <1>0, <1>2, RefSteps DEF RefsOnly
  <2> HIDE DEF q
  <2>2. Counted(q, Q \ {x}, tab)
    BY <1>3, <2>1 DEF Counted
  <2> QED BY <2>2 DEF q
<1>5. Counted(Free(p, b), Q \ {x}, tab)
  <2> DEFINE q == Free(p, b)
  <2>1. CASE p.refs[b] > 1
    <3>1. q.refs = [p.refs EXCEPT ![b] = @ - 1] /\ q.allocated = p.allocated
      BY <1>0, <2>1, FreeShares
    <3> HIDE DEF q
    <3>2. Counted(q, Q \ {x}, tab)
      BY <1>3, <3>1 DEF Counted
    <3> QED BY <3>2 DEF q
  <2>2. CASE ~(p.refs[b] > 1)
    <3>1. q.refs = [p.refs EXCEPT ![b] = @ - 1] /\ q.allocated = p.allocated \ {b}
      BY <1>0, <2>2, FreeReturns
    <3>2. p.refs[b] = 1
      BY <1>0, <1>2, <2>2
    <3> HIDE DEF q
    <3>3. \A c \in Q \ {x} : BlockAt(tab, c) \in q.allocated
      BY <1>1, <1>2, <3>1, <3>2 DEF Counted
    <3>4. Counted(q, Q \ {x}, tab)
      BY <1>3, <3>1, <3>3
    <3> QED BY <3>4 DEF q
  <2> QED BY <2>1, <2>2
<1> QED BY <1>4, <1>5

(* increment_ref, or allocate_block, for one more claim.                   *)
LEMMA ClaimBegins ==
  ASSUME NEW p, PoolOK(p), NEW Q, NEW tab, Counted(p, Q, tab), NEW x, x \notin Q, NEW new,
         \A c \in Q : BlockAt(new, c) = BlockAt(tab, c), NEW b, BlockAt(new, x) = b
  PROVE  /\ b \in p.allocated => Counted(IncrementRef(p, b), Q \cup {x}, new)
         /\ p.free # <<>> /\ b = Head(p.free) => Counted(Allocate(p), Q \cup {x}, new)
<1>0. p \in Pools /\ p.refs \in [Blocks -> Int] /\ p.allocated \subseteq Blocks
  BY PoolFields DEF PoolOK
<1>1. /\ IsFiniteSet(Q \cup {x})
      /\ \A d : Cardinality(ClaimsIn(Q \cup {x}, new, d)) =
                  IF d = b THEN Cardinality(ClaimsIn(Q, tab, d)) + 1
                  ELSE Cardinality(ClaimsIn(Q, tab, d))
  BY ClaimGrows DEF Counted
<1>2. ASSUME NEW q, b \in Blocks, q.refs = [p.refs EXCEPT ![b] = @ + 1],
             p.allocated \cup {b} \subseteq q.allocated
      PROVE  Counted(q, Q \cup {x}, new)
  <2>1. \A d \in Blocks : q.refs[d] = Cardinality(ClaimsIn(Q \cup {x}, new, d))
    BY <1>0, <1>1, <1>2 DEF Counted
  <2>2. \A c \in Q \cup {x} : BlockAt(new, c) \in q.allocated
    BY <1>2 DEF Counted
  <2> QED BY <1>1, <2>1, <2>2 DEF Counted
<1>3. ASSUME b \in p.allocated PROVE Counted(IncrementRef(p, b), Q \cup {x}, new)
  <2> DEFINE q == IncrementRef(p, b)
  <2>1. b \in Blocks /\ q.refs = [p.refs EXCEPT ![b] = @ + 1] /\ q.allocated = p.allocated
    BY <1>0, <1>3, RefSteps DEF RefsOnly
  <2> HIDE DEF q
  <2>2. Counted(q, Q \cup {x}, new)
    BY <1>2, <1>3, <2>1
  <2> QED BY <2>2 DEF q
<1>4. ASSUME p.free # <<>>, b = Head(p.free) PROVE Counted(Allocate(p), Q \cup {x}, new)
  <2> DEFINE q == Allocate(p)
  <2>1. /\ b \in Blocks \ p.allocated /\ q.refs = [p.refs EXCEPT ![b] = 1]
        /\ q.allocated = p.allocated \cup {b}
    BY <1>4, AllocateFacts
  <2>2. ClaimsIn(Q, tab, b) = {}
    BY <2>1 DEF ClaimsIn, Counted
  <2>3. p.refs[b] = 0
    BY <2>1, <2>2, FS_EmptySet DEF Counted
  <2> HIDE DEF q
  <2>4. q.refs = [p.refs EXCEPT ![b] = @ + 1]
    BY <1>0, <2>1, <2>3
  <2>5. Counted(q, Q \cup {x}, new)
    BY <1>2, <2>1, <2>4
  <2> QED BY <2>5 DEF q
<1> QED BY <1>3, <1>4

(* A step that touches no reference.                                       *)
LEMMA ClaimsStay ==
  ASSUME NEW p, NEW q, NEW Q, NEW tab, NEW new, Counted(p, Q, tab), q.refs = p.refs,
         p.allocated \subseteq q.allocated, \A c \in Q : BlockAt(new, c) = BlockAt(tab, c)
  PROVE  Counted(q, Q, new)
<1>1. \A b : ClaimsIn(Q, new, b) = ClaimsIn(Q, tab, b)
  BY DEF ClaimsIn
<1> QED BY <1>1 DEF Counted

(* The places of request r from m + 1 to m + i.                            *)
Stretch(r, m, i) == {r} \X ((m + 1)..(m + i))

(* free_block along a stretch of a table, as at a full prefill.            *)
LEMMA FreeAllCounts ==
  ASSUME NEW p, PoolOK(p), NEW Q, NEW tab, Counted(p, Q, tab), IndexOK(p),
         NEW r, NEW m \in Nat, NEW ids \in Seq(Blocks),
         \A i \in 1..Len(ids) : <<r, m + i>> \in Q /\ tab[r][m + i] = ids[i]
  PROVE  LET q == FreeAll(p, ids)
         IN  /\ PoolOK(q) /\ IndexOK(q) /\ q.hash = p.hash
             /\ Counted(q, Q \ Stretch(r, m, Len(ids)), tab)
<1>1. PICK f : Frees(f, p, ids)
  BY FreeAllTrace
<1> DEFINE n == Len(ids)
           Good(q, i) == /\ IndexOK(q) /\ q.hash = p.hash
                         /\ Counted(q, Q \ Stretch(r, m, i), tab)
           S == {i \in 0..n : Good(f[i], i)}
<1>2. /\ n \in Nat /\ f[0] = p /\ FreeAll(p, ids) = f[n]
      /\ \A i \in 0..n : f[i] \in Pools /\ PoolOK(f[i])
      /\ \A i \in 1..n : f[i] = Free(f[i - 1], ids[i])
  BY <1>1 DEF Frees
<1>3. 0 \in S
  <2>1. Q \ Stretch(r, m, 0) = Q
    BY DEF Stretch
  <2>2. Good(p, 0)
    BY <2>1
  <2>3. Good(f[0], 0) /\ 0 \in 0..n
    <3> HIDE DEF Good
    <3> QED BY <1>2, <2>2
  <2> HIDE DEF Good
  <2> QED BY <2>3
<1>4. ASSUME NEW i \in 0..n, i \in S, i < n PROVE i + 1 \in S
  <2> DEFINE b == ids[i + 1]
             x == <<r, m + i + 1>>
             P == Q \ Stretch(r, m, i)
  <2>1. i + 1 \in 1..n /\ (i + 1) - 1 = i /\ i + 1 \in 0..n /\ m + (i + 1) = m + i + 1
    BY <1>2, <1>4
  <2>2. f[i + 1] = Free(f[i], b) /\ PoolOK(f[i]) /\ b \in Blocks
    BY <1>2, <2>1
  <2>3. x \in P /\ BlockAt(tab, x) = b
    BY <2>1 DEF Stretch, BlockAt
  <2>4. Q \ Stretch(r, m, i + 1) = P \ {x}
    BY <2>1 DEF Stretch
  <2>5. IndexOK(f[i]) /\ f[i].hash = p.hash /\ Counted(f[i], P, tab)
    BY <1>4
  <2> HIDE DEF x, P, b
  <2>6. Counted(f[i + 1], P \ {x}, tab)
    BY <2>2, <2>3, <2>5, ClaimEnds
  <2>7. IndexOK(f[i + 1]) /\ f[i + 1].hash = p.hash
    BY <2>2, <2>5, FreeKeeps
  <2> QED BY <2>1, <2>4, <2>6, <2>7
<1>5. n \in S
  <2> HIDE DEF S
  <2>1. \A i \in 0..n : i \in S
    BY <1>2, <1>3, <1>4, CountUp
  <2> QED BY <1>2, <2>1
<1> QED BY <1>2, <1>5

(* release_for_eviction of a stretch of a table.                           *)
LEMMA ReleaseCounts ==
  ASSUME NEW p, PoolOK(p), NEW Q, NEW tab, Counted(p, Q, tab), IndexOK(p),
         NEW r, NEW m \in Nat, NEW ids \in Seq(Blocks),
         \A i \in 1..Len(ids) : <<r, m + i>> \in Q /\ tab[r][m + i] = ids[i]
  PROVE  LET q == ReleaseForEviction(p, ids)
         IN  /\ PoolOK(q) /\ IndexOK(q) /\ q.hash = p.hash /\ q.allocated = p.allocated
             /\ Counted(q, Q \ Stretch(r, m, Len(ids)), tab)
<1>1. PICK f : Releases(f, p, ids)
  BY ReleaseTrace
<1> DEFINE n == Len(ids)
           Good(q, i) == /\ IndexOK(q) /\ q.hash = p.hash /\ q.allocated = p.allocated
                         /\ Counted(q, Q \ Stretch(r, m, i), tab)
           S == {i \in 0..n : Good(f[i], i)}
<1>2. /\ n \in Nat /\ f[0] = p /\ ReleaseForEviction(p, ids) = f[n]
      /\ \A i \in 0..n : f[i] \in Pools /\ PoolOK(f[i])
      /\ \A i \in 1..n : f[i] = ReleaseOne(f[i - 1], ids[i])
  BY <1>1 DEF Releases
<1>3. 0 \in S
  <2>1. Q \ Stretch(r, m, 0) = Q
    BY DEF Stretch
  <2>2. Good(p, 0)
    BY <2>1
  <2>3. Good(f[0], 0) /\ 0 \in 0..n
    <3> HIDE DEF Good
    <3> QED BY <1>2, <2>2
  <2> HIDE DEF Good
  <2> QED BY <2>3
<1>4. ASSUME NEW i \in 0..n, i \in S, i < n PROVE i + 1 \in S
  <2> DEFINE b == ids[i + 1]
             x == <<r, m + i + 1>>
             P == Q \ Stretch(r, m, i)
  <2>1. i + 1 \in 1..n /\ (i + 1) - 1 = i /\ i + 1 \in 0..n /\ m + (i + 1) = m + i + 1
    BY <1>2, <1>4
  <2>2. f[i + 1] = ReleaseOne(f[i], b) /\ PoolOK(f[i]) /\ f[i] \in Pools /\ b \in Blocks
    BY <1>2, <2>1
  <2>3. x \in P /\ BlockAt(tab, x) = b
    BY <2>1 DEF Stretch, BlockAt
  <2>4. Q \ Stretch(r, m, i + 1) = P \ {x}
    BY <2>1 DEF Stretch
  <2>5. /\ IndexOK(f[i]) /\ f[i].hash = p.hash /\ f[i].allocated = p.allocated
        /\ Counted(f[i], P, tab)
    BY <1>4
  <2> HIDE DEF x, P, b
  <2>6. Counted(f[i + 1], P \ {x}, tab)
    BY <2>2, <2>3, <2>5, ClaimEnds
  <2>7. RefsOnly(f[i], f[i + 1])
    BY <2>2, RefSteps
  <2>8. IndexOK(f[i + 1]) /\ f[i + 1].hash = p.hash /\ f[i + 1].allocated = p.allocated
    BY <2>2, <2>5, <2>7, RefsOnlyKeeps DEF RefsOnly
  <2> QED BY <2>1, <2>4, <2>6, <2>8
<1>5. n \in S
  <2> HIDE DEF S
  <2>1. \A i \in 0..n : i \in S
    BY <1>2, <1>3, <1>4, CountUp
  <2> QED BY <1>2, <2>1
<1> QED BY <1>2, <1>5

(* A block that is not allocated has no reference.                         *)
LEMMA FreeIsUnclaimed ==
  ASSUME NEW p, NEW Q, NEW tab, Counted(p, Q, tab), NEW b \in Blocks \ p.allocated
  PROVE  p.refs[b] = 0
<1>1. ClaimsIn(Q, tab, b) = {}
  BY DEF ClaimsIn, Counted
<1> QED BY <1>1, FS_EmptySet DEF Counted

(* After i turns of a walk from pool p along a chain: the blocks found     *)
(* hold the chain's hashes, and what p held is where it was.               *)
WalkOK(w, p, Q, tab, chain, i) ==
  /\ IndexOK(w.pool) /\ Counted(w.pool, Q, tab)
  /\ p.allocated \subseteq w.pool.allocated
  /\ \A b \in p.allocated : w.pool.hash[b] = p.hash[b]
  /\ Len(w.found) <= i /\ (w.open => Len(w.found) = i)
  /\ \A j \in 1..Len(w.found) : /\ w.found[j] \in w.pool.allocated
                                /\ w.pool.hash[w.found[j]] = chain[j]

(* A turn of the walk.                                                     *)
LEMMA WalkTurn ==
  ASSUME NEW p, PoolOK(p), NEW Q, NEW tab, NEW chain \in Seq(Hashes), NEW on,
         NEW i \in 0..Len(chain), i < Len(chain),
         NEW w \in Walks, WalkOK(w, p, Q, tab, chain, i)
  PROVE  WalkOK(Step(on, w, chain[i + 1]), p, Q, tab, chain, i + 1)
<1> DEFINE h == chain[i + 1]
           v == Step(on, w, h)
           b == Head(w.pool.free)
           c == Head(w.pool.index[h])
<1>0. h \in Hashes /\ i + 1 \in 1..Len(chain) /\ i \in Nat
  OBVIOUS
<1>1. /\ PoolOK(w.pool) /\ w.pool \in Pools /\ w.found \in Seq(Blocks) /\ p.allocated \subseteq Blocks
      /\ w.pool.allocated \subseteq Blocks
  <2>1. PoolOK(w.pool) /\ w.pool \in Pools /\ w.found \in Seq(Blocks)
    BY DEF Walks
  <2> QED BY <2>1, PoolFields DEF PoolOK
<1>2. /\ v \in Walks
      /\ \/ v.pool = w.pool /\ v.found = w.found /\ ~v.open
         \/ /\ w.open /\ v.open /\ v.pool = w.pool /\ v.found = Append(w.found, c)
            /\ c \in Range(w.pool.index[h])
         \/ /\ w.open /\ v.open /\ v.found = Append(w.found, b) /\ w.pool.free # <<>>
            /\ v.pool = Restore(w.pool, h)
  BY <1>0, StepCases
<1> HIDE DEF v, h
<1>3. CASE v.pool = w.pool /\ v.found = w.found /\ ~v.open
  BY <1>0, <1>1, <1>3 DEF WalkOK, v, h
<1>4. CASE /\ w.open /\ v.open /\ v.pool = w.pool /\ v.found = Append(w.found, c)
           /\ c \in Range(w.pool.index[h])
  <2>1. c \in w.pool.allocated /\ w.pool.hash[c] = h
    BY <1>0, <1>4 DEF WalkOK, IndexOK
  <2> HIDE DEF c
  <2>2. Len(w.found) = i /\ c \in Blocks
    BY <1>1, <1>4, <2>1 DEF WalkOK
  <2>3. /\ Len(v.found) = i + 1 /\ v.found[i + 1] = c
        /\ \A j \in 1..i : v.found[j] = w.found[j]
    BY <1>1, <1>4, <2>2, AppendProperties
  <2>4. \A j \in 1..Len(v.found) : /\ v.found[j] \in v.pool.allocated
                                   /\ v.pool.hash[v.found[j]] = chain[j]
    <3> TAKE j \in 1..Len(v.found)
    <3>1. CASE j = i + 1
      BY <1>4, <2>1, <2>3, <3>1 DEF h
    <3>2. CASE j \in 1..i
      BY <1>4, <2>2, <2>3, <3>2 DEF WalkOK
    <3> QED BY <1>0, <2>3, <3>1, <3>2
  <2>5. WalkOK(v, p, Q, tab, chain, i + 1)
    BY <1>0, <1>4, <2>3, <2>4 DEF WalkOK
  <2> QED BY <2>5 DEF v, h
<1>5. CASE /\ w.open /\ v.open /\ v.found = Append(w.found, b) /\ w.pool.free # <<>>
           /\ v.pool = Restore(w.pool, h)
  <2> DEFINE a == w.pool
             z == v.pool
  <2>1. /\ b \in Blocks \ a.allocated /\ PoolOK(z)
        /\ z.refs = [a.refs EXCEPT ![b] = 0] /\ z.allocated = a.allocated \cup {b}
        /\ z.hash[b] = h /\ \A d \in Blocks \ {b} : z.hash[d] = a.hash[d]
        /\ IndexOK(a) => IndexOK(z)
    <3>1. /\ PoolOK(a) /\ a.free # <<>> /\ b = Head(a.free)
          /\ z = Restore(a, h)
      BY <1>1, <1>5
    <3> HIDE DEF a, z, b
    <3> QED BY <1>0, <3>1, RestoreFacts
  <2>2. a.refs[b] = 0 /\ a.refs \in [Blocks -> Int]
    BY <1>1, <2>1, FreeIsUnclaimed, PoolFields DEF WalkOK
  <2>3. z.refs = a.refs
    BY <2>1, <2>2
  <2>4. Counted(z, Q, tab)
    <3>1. Counted(a, Q, tab)
      BY DEF WalkOK
    <3> HIDE DEF a, z, b
    <3> QED BY <2>1, <2>3, <3>1, ClaimsStay
  <2> HIDE DEF b
  <2>5. Len(w.found) = i
    BY <1>5 DEF WalkOK
  <2>6. /\ Len(v.found) = i + 1 /\ v.found[i + 1] = b
        /\ \A j \in 1..i : v.found[j] = w.found[j]
    BY <1>1, <1>5, <2>1, <2>5, AppendProperties
  <2>7. \A d \in a.allocated : d \in z.allocated /\ z.hash[d] = a.hash[d]
    BY <1>1, <2>1
  <2>8. \A j \in 1..Len(v.found) : v.found[j] \in z.allocated /\ z.hash[v.found[j]] = chain[j]
    <3> TAKE j \in 1..Len(v.found)
    <3>1. CASE j = i + 1
      BY <2>1, <2>6, <3>1 DEF h
    <3>2. CASE j \in 1..i
      <4>1. w.found[j] \in a.allocated /\ a.hash[w.found[j]] = chain[j]
        BY <2>5, <3>2 DEF WalkOK
      <4> QED BY <2>6, <2>7, <3>2, <4>1
    <3> QED BY <1>0, <2>6, <3>1, <3>2
  <2>9. p.allocated \subseteq z.allocated /\ \A d \in p.allocated : z.hash[d] = p.hash[d]
    BY <2>7 DEF WalkOK
  <2>10. WalkOK(v, p, Q, tab, chain, i + 1)
    BY <1>0, <2>1, <2>4, <2>6, <2>8, <2>9 DEF WalkOK
  <2> QED BY <2>10 DEF v, h
<1> QED BY <1>2, <1>3, <1>4, <1>5

(* get_computed_blocks finds blocks of the chain's hashes.                 *)
LEMMA WalkFinds ==
  ASSUME NEW p, PoolOK(p), IndexOK(p), NEW Q, NEW tab, Counted(p, Q, tab),
         NEW chain \in Seq(Hashes), NEW on
  PROVE  WalkOK(GetComputedBlocks(p, on, chain), p, Q, tab, chain, Len(chain))
<1>1. PICK f : Walking(f, p, on, chain)
  BY WalkTrace
<1> DEFINE n == Len(chain)
           S == {i \in 0..n : WalkOK(f[i], p, Q, tab, chain, i)}
<1>2. /\ n \in Nat /\ GetComputedBlocks(p, on, chain) = f[n]
      /\ f[0] = [pool |-> p, found |-> <<>>, open |-> TRUE]
      /\ \A i \in 0..n : f[i] \in Walks
      /\ \A i \in 1..n : f[i] = Step(on, f[i - 1], chain[i])
  BY <1>1 DEF Walking
<1>3. 0 \in S
  <2>1. f[0].pool = p /\ f[0].found = <<>> /\ f[0].open
    BY <1>2
  <2>2. WalkOK(f[0], p, Q, tab, chain, 0)
    BY <2>1 DEF WalkOK
  <2> QED BY <1>2, <2>2
<1>4. ASSUME NEW i \in 0..n, i \in S, i < n PROVE i + 1 \in S
  <2>1. i + 1 \in 1..n /\ (i + 1) - 1 = i /\ i + 1 \in 0..n
    BY <1>2, <1>4
  <2>2. f[i + 1] = Step(on, f[i], chain[i + 1]) /\ f[i] \in Walks
    BY <1>2, <2>1
  <2>3. WalkOK(f[i + 1], p, Q, tab, chain, i + 1)
    BY <1>4, <2>2, WalkTurn
  <2> QED BY <2>1, <2>3
<1>5. n \in S
  <2> HIDE DEF S
  <2>1. \A i \in 0..n : i \in S
    BY <1>2, <1>3, <1>4, CountUp
  <2> QED BY <1>2, <2>1
<1> QED BY <1>2, <1>5

-----------------------------------------------------------------------------
(* With both threads.                                                      *)

Phases == {"new", "fetching", "running", "rejected", "storing", "failed", "over"}
StorePlaces == {"idle", "next", "share", "allocate", "register", "save", "release"}

CacheTypes ==
  /\ PoolOK(pool)
  /\ phase \in [Requests -> Phases] /\ table \in [Requests -> Seq(Blocks)]
  /\ fetch \in [req : Requests \cup {NoRequest}, ids : Seq(Blocks), indexed : BOOLEAN]
  /\ queue \in Seq(Requests)
  /\ store \in [req : Requests \cup {NoRequest}, at : StorePlaces, ids : Seq(Blocks)]

(* What a request's table can hold.                                        *)
TableOK(r) ==
  /\ Len(table[r]) <= Len(Chain[r])
  /\ phase[r] = "new" => table[r] = <<>>

(* The fetch and the store at work: of different requests, since their     *)
(* phases differ.                                                          *)
FetchOK ==
  /\ fetch.req = NoRequest => fetch = NoFetch
  /\ fetch.req # NoRequest =>
       /\ phase[fetch.req] = "fetching"
       /\ Len(table[fetch.req]) + Len(fetch.ids) <= Len(Chain[fetch.req])
  /\ fetch.indexed => fetch.ids = <<>>
StoreOK ==
  /\ store.at = "idle" <=> store.req = NoRequest
  /\ store.req = NoRequest => store = NoStore
  /\ store.req # NoRequest => phase[store.req] \in {"storing", "failed", "over"}
  /\ store.at \in {"share", "allocate"} => Len(table[store.req]) < Len(Chain[store.req])
  /\ store.at \in {"share", "register", "save"} => Len(store.ids) = 1
  /\ store.at \in {"register", "save"} => Len(table[store.req]) > 0

CacheInv ==
  /\ CacheTypes
  /\ \A r \in Requests : TableOK(r)
  /\ FetchOK /\ StoreOK
  /\ \A i \in 1..Len(queue) : phase[queue[i]] \in {"storing", "failed", "over"}

(* The part of a table reconstruct_cache can load.                         *)
LEMMA LoadableIs ==
  ASSUME CacheInv, NEW r \in Requests
  PROVE  \E n \in 0..Len(table[r]) :
           /\ Loadable(r) = SubSeq(table[r], 1, n) /\ Loadable(r) \in Seq(Blocks)
           /\ Len(Loadable(r)) = n /\ \A i \in 1..n : Loadable(r)[i] = table[r][i]
<1> DEFINE t == table[r]
           ok(b) == b \in pool.allocated /\ pool.hash[b] \in ssd
           Fits(k) == /\ \A i \in 1..k : ok(t[i])
                      /\ k = Len(t) \/ ~ok(t[k + 1])
           n == CHOOSE k \in 0..Len(t) : Fits(k)
           S == {k \in 0..Len(t) : \A i \in 1..k : ok(t[i])}
<1>0. t \in Seq(Blocks) /\ Len(t) \in Nat
  BY DEF CacheInv, CacheTypes
<1>1. \E k \in 0..Len(t) : Fits(k)
  <2> SUFFICES ASSUME \A k \in 0..Len(t) : ~Fits(k) PROVE FALSE
    OBVIOUS
  <2> HIDE DEF ok, t
  <2>1. 0 \in S
    BY <1>0
  <2>2. ASSUME NEW i \in 0..Len(t), i \in S, i < Len(t) PROVE i + 1 \in S
    <3>1. ok(t[i + 1])
      BY <2>2
    <3>2. \A j \in 1..(i + 1) : j \in 1..i \/ j = i + 1
      OBVIOUS
    <3> QED BY <2>2, <3>1, <3>2
  <2>3. Len(t) \in S
    <3> HIDE DEF S
    <3>1. \A i \in 0..Len(t) : i \in S
      BY <1>0, <2>1, <2>2, CountUp
    <3> QED BY <1>0, <3>1
  <2>4. Fits(Len(t))
    BY <2>3
  <2> QED BY <1>0, <2>4
<1>2. n \in 0..Len(t)
  BY <1>1
<1>3. Loadable(r) = SubSeq(t, 1, n)
  BY DEF Loadable
<1> HIDE DEF n
<1>4. /\ SubSeq(t, 1, n) \in Seq(Blocks) /\ Len(SubSeq(t, 1, n)) = n
      /\ \A i \in 1..n : SubSeq(t, 1, n)[i] = t[i]
  <2>1. \A i \in 1..n : t[i] \in Blocks
    BY <1>0, <1>2
  <2> HIDE DEF t
  <2>2. /\ SubSeq(t, 1, n) \in Seq(Blocks)
        /\ Len(SubSeq(t, 1, n)) = IF 1 <= n THEN n - 1 + 1 ELSE 0
        /\ \A i \in 1..(n - 1 + 1) : SubSeq(t, 1, n)[i] = t[1 + i - 1]
    BY <1>0, <1>2, <2>1, SubSeqProperties
  <2> QED BY <1>0, <1>2, <2>2
<1> QED BY <1>2, <1>3, <1>4

(* What the invariant says of the parts an action works on.                *)
LEMMA CacheFacts ==
  ASSUME CacheInv
  PROVE  /\ PoolOK(pool) /\ pool \in Pools
         /\ \A r \in Requests : table[r] \in Seq(Blocks) /\ Chain[r] \in Seq(Hashes)
         /\ fetch.req \in Requests \cup {NoRequest} /\ fetch.ids \in Seq(Blocks)
         /\ store.req \in Requests \cup {NoRequest} /\ store.ids \in Seq(Blocks)
         /\ fetch = NoFetch <=> fetch.req = NoRequest
         /\ store = NoStore <=> store.at = "idle"
         /\ store.at # "idle" => store.req \in Requests
         /\ fetch.req # NoRequest => fetch.req \in Requests
BY RequestAssumption DEF CacheInv, CacheTypes, PoolOK, FetchOK, StoreOK, NoFetch, NoStore

(* What DropBehind frees is a stretch of the table.                        *)
LEMMA StretchIs ==
  ASSUME CacheInv, NEW r \in Requests, NEW n \in 0..Len(table[r]), NEW k \in n..Len(table[r])
  PROVE  LET rest == SubSeq(table[r], n + 1, k)
         IN  /\ rest \in Seq(Blocks) /\ Len(rest) = k - n
             /\ \A i \in 1..Len(rest) : rest[i] = table[r][n + i]
<1> DEFINE t == table[r]
           m == Len(t)
<1>0. t \in Seq(Blocks) /\ m \in Nat /\ n \in 0..m /\ k \in n..m
  BY DEF CacheInv, CacheTypes
<1>1. \A i \in (n + 1)..k : t[i] \in Blocks
  BY <1>0
<1> HIDE DEF t, m
<1>2. /\ SubSeq(t, n + 1, k) \in Seq(Blocks)
      /\ Len(SubSeq(t, n + 1, k)) = IF n + 1 <= k THEN k - (n + 1) + 1 ELSE 0
      /\ \A i \in 1..(k - (n + 1) + 1) : SubSeq(t, n + 1, k)[i] = t[n + 1 + i - 1]
  BY <1>0, <1>1, SubSeqProperties
<1> QED BY <1>0, <1>2 DEF t, m

(* A table cut short.                                                      *)
LEMMA CutIs ==
  ASSUME CacheInv, NEW r \in Requests, NEW n \in 0..Len(table[r])
  PROVE  /\ SubSeq(table[r], 1, n) \in Seq(Blocks) /\ Len(SubSeq(table[r], 1, n)) = n
         /\ \A i \in 1..n : SubSeq(table[r], 1, n)[i] = table[r][i]
<1> DEFINE t == table[r]
<1>0. t \in Seq(Blocks) /\ Len(t) \in Nat
  BY DEF CacheInv, CacheTypes
<1>1. \A i \in 1..n : t[i] \in Blocks
  BY <1>0
<1> HIDE DEF t
<1>2. /\ SubSeq(t, 1, n) \in Seq(Blocks)
      /\ Len(SubSeq(t, 1, n)) = IF 1 <= n THEN n - 1 + 1 ELSE 0
      /\ \A i \in 1..(n - 1 + 1) : SubSeq(t, 1, n)[i] = t[1 + i - 1]
  BY <1>0, <1>1, SubSeqProperties
<1> QED BY <1>0, <1>2 DEF t

(* DropBehind keeps the pool in order.                                     *)
LEMMA DropKeepsPool ==
  ASSUME CacheInv, NEW r \in Requests, NEW n \in 0..Len(Loadable(r))
  PROVE  PoolOK(DropBehind(r, n))
<1> DEFINE k == Len(Loadable(r))
           p == ForgetUnloadable(r)
           behind == SubSeq(table[r], k + 1, Len(table[r]))
           given == SubSeq(table[r], n + 1, k)
<1>1. PoolOK(p)
  BY PopKeeps DEF ForgetUnloadable, CacheInv, CacheTypes
<1>2. k \in 0..Len(table[r]) /\ Len(table[r]) \in Nat
  BY LoadableIs, CacheFacts
<1> HIDE DEF p, k
<1>3. Len(table[r]) \in k..Len(table[r]) /\ n \in 0..Len(table[r]) /\ k \in n..Len(table[r])
  BY <1>2 DEF k
<1>4. behind \in Seq(Blocks) /\ given \in Seq(Blocks)
  BY <1>2, <1>3, StretchIs
<1> HIDE DEF behind, given
<1>5. PoolOK(FreeAll(p, behind))
  BY <1>1, <1>4, LoopsKeepPool
<1>6. PoolOK(FreeAll(FreeAll(p, behind), given))
  BY <1>4, <1>5, LoopsKeepPool
<1> QED BY <1>6 DEF DropBehind, p, k, behind, given

(* A fetch.                                                                *)
LEMMA FetchKeepsCache ==
  ASSUME CacheInv, (\E r \in Requests : FindSharedPrefix(r)) \/ ClaimBlock \/ AcquireBlock \/ Reconstruct
  PROVE  CacheInv'
<1> USE RequestAssumption
<1>0. CacheTypes /\ FetchOK /\ StoreOK /\ \A r \in Requests : TableOK(r)
  BY DEF CacheInv
<1>1. ASSUME NEW r \in Requests, FindSharedPrefix(r) PROVE CacheInv'
  <2> DEFINE walk == GetComputedBlocks(pool, ssd, Chain[r])
  <2>1. PoolOK(walk.pool) /\ walk.found \in Seq(Blocks) /\ Len(walk.found) <= Len(Chain[r])
    BY CacheFacts, WalkKeepsPool
  <2> HIDE DEF walk
  <2>2. /\ phase[r] = "new" /\ pool' = walk.pool /\ fetch' = [req |-> r, ids |-> walk.found, indexed |-> walk.found = <<>>]
        /\ phase' = [phase EXCEPT ![r] = "fetching"]
        /\ UNCHANGED <<table, queue, store>>
    BY <1>1 DEF FindSharedPrefix, walk
  <2>3. CacheTypes'
    BY <1>0, <2>1, <2>2 DEF CacheTypes, Phases
  <2>4. FetchOK'
    <3>1. /\ fetch'.req = r /\ fetch'.ids = walk.found /\ (fetch'.indexed => walk.found = <<>>)
          /\ phase'[r] = "fetching" /\ Len(table'[r]) + Len(walk.found) <= Len(Chain[r])
      <4>1. phase \in [Requests -> Phases] /\ table[r] = <<>> /\ Len(<<>>) = 0
        BY <1>0, <2>2, EmptySeq DEF CacheTypes, TableOK
      <4>2. Len(walk.found) \in Nat
        BY <2>1, LenProperties
      <4>3. fetch'.indexed => walk.found = <<>>
        BY <2>2, Zenon
      <4> QED BY <2>1, <2>2, <4>1, <4>2, <4>3
    <3> QED BY <3>1 DEF FetchOK
  <2>5. StoreOK' /\ (\A s \in Requests : TableOK(s))'
    BY <1>0, <2>2 DEF CacheTypes, StoreOK, TableOK
  <2>6. (\A i \in 1..Len(queue) : phase[queue[i]] \in {"storing", "failed", "over"})'
    BY <2>2 DEF CacheInv, CacheTypes
  <2> QED BY <2>3, <2>4, <2>5, <2>6 DEF CacheInv
<1>2. ASSUME ClaimBlock PROVE CacheInv'
  <2> DEFINE r == fetch.req
             b == Head(fetch.ids)
             t == IF b \in pool.allocated THEN Append(table[r], b) ELSE table[r]
  <2>1. /\ r \in Requests /\ fetch.ids # <<>> /\ fetch.ids \in Seq(Blocks) /\ table[r] \in Seq(Blocks)
        /\ pool' = IncrementRef(pool, b) /\ table' = [table EXCEPT ![r] = t]
        /\ fetch' = [fetch EXCEPT !.ids = Tail(@)] /\ UNCHANGED <<phase, queue, store>>
    BY <1>2, CacheFacts DEF ClaimBlock
  <2>2. b \in Blocks /\ Tail(fetch.ids) \in Seq(Blocks) /\ Len(Tail(fetch.ids)) = Len(fetch.ids) - 1
    BY <2>1, HeadTailProperties
  <2>3. t \in Seq(Blocks) /\ Len(t) <= Len(table[r]) + 1
    BY <2>1, <2>2, AppendProperties
  <2>4. PoolOK(pool')
    BY <2>1, <2>2, CacheFacts, RefSteps, RefsOnlyKeeps
  <2>5. fetch'.req = r /\ fetch'.ids = Tail(fetch.ids)
        /\ fetch' \in [req : Requests \cup {NoRequest}, ids : Seq(Blocks), indexed : BOOLEAN]
        /\ fetch'.indexed = fetch.indexed
    BY <1>0, <2>1, <2>2 DEF CacheTypes
  <2> HIDE DEF b, t
  <2>6. CacheTypes'
    BY <1>0, <2>1, <2>3, <2>4, <2>5 DEF CacheTypes
  <2>7. /\ phase[r] = "fetching" /\ table'[r] = t /\ \A q \in Requests \ {r} : table'[q] = table[q]
        /\ Len(table[r]) + Len(fetch.ids) <= Len(Chain[r])
    BY <1>0, <2>1 DEF CacheTypes, FetchOK
  <2>8. Len(t) \in Nat /\ Len(table[r]) \in Nat /\ Len(fetch.ids) \in Nat \ {0} /\ Len(Chain[r]) \in Nat
    BY <2>1, <2>3, CacheFacts, EmptySeq
  <2>9. Len(t) + Len(Tail(fetch.ids)) <= Len(Chain[r]) /\ Len(t) <= Len(Chain[r])
    <3> DEFINE i == Len(t)
               j == Len(table[r])
               k == Len(fetch.ids)
               l == Len(Chain[r])
               m == Len(Tail(fetch.ids))
    <3>1. i \in Nat /\ j \in Nat /\ k \in Nat \ {0} /\ l \in Nat /\ m = k - 1 /\ i <= j + 1 /\ j + k <= l
      BY <2>2, <2>3, <2>7, <2>8
    <3> HIDE DEF i, j, k, l, m
    <3>2. i + m <= l /\ i <= l
      BY <3>1
    <3> QED BY <3>2 DEF i, l, m
  <2>10. FetchOK'
    <3>1. ~fetch.indexed
      BY <1>0, <2>1 DEF FetchOK
    <3> QED BY <2>1, <2>5, <2>7, <2>9, <3>1 DEF FetchOK
  <2>11. StoreOK'
    <3>1. store.req # r
      BY <1>0, <2>1, <2>7 DEF StoreOK
    <3>2. store.req # NoRequest => store.req \in Requests /\ table'[store.req] = table[store.req]
      BY <2>7, <3>1, CacheFacts
    <3> QED BY <1>0, <2>1, <3>2 DEF StoreOK
  <2>12. (\A q \in Requests : TableOK(q))'
    BY <1>0, <2>1, <2>7, <2>9 DEF TableOK
  <2>13. (\A i \in 1..Len(queue) : phase[queue[i]] \in {"storing", "failed", "over"})'
    BY <2>1 DEF CacheInv
  <2> QED BY <2>6, <2>10, <2>11, <2>12, <2>13 DEF CacheInv
<1>3. ASSUME Reconstruct PROVE CacheInv'
  <2> DEFINE r == fetch.req
  <2>a. PICK n \in 0..Len(Loadable(r)) :
          pool' = DropBehind(r, n) /\ table' = [table EXCEPT ![r] = SubSeq(@, 1, n)]
    BY <1>3 DEF Reconstruct
  <2> DEFINE t == SubSeq(table[r], 1, n)
  <2>1. /\ r \in Requests /\ pool' = DropBehind(r, n) /\ table' = [table EXCEPT ![r] = t]
        /\ phase' = [phase EXCEPT ![r] = "running"] /\ fetch' = NoFetch /\ UNCHANGED <<queue, store>>
    BY <1>3, <2>a, CacheFacts DEF Reconstruct
  <2>2. PoolOK(pool')
    BY <2>1, DropKeepsPool
  <2>3. t \in Seq(Blocks) /\ Len(t) \in 0..Len(table[r])
    <3>1. n \in 0..Len(table[r])
      BY <2>1, LoadableIs, CacheFacts
    <3> QED BY <2>1, <3>1, CutIs
  <2>4. phase[r] = "fetching" /\ phase \in [Requests -> Phases] /\ table \in [Requests -> Seq(Blocks)]
    BY <1>0, <2>1 DEF CacheTypes, FetchOK
  <2> HIDE DEF r, t
  <2>5. CacheTypes'
    BY <1>0, <2>1, <2>2, <2>3, <2>4 DEF CacheTypes, NoFetch, Phases
  <2>6. FetchOK'
    BY <2>1 DEF FetchOK, NoFetch
  <2>7. \A q \in Requests \ {r} : table'[q] = table[q] /\ phase'[q] = phase[q]
    BY <2>1, <2>4
  <2>8. StoreOK'
    <3>1. store.req # r
      BY <1>0, <2>1, <2>4 DEF StoreOK
    <3>2. store.req # NoRequest => /\ store.req \in Requests /\ table'[store.req] = table[store.req]
                                   /\ phase'[store.req] = phase[store.req]
      BY <2>7, <3>1, CacheFacts
    <3> QED BY <1>0, <2>1, <3>2 DEF StoreOK
  <2>9. (\A q \in Requests : TableOK(q))'
    <3>1. table'[r] = t /\ phase'[r] = "running" /\ Len(t) <= Len(Chain[r])
      <4>1. Len(table[r]) <= Len(Chain[r]) /\ Len(table[r]) \in Nat /\ Len(Chain[r]) \in Nat
        BY <1>0, <2>1, CacheFacts DEF TableOK
      <4> QED BY <2>1, <2>3, <2>4, <4>1
    <3> QED BY <1>0, <2>7, <3>1 DEF TableOK
  <2>10. (\A i \in 1..Len(queue) : phase[queue[i]] \in {"storing", "failed", "over"})'
    <3> SUFFICES ASSUME NEW i \in 1..Len(queue) PROVE phase'[queue[i]] \in {"storing", "failed", "over"}
      BY <2>1
    <3>1. queue[i] \in Requests /\ phase[queue[i]] \in {"storing", "failed", "over"}
      BY DEF CacheInv, CacheTypes
    <3> QED BY <2>4, <2>7, <3>1
  <2> QED BY <2>5, <2>6, <2>8, <2>9, <2>10 DEF CacheInv
<1>4. ASSUME AcquireBlock PROVE CacheInv'
  <2> DEFINE r == fetch.req
  <2>1. PICK b \in pool.allocated :
          pool' = IncrementRef(pool, b) /\ table' = [table EXCEPT ![r] = Append(@, b)]
    BY <1>4 DEF AcquireBlock
  <2> DEFINE t == Append(table[r], b)
  <2>2. /\ fetch.indexed /\ Len(table[r]) < Len(Chain[r])
        /\ UNCHANGED <<phase, fetch, queue, store>>
    BY <1>4 DEF AcquireBlock
  <2>3. r \in Requests /\ b \in Blocks /\ table[r] \in Seq(Blocks) /\ phase[r] = "fetching"
    <3>1. r # NoRequest
      BY <1>0, <2>2 DEF FetchOK, NoFetch
    <3> QED BY <1>0, <3>1, CacheFacts, PoolFields DEF FetchOK
  <2>4. /\ t \in Seq(Blocks) /\ Len(t) = Len(table[r]) + 1 /\ Len(table[r]) \in Nat
        /\ Len(Chain[r]) \in Nat /\ fetch.ids = <<>> /\ Len(<<>>) = 0
    BY <1>0, <2>2, <2>3, CacheFacts, AppendProperties, EmptySeq DEF FetchOK
  <2>5. table' = [table EXCEPT ![r] = t]
    BY <2>1
  <2> HIDE DEF t
  <2>6. /\ table'[r] = t /\ \A q \in Requests \ {r} : table'[q] = table[q]
        /\ table' \in [Requests -> Seq(Blocks)]
    BY <1>0, <2>3, <2>4, <2>5 DEF CacheTypes
  <2>7. PoolOK(pool')
    BY <2>1, <2>3, CacheFacts, RefSteps, RefsOnlyKeeps
  <2>8. CacheTypes'
    BY <1>0, <2>2, <2>6, <2>7 DEF CacheTypes
  <2>9. Len(t) <= Len(Chain[r]) /\ Len(t) + 0 <= Len(Chain[r])
    BY <2>2, <2>4
  <2>10. FetchOK'
    BY <1>0, <2>2, <2>4, <2>6, <2>9 DEF FetchOK
  <2>11. StoreOK'
    <3>1. store.req # r
      BY <1>0, <2>3 DEF StoreOK
    <3>2. store.req # NoRequest => store.req \in Requests /\ table'[store.req] = table[store.req]
      BY <2>6, <3>1, CacheFacts
    <3> QED BY <1>0, <2>2, <3>2 DEF StoreOK
  <2>12. (\A q \in Requests : TableOK(q))'
    BY <1>0, <2>2, <2>3, <2>6, <2>9 DEF TableOK
  <2>13. (\A i \in 1..Len(queue) : phase[queue[i]] \in {"storing", "failed", "over"})'
    BY <2>2 DEF CacheInv
  <2> QED BY <2>8, <2>10, <2>11, <2>12, <2>13 DEF CacheInv
<1> QED BY <1>1, <1>2, <1>3, <1>4

(* The end of a request on the inference thread.                           *)
LEMMA EndKeepsCache ==
  ASSUME CacheInv, NEW r \in Requests, FullPrefill(r) \/ Reject(r) \/ Abort(r) \/ Finish(r) \/ SubmitFails(r)
  PROVE  CacheInv'
<1> USE RequestAssumption
<1>0. CacheTypes /\ FetchOK /\ StoreOK /\ \A q \in Requests : TableOK(q)
  BY DEF CacheInv
<1>1. /\ phase[r] = "running" /\ fetch.req # r /\ store.req # r
      /\ \A i \in 1..Len(queue) : queue[i] \in Requests \ {r}
  <2>1. phase[r] = "running"
    BY DEF FullPrefill, Reject, Abort, Finish, SubmitFails
  <2>2. fetch.req # r /\ store.req # r
    BY <1>0, <2>1 DEF FetchOK, StoreOK
  <2>3. \A i \in 1..Len(queue) : queue[i] \in Requests \ {r}
    <3> TAKE i \in 1..Len(queue)
    <3>1. queue \in Seq(Requests) /\ phase[queue[i]] \in {"storing", "failed", "over"}
      BY DEF CacheInv, CacheTypes
    <3>2. queue[i] \in Requests
      BY <3>1
    <3> QED BY <2>1, <3>1, <3>2
  <2> QED BY <2>1, <2>2, <2>3
<1>2. PoolOK(pool')
  <2>1. table[r] \in Seq(Blocks)
    BY CacheFacts
  <2> QED BY <2>1, CacheFacts, LoopsKeepPool DEF FullPrefill, Reject, Abort, Finish, SubmitFails
<1>3. /\ \E t \in {<<>>, table[r]} : table' = [table EXCEPT ![r] = t]
      /\ \E s \in Phases \ {"new", "fetching"} : phase' = [phase EXCEPT ![r] = s]
      /\ UNCHANGED <<fetch, store>>
  <2>1. phase = [phase EXCEPT ![r] = phase[r]] /\ table = [table EXCEPT ![r] = table[r]]
    BY <1>0 DEF CacheTypes
  <2> QED BY <1>1, <2>1 DEF FullPrefill, Reject, Abort, Finish, SubmitFails, Phases
<1>4. /\ \A q \in Requests \ {r} : table'[q] = table[q] /\ phase'[q] = phase[q]
      /\ table'[r] \in {<<>>, table[r]} /\ phase'[r] # "new"
      /\ table' \in [Requests -> Seq(Blocks)] /\ phase' \in [Requests -> Phases]
  <2>0. table \in [Requests -> Seq(Blocks)] /\ phase \in [Requests -> Phases]
    BY <1>0 DEF CacheTypes
  <2>1. PICK t \in {<<>>, table[r]} : table' = [table EXCEPT ![r] = t]
    BY <1>3
  <2>2. PICK s \in Phases \ {"new", "fetching"} : phase' = [phase EXCEPT ![r] = s]
    BY <1>3
  <2>3. t \in Seq(Blocks)
    <3>1. table[r] \in Seq(Blocks) /\ <<>> \in Seq(Blocks)
      BY <2>0, EmptySeq
    <3> QED BY <2>1, <3>1
  <2> QED BY <2>0, <2>1, <2>2, <2>3
<1>5. queue' = queue \/ (queue' = Append(queue, r) /\ phase'[r] = "storing")
  BY <1>0 DEF FullPrefill, Reject, Abort, Finish, SubmitFails, CacheTypes
<1>6. queue' \in Seq(Requests)
  <2>1. queue \in Seq(Requests)
    BY <1>0 DEF CacheTypes
  <2>2. Append(queue, r) \in Seq(Requests)
    BY <2>1, AppendProperties
  <2> QED BY <1>5, <2>1, <2>2
<1>7. CacheTypes'
  BY <1>0, <1>2, <1>3, <1>4, <1>6 DEF CacheTypes
<1>8. FetchOK'
  <2>1. fetch.req # NoRequest => /\ fetch.req \in Requests /\ table'[fetch.req] = table[fetch.req]
                                 /\ phase'[fetch.req] = phase[fetch.req]
    BY <1>1, <1>4, CacheFacts
  <2> QED BY <1>0, <1>3, <2>1 DEF FetchOK
<1>9. StoreOK'
  <2>1. store.req # NoRequest => /\ store.req \in Requests /\ table'[store.req] = table[store.req]
                                 /\ phase'[store.req] = phase[store.req]
    BY <1>1, <1>4, CacheFacts
  <2> QED BY <1>0, <1>3, <2>1 DEF StoreOK
<1>10. (\A q \in Requests : TableOK(q))'
  <2>1. Len(table'[r]) <= Len(Chain[r])
    <3>1. Len(table[r]) <= Len(Chain[r]) /\ Len(Chain[r]) \in Nat /\ Len(<<>>) = 0
      BY <1>0, CacheFacts DEF TableOK
    <3> QED BY <1>4, <3>1
  <2> QED BY <1>0, <1>4, <2>1 DEF TableOK
<1>11. (\A i \in 1..Len(queue) : phase[queue[i]] \in {"storing", "failed", "over"})'
  <2>0. queue \in Seq(Requests)
    BY <1>0 DEF CacheTypes
  <2>1. \A i \in 1..Len(queue) : phase'[queue[i]] \in {"storing", "failed", "over"}
    BY <1>1, <1>4 DEF CacheInv
  <2>2. CASE queue' = queue
    BY <2>1, <2>2
  <2>3. CASE queue' = Append(queue, r) /\ phase'[r] = "storing"
    <3>1. /\ Len(queue') = Len(queue) + 1 /\ queue'[Len(queue) + 1] = r
          /\ \A i \in 1..Len(queue) : queue'[i] = queue[i]
      BY <2>0, <2>3, AppendProperties
    <3>2. \A i \in 1..Len(queue') : i \in 1..Len(queue) \/ i = Len(queue) + 1
      BY <2>0, <3>1
    <3> QED BY <2>1, <2>3, <3>1, <3>2
  <2> QED BY <1>5, <2>2, <2>3
<1> QED BY <1>7, <1>8, <1>9, <1>10, <1>11 DEF CacheInv

(* The store thread, between its calls.                                    *)
StoreStep ==
  \/ StoreBegins \/ StoreFinds \/ StoreShares \/ StoreAllocates \/ StoreOutOfBlocks
  \/ StoreRegisters \/ StoreSaves \/ StoreFailsToSave \/ StoreReleases
  \/ StoreFails

(* What a store reads and the pool it leaves.                              *)
LEMMA StoreKeepsPool ==
  ASSUME CacheInv, StoreStep
  PROVE  PoolOK(pool')
<1>0. PoolOK(pool) /\ pool \in Pools /\ StoreOK
  BY CacheFacts DEF CacheInv
<1>1. store.at \in {"share", "register", "save"} => store.ids[1] \in Blocks
  BY <1>0, CacheFacts DEF StoreOK
<1>2. CASE StoreShares
  BY <1>0, <1>1, <1>2, RefSteps, RefsOnlyKeeps DEF StoreShares
<1>3. CASE StoreAllocates
  BY <1>0, <1>3, AllocateFacts DEF StoreAllocates
<1>4. CASE StoreRegisters
  <2> DEFINE h == Chain[store.req][Len(table[store.req])]
  <2>1. h \in Hashes
    <3>1. /\ store.req \in Requests /\ Len(table[store.req]) > 0
          /\ Len(table[store.req]) <= Len(Chain[store.req])
      BY <1>0, <1>4, CacheFacts DEF StoreRegisters, StoreOK, CacheInv, TableOK
    <3>2. Chain[store.req] \in Seq(Hashes) /\ Len(table[store.req]) \in Nat
      BY <3>1, CacheFacts
    <3> QED BY <3>1, <3>2
  <2> HIDE DEF h
  <2>2. pool' = Register(pool, store.ids[1], h) /\ store.ids[1] \in Blocks
    BY <1>1, <1>4 DEF StoreRegisters, h
  <2> QED BY <1>0, <2>1, <2>2, RegisterFacts
<1>5. CASE StoreFailsToSave
  BY <1>0, <1>1, <1>5, FreeKeeps DEF StoreFailsToSave
<1>6. CASE StoreReleases
  <2>1. store.req \in Requests
    BY <1>6, CacheFacts DEF StoreReleases
  <2>2. table[store.req] \in Seq(Blocks)
    BY <2>1, CacheFacts
  <2> QED BY <1>0, <1>6, <2>2, LoopsKeepPool DEF StoreReleases
<1>7. CASE StoreBegins \/ StoreFinds \/ StoreOutOfBlocks \/ StoreSaves \/ StoreFails
  BY <1>0, <1>7 DEF StoreBegins, StoreFinds, StoreOutOfBlocks, StoreSaves, StoreFails
<1> QED BY <1>2, <1>3, <1>4, <1>5, <1>6, <1>7 DEF StoreStep

(* A step of the store that goes on with its request.                      *)
LEMMA StoreGoesOn ==
  ASSUME CacheInv, PoolOK(pool'), store.at # "idle", NEW t \in Seq(Blocks),
         NEW at \in StorePlaces \ {"idle"}, NEW ids \in Seq(Blocks), Moves(at, ids),
         table' = [table EXCEPT ![store.req] = t], UNCHANGED <<phase, fetch, queue>>,
         Len(t) <= Len(Chain[store.req]),
         at \in {"share", "allocate"} => Len(t) < Len(Chain[store.req]),
         at \in {"share", "register", "save"} => Len(ids) = 1,
         at \in {"register", "save"} => Len(t) > 0
  PROVE  CacheInv'
<1> USE RequestAssumption
<1> DEFINE r == store.req
<1>0. /\ CacheTypes /\ FetchOK /\ StoreOK /\ \A q \in Requests : TableOK(q)
      /\ r \in Requests /\ phase[r] \in {"storing", "failed", "over"}
  BY CacheFacts DEF CacheInv, StoreOK
<1>1. /\ store' \in [req : Requests \cup {NoRequest}, at : StorePlaces, ids : Seq(Blocks)]
      /\ store'.req = r /\ store'.at = at /\ store'.ids = ids
  BY <1>0 DEF Moves, CacheTypes
<1>2. /\ table' \in [Requests -> Seq(Blocks)] /\ table'[r] = t
      /\ \A q \in Requests \ {r} : table'[q] = table[q]
  BY <1>0 DEF CacheTypes
<1>3. CacheTypes'
  BY <1>0, <1>1, <1>2 DEF CacheTypes
<1>4. FetchOK'
  <2>1. fetch.req # r
    BY <1>0 DEF FetchOK
  <2>2. fetch.req # NoRequest => fetch.req \in Requests /\ table'[fetch.req] = table[fetch.req]
    BY <1>2, <2>1, CacheFacts
  <2> QED BY <1>0, <2>2 DEF FetchOK
<1>5. StoreOK'
  BY <1>0, <1>1, <1>2 DEF StoreOK
<1>6. (\A q \in Requests : TableOK(q))'
  BY <1>0, <1>2 DEF TableOK
<1>7. (\A i \in 1..Len(queue) : phase[queue[i]] \in {"storing", "failed", "over"})'
  BY DEF CacheInv
<1> QED BY <1>3, <1>4, <1>5, <1>6, <1>7 DEF CacheInv

(* The store thread.                                                       *)
LEMMA StoreKeepsCache ==
  ASSUME CacheInv, StoreStep
  PROVE  CacheInv'
<1> USE RequestAssumption
<1> DEFINE r == store.req
           t == table[r]
<1>0. /\ CacheTypes /\ FetchOK /\ StoreOK /\ PoolOK(pool') /\ PoolOK(pool) /\ pool \in Pools
      /\ store.ids \in Seq(Blocks)
  BY StoreKeepsPool, CacheFacts DEF CacheInv
<1>1. store.at # "idle" => /\ r \in Requests /\ t \in Seq(Blocks) /\ Len(t) <= Len(Chain[r])
                           /\ Len(t) \in Nat /\ Len(Chain[r]) \in Nat
                           /\ table = [table EXCEPT ![r] = t]
  <2>1. store.at # "idle" => r \in Requests /\ table \in [Requests -> Seq(Blocks)] /\ TableOK(r)
    BY CacheFacts DEF CacheInv, CacheTypes
  <2> QED BY <2>1 DEF TableOK
<1>2. <<>> \in Seq(Blocks) /\ \A b \in Blocks : <<b>> \in Seq(Blocks) /\ Len(<<b>>) = 1
  BY EmptySeq
<1>3. store.at \in {"share", "register", "save"} => store.ids[1] \in Blocks /\ Len(store.ids) = 1
  BY <1>0 DEF StoreOK
<1>4. CASE StoreBegins
  <2>1. /\ store' = [req |-> Head(queue), at |-> "next", ids |-> <<>>] /\ queue' = Tail(queue)
        /\ queue # <<>> /\ queue \in Seq(Requests) /\ UNCHANGED <<phase, table, fetch>>
    BY <1>0, <1>4 DEF StoreBegins, CacheTypes
  <2>2. /\ Head(queue) \in Requests /\ Tail(queue) \in Seq(Requests)
        /\ Head(queue) = queue[1] /\ 1 \in 1..Len(queue) /\ Len(Tail(queue)) = Len(queue) - 1
        /\ \A i \in 1..Len(Tail(queue)) : Tail(queue)[i] = queue[i + 1] /\ i + 1 \in 1..Len(queue)
    BY <2>1, HeadTailProperties, EmptySeq
  <2>3. CacheTypes'
    BY <1>0, <1>2, <2>1, <2>2 DEF CacheTypes, StorePlaces
  <2>4. StoreOK'
    BY <1>0, <2>1, <2>2 DEF StoreOK, CacheInv
  <2>5. FetchOK' /\ (\A q \in Requests : TableOK(q))'
    BY <1>0, <2>1 DEF CacheInv, FetchOK, TableOK
  <2>6. (\A i \in 1..Len(queue) : phase[queue[i]] \in {"storing", "failed", "over"})'
    BY <2>1, <2>2 DEF CacheInv
  <2> QED BY <2>3, <2>4, <2>5, <2>6 DEF CacheInv
<1>5. CASE StoreFinds
  <2> DEFINE hit == Lookup(pool.index, NextHash)
  <2>1. /\ store.at = "next" /\ Len(t) < Len(Chain[r])
        /\ IF hit = <<>> THEN Moves("allocate", <<>>) ELSE Moves("share", hit)
        /\ UNCHANGED <<phase, table, fetch, queue>>
    BY <1>5 DEF StoreFinds
  <2>2. NextHash \in Hashes
    BY <1>1, <2>1, CacheFacts DEF NextHash
  <2>3. hit = <<>> \/ (hit \in Seq(Blocks) /\ Len(hit) = 1)
    <3>1. pool.index[NextHash] \in Seq(Blocks)
      BY <1>0, <2>2, PoolFields
    <3> QED BY <1>2, <3>1, HeadTailProperties DEF Lookup
  <2> HIDE DEF hit
  <2>4. table' = [table EXCEPT ![r] = t]
    BY <1>1, <2>1
  <2>5. CASE hit = <<>>
    BY <1>0, <1>1, <1>2, <2>1, <2>4, <2>5, StoreGoesOn DEF StorePlaces
  <2>6. CASE hit # <<>>
    BY <1>0, <1>1, <1>2, <2>1, <2>3, <2>4, <2>6, StoreGoesOn DEF StorePlaces
  <2> QED BY <2>5, <2>6
<1>6. CASE StoreShares
  <2> DEFINE b == store.ids[1]
             u == Append(t, b)
  <2>1. /\ store.at = "share" /\ table' = [table EXCEPT ![r] = u]
        /\ Moves("next", <<>>) /\ UNCHANGED <<phase, fetch, queue>>
    BY <1>1, <1>6 DEF StoreShares
  <2>2. u \in Seq(Blocks) /\ Len(u) = Len(t) + 1
    BY <1>1, <1>3, <2>1, AppendProperties
  <2>3. Len(t) < Len(Chain[r])
    BY <1>0, <2>1 DEF StoreOK
  <2>4. Len(u) <= Len(Chain[r])
    BY <1>1, <2>1, <2>2, <2>3
  <2> HIDE DEF u
  <2> QED BY <1>0, <1>2, <2>1, <2>2, <2>4, StoreGoesOn DEF StorePlaces
<1>7. CASE StoreAllocates
  <2> DEFINE b == Head(pool.free)
             u == Append(t, b)
  <2>1. /\ store.at = "allocate" /\ table' = [table EXCEPT ![r] = u] /\ pool.free # <<>>
        /\ Moves("register", <<b>>) /\ UNCHANGED <<phase, fetch, queue>>
    BY <1>1, <1>7 DEF StoreAllocates
  <2>2. b \in Blocks
    BY <1>0, <2>1, AllocateFacts
  <2>3. u \in Seq(Blocks) /\ Len(u) = Len(t) + 1
    BY <1>1, <2>1, <2>2, AppendProperties
  <2>4. Len(t) < Len(Chain[r])
    BY <1>0, <2>1 DEF StoreOK
  <2>5. Len(u) <= Len(Chain[r]) /\ Len(u) > 0
    BY <1>1, <2>1, <2>3, <2>4
  <2>6. <<b>> \in Seq(Blocks) /\ Len(<<b>>) = 1
    BY <1>2, <2>2
  <2> HIDE DEF u, b
  <2> QED BY <1>0, <2>1, <2>3, <2>5, <2>6, StoreGoesOn DEF StorePlaces
<1>8. CASE StoreOutOfBlocks \/ StoreRegisters \/ StoreSaves
  <2>1. /\ store.at \in {"allocate", "register", "save"} /\ UNCHANGED <<phase, table, fetch, queue>>
        /\ \/ Moves("release", <<>>) \/ Moves("next", <<>>)
           \/ store.at = "register" /\ Moves("save", store.ids)
    BY <1>8 DEF StoreOutOfBlocks, StoreRegisters, StoreSaves
  <2>2. table' = [table EXCEPT ![r] = t]
    BY <1>1, <2>1
  <2>3. store.at = "register" => Len(t) > 0
    BY <1>0 DEF StoreOK
  <2>4. CASE Moves("release", <<>>) \/ Moves("next", <<>>)
    BY <1>0, <1>1, <1>2, <2>1, <2>2, <2>4, StoreGoesOn DEF StorePlaces
  <2>5. CASE store.at = "register" /\ Moves("save", store.ids)
    BY <1>0, <1>1, <1>3, <2>1, <2>2, <2>3, <2>5, StoreGoesOn DEF StorePlaces
  <2> QED BY <2>1, <2>4, <2>5
<1>9. CASE StoreFailsToSave
  <2> DEFINE u == Front(t)
  <2>1. /\ store.at = "save" /\ table' = [table EXCEPT ![r] = u]
        /\ Moves("release", <<>>) /\ UNCHANGED <<phase, fetch, queue>>
    BY <1>1, <1>9 DEF StoreFailsToSave
  <2>2. u \in Seq(Blocks) /\ Len(u) = Len(t) - 1
    <3>1. Len(t) > 0
      BY <1>0, <2>1 DEF StoreOK
    <3>2. \A i \in 1..(Len(t) - 1) : t[i] \in Blocks
      BY <1>1, <2>1
    <3> DEFINE m == Len(t) - 1
    <3>3. m \in Nat
      BY <1>1, <2>1, <3>1
    <3> HIDE DEF m
    <3>4. SubSeq(t, 1, m) \in Seq(Blocks) /\ Len(SubSeq(t, 1, m)) = m
      BY <3>2, <3>3, SubSeqProperties DEF m
    <3> QED BY <3>4 DEF Front, m
  <2>3. Len(u) <= Len(Chain[r])
    BY <1>1, <2>1, <2>2
  <2> HIDE DEF u
  <2> QED BY <1>0, <1>2, <2>1, <2>2, <2>3, StoreGoesOn DEF StorePlaces
<1>10. CASE StoreReleases \/ StoreFails
  <2>1. /\ r \in Requests /\ store' = NoStore /\ UNCHANGED <<table, fetch, queue>>
        /\ \E s \in {"failed", "over"} : phase' = [phase EXCEPT ![r] = s]
    BY <1>1, <1>10 DEF StoreReleases, StoreFails
  <2>2. /\ phase' \in [Requests -> Phases] /\ phase'[r] \in {"failed", "over"}
        /\ \A q \in Requests \ {r} : phase'[q] = phase[q]
    BY <1>0, <2>1 DEF CacheTypes, Phases
  <2>3. CacheTypes'
    BY <1>0, <1>2, <2>1, <2>2 DEF CacheTypes, NoStore, StorePlaces
  <2>4. StoreOK'
    BY <2>1 DEF StoreOK, NoStore
  <2>5. FetchOK'
    <3>1. fetch.req # r
      BY <1>0, <2>1 DEF FetchOK, StoreOK
    <3>2. fetch.req # NoRequest => fetch.req \in Requests /\ phase'[fetch.req] = phase[fetch.req]
      BY <2>2, <3>1, CacheFacts
    <3> QED BY <1>0, <2>1, <3>2 DEF FetchOK
  <2>6. (\A q \in Requests : TableOK(q))'
    BY <2>1, <2>2 DEF CacheInv, TableOK
  <2>7. (\A i \in 1..Len(queue) : phase[queue[i]] \in {"storing", "failed", "over"})'
    <3> SUFFICES ASSUME NEW i \in 1..Len(queue) PROVE phase'[queue[i]] \in {"storing", "failed", "over"}
      BY <2>1
    <3>1. queue[i] \in Requests /\ phase[queue[i]] \in {"storing", "failed", "over"}
      BY DEF CacheInv, CacheTypes
    <3> QED BY <2>2, <3>1
  <2> QED BY <2>3, <2>4, <2>5, <2>6, <2>7 DEF CacheInv
<1> QED BY <1>4, <1>5, <1>6, <1>7, <1>8, <1>9, <1>10 DEF StoreStep

(* The pool and the two threads, for any number of requests.               *)
LEMMA CacheInvariant == Spec => []CacheInv
<1> USE RequestAssumption
<1>1. Init => CacheInv
  <2> SUFFICES ASSUME Init PROVE CacheInv
    OBVIOUS
  <2>1. <<>> \in Seq(Blocks) /\ <<>> \in Seq(Requests) /\ Len(<<>>) = 0
    BY EmptySeq
  <2>2. CacheTypes
    BY <2>1, NewPoolOK DEF Init, CacheTypes, Phases, StorePlaces, NoFetch, NoStore
  <2>3. FetchOK /\ StoreOK
    BY DEF Init, FetchOK, StoreOK, NoFetch, NoStore
  <2>4. \A r \in Requests : TableOK(r)
    BY DEF Init, TableOK
  <2>5. \A i \in 1..Len(queue) : phase[queue[i]] \in {"storing", "failed", "over"}
    BY <2>1 DEF Init
  <2> QED BY <2>2, <2>3, <2>4, <2>5 DEF CacheInv
<1>2. CacheInv /\ [Next]_vars => CacheInv'
  <2> SUFFICES ASSUME CacheInv, [Next]_vars PROVE CacheInv'
    OBVIOUS
  <2>1. CASE (\E h \in Hashes : SsdLoses(h)) \/ UNCHANGED vars
    <3>1. UNCHANGED <<pool, phase, table, fetch, queue, store>>
      BY <2>1 DEF SsdLoses, vars
    <3> QED BY <3>1 DEF CacheInv, CacheTypes, FetchOK, StoreOK, TableOK
  <2> QED BY <2>1, FetchKeepsCache, EndKeepsCache, StoreKeepsCache DEF Next, StoreStep
<1> QED BY <1>1, <1>2, PTL DEF Spec

-----------------------------------------------------------------------------
(* Without the store thread.                                               *)

(* One thing at a time: a fetch, a request to store, or a store.           *)
OneAtATime ==
  /\ fetch.req = NoRequest \/ (store.req = NoRequest /\ queue = <<>>)
  /\ store.req = NoRequest \/ queue = <<>>
  /\ Len(queue) <= 1
  /\ \A i \in 1..Len(queue) : phase[queue[i]] = "storing"
  /\ store.req # NoRequest => phase[store.req] = "storing"

(* The requests whose table holds references, and its places.              *)
Holders ==
  {r \in Requests : phase[r] \in {"fetching", "running", "storing", "rejected", "failed"}}
HeldPlaces == Places(Holders)

(* The block of a place holds the hash of the place, except the one that   *)
(* was allocated and is about to be registered.                            *)
Fresh(c) == store.at = "register" /\ c = <<store.req, Len(table[store.req])>>
PlacesOK ==
  \A c \in HeldPlaces : Fresh(c) \/ pool.hash[BlockAt(table, c)] = Chain[c[1]][c[2]]

(* The blocks a fetch or a store is about to claim.                        *)
FoundOK ==
  /\ \A j \in 1..Len(fetch.ids) :
       /\ fetch.ids[j] \in pool.allocated
       /\ pool.hash[fetch.ids[j]] = Chain[fetch.req][Len(table[fetch.req]) + j]
  /\ store.at = "share" =>
       store.ids[1] \in pool.allocated /\ pool.hash[store.ids[1]] = NextHash
  /\ store.at \in {"register", "save"} => store.ids[1] = Last(table[store.req])
  /\ store.at = "register" =>
       /\ \A h \in Hashes : store.ids[1] \notin Range(pool.index[h])
       /\ \A c \in HeldPlaces : BlockAt(table, c) = store.ids[1] => Fresh(c)

SerialInv ==
  /\ OneAtATime
  /\ IndexOK(pool) /\ Counted(pool, HeldPlaces, table)
  /\ PlacesOK /\ FoundOK
  /\ loaded \in [Requests -> Seq(Hashes)]
  /\ \A r \in Requests : IsPrefix(loaded[r], Chain[r])

(* The places of a set of holders.                                         *)
LEMMA PlaceIn ==
  ASSUME NEW H, NEW tab
  PROVE  \A c : c \in UNION {{r} \X (1..Len(tab[r])) : r \in H} <=>
                  \E r \in H : \E i \in 1..Len(tab[r]) : c = <<r, i>>
OBVIOUS

(* A holder whose table gets one more block.                               *)
LEMMA OneMorePlace ==
  ASSUME CacheInv, NEW r \in Holders, NEW b \in Blocks, UNCHANGED phase,
         table' = [table EXCEPT ![r] = Append(table[r], b)]
  PROVE  LET x == <<r, Len(table[r]) + 1>>
         IN  /\ HeldPlaces' = HeldPlaces \cup {x} /\ x \notin HeldPlaces /\ BlockAt(table', x) = b
             /\ \A c \in HeldPlaces : BlockAt(table', c) = BlockAt(table, c)
             /\ Len(table'[r]) = Len(table[r]) + 1 /\ Last(table'[r]) = b
             /\ \A q \in Requests \ {r} : table'[q] = table[q]
<1> DEFINE n == Len(table[r])
           x == <<r, n + 1>>
<1>0. /\ table \in [Requests -> Seq(Blocks)] /\ r \in Requests /\ Holders' = Holders
      /\ Holders \subseteq Requests
  BY DEF CacheInv, CacheTypes, Holders
<1>1. /\ table'[r] = Append(table[r], b) /\ \A q \in Requests \ {r} : table'[q] = table[q]
      /\ n \in Nat
  BY <1>0
<1>2. /\ Len(table'[r]) = n + 1 /\ table'[r][n + 1] = b
      /\ \A i \in 1..n : table'[r][i] = table[r][i]
  BY <1>0, <1>1, AppendProperties
<1> HIDE DEF n
<1>3. \A c : c \in HeldPlaces <=> \E q \in Holders : \E i \in 1..Len(table[q]) : c = <<q, i>>
  BY PlaceIn DEF HeldPlaces, Places
<1>4. \A c : c \in HeldPlaces' <=> \E q \in Holders : \E i \in 1..Len(table'[q]) : c = <<q, i>>
  BY <1>0, PlaceIn DEF HeldPlaces, Places
<1>5. x \notin HeldPlaces
  BY <1>1, <1>3 DEF n
<1>6. ASSUME NEW c \in HeldPlaces PROVE c \in HeldPlaces' /\ BlockAt(table', c) = BlockAt(table, c)
  <2>1. PICK q \in Holders : \E i \in 1..Len(table[q]) : c = <<q, i>>
    BY <1>3
  <2>i. PICK i \in 1..Len(table[q]) : c = <<q, i>>
    BY <2>1
  <2>2. CASE q = r
    BY <1>1, <1>2, <1>4, <2>i, <2>2 DEF BlockAt, n
  <2>3. CASE q # r
    BY <1>0, <1>1, <1>4, <2>i, <2>3 DEF BlockAt
  <2> QED BY <2>2, <2>3
<1>7. ASSUME NEW c \in HeldPlaces' PROVE c \in HeldPlaces \cup {x}
  <2>1. PICK q \in Holders : \E i \in 1..Len(table'[q]) : c = <<q, i>>
    BY <1>4
  <2>i. PICK i \in 1..Len(table'[q]) : c = <<q, i>>
    BY <2>1
  <2>2. CASE q = r
    <3>1. i \in 1..n \/ i = n + 1
      BY <1>1, <1>2, <2>i, <2>2
    <3> QED BY <1>3, <2>i, <2>2, <3>1 DEF n
  <2>3. CASE q # r
    BY <1>0, <1>1, <1>3, <2>i, <2>3
  <2> QED BY <2>2, <2>3
<1>8. x \in HeldPlaces'
  BY <1>1, <1>2, <1>4
<1>9. BlockAt(table', x) = b /\ Last(table'[r]) = b
  BY <1>2 DEF BlockAt, Last
<1> QED BY <1>1, <1>2, <1>5, <1>6, <1>7, <1>8, <1>9 DEF n

(* A holder that keeps the first n places only, or gives up all of them.   *)
LEMMA FewerPlaces ==
  ASSUME CacheInv, NEW r \in Holders, NEW n \in 0..Len(table[r]),
         \A q \in Requests \ {r} : table'[q] = table[q] /\ phase'[q] = phase[q],
         \/ /\ r \in Holders' /\ Len(table'[r]) = n
            /\ \A i \in 1..n : table'[r][i] = table[r][i]
         \/ r \notin Holders' /\ n = 0
  PROVE  /\ HeldPlaces' = HeldPlaces \ Stretch(r, n, Len(table[r]) - n)
         /\ \A c \in HeldPlaces' : BlockAt(table', c) = BlockAt(table, c)
<1> DEFINE m == Len(table[r])
<1>0. /\ r \in Requests /\ m \in Nat /\ Holders' \ {r} = Holders \ {r}
      /\ Holders \subseteq Requests /\ Holders' \subseteq Requests
  BY DEF CacheInv, CacheTypes, Holders
<1>1. \A c : c \in HeldPlaces <=> \E q \in Holders : \E i \in 1..Len(table[q]) : c = <<q, i>>
  BY PlaceIn DEF HeldPlaces, Places
<1>2. \A c : c \in HeldPlaces' <=> \E q \in Holders' : \E i \in 1..Len(table'[q]) : c = <<q, i>>
  BY PlaceIn DEF HeldPlaces, Places
<1>3. \A c : c \in Stretch(r, n, m - n) <=> \E i \in (n + 1)..m : c = <<r, i>>
  BY <1>0 DEF Stretch
<1>4. ASSUME NEW c \in HeldPlaces'
      PROVE  /\ c \in HeldPlaces \ Stretch(r, n, m - n) /\ BlockAt(table', c) = BlockAt(table, c)
  <2>1. PICK q \in Holders' : \E i \in 1..Len(table'[q]) : c = <<q, i>>
    BY <1>2
  <2>i. PICK i \in 1..Len(table'[q]) : c = <<q, i>>
    BY <2>1
  <2>2. CASE q = r
    <3>1. i \in 1..n /\ table'[r][i] = table[r][i]
      BY <2>i, <2>2
    <3>2. i \in 1..m /\ i \notin (n + 1)..m
      BY <1>0, <3>1
    <3> QED BY <1>1, <1>3, <2>i, <2>2, <3>1, <3>2 DEF BlockAt
  <2>3. CASE q # r
    BY <1>0, <1>1, <1>3, <2>i, <2>3 DEF BlockAt
  <2> QED BY <2>2, <2>3
<1>5. ASSUME NEW c \in HeldPlaces \ Stretch(r, n, m - n) PROVE c \in HeldPlaces'
  <2>1. PICK q \in Holders : \E i \in 1..Len(table[q]) : c = <<q, i>>
    BY <1>1
  <2>i. PICK i \in 1..Len(table[q]) : c = <<q, i>>
    BY <2>1
  <2>2. CASE q = r
    <3>1. i \in 1..n
      BY <1>0, <1>3, <1>5, <2>i, <2>2
    <3> QED BY <1>2, <2>i, <2>2, <3>1
  <2>3. CASE q # r
    BY <1>0, <1>2, <2>i, <2>3
  <2> QED BY <2>2, <2>3
<1> QED BY <1>4, <1>5

(* A step that changes no place.                                           *)
LEMMA SamePlaces ==
  ASSUME \A r \in Requests : /\ table'[r] = table[r]
                             /\ (phase[r] = "new" /\ table[r] = <<>>) \/ (r \in Holders' <=> r \in Holders)
  PROVE  HeldPlaces' = HeldPlaces
<1>0. Holders \subseteq Requests /\ Holders' \subseteq Requests
  BY DEF Holders
<1>1. \A c : c \in HeldPlaces <=> \E q \in Holders : \E i \in 1..Len(table[q]) : c = <<q, i>>
  BY PlaceIn DEF HeldPlaces, Places
<1>2. \A c : c \in HeldPlaces' <=> \E q \in Holders' : \E i \in 1..Len(table'[q]) : c = <<q, i>>
  BY PlaceIn DEF HeldPlaces, Places
<1>3. 1..Len(<<>>) = {}
  OBVIOUS
<1>4. ASSUME NEW c \in HeldPlaces PROVE c \in HeldPlaces'
  BY <1>0, <1>1, <1>2, <1>3
<1>5. ASSUME NEW c \in HeldPlaces' PROVE c \in HeldPlaces
  BY <1>0, <1>1, <1>2, <1>3
<1> QED BY <1>4, <1>5

(* Without the store thread the inference thread does one thing at a time. *)
LEMMA OneStays ==
  ASSUME CacheInv, ~executor, OneAtATime, Next
  PROVE  OneAtATime'
<1> USE RequestAssumption
<1>0. /\ phase \in [Requests -> Phases] /\ queue \in Seq(Requests)
      /\ store.at # "idle" => store.req \in Requests
      /\ store = NoStore <=> store.at = "idle"
      /\ fetch = NoFetch <=> fetch.req = NoRequest
      /\ store.at = "idle" <=> store.req = NoRequest
      /\ store \in [req : Requests \cup {NoRequest}, at : StorePlaces, ids : Seq(Blocks)]
      /\ fetch \in [req : Requests \cup {NoRequest}, ids : Seq(Blocks), indexed : BOOLEAN]
  BY CacheFacts DEF CacheInv, CacheTypes, StoreOK, FetchOK, NoFetch, NoStore
<1>1. NoFetch.req = NoRequest /\ NoStore.req = NoRequest /\ Len(<<>>) = 0
  BY DEF NoFetch, NoStore
<1>2. ASSUME NEW r \in Requests, FindSharedPrefix(r) \/ Reject(r) \/ Abort(r) \/ SubmitFails(r)
      PROVE  OneAtATime'
  <2>1. store' = NoStore /\ queue' = <<>>
    BY <1>2 DEF FindSharedPrefix, Reject, Abort, SubmitFails, InferenceTurn
  <2> QED BY <1>1, <2>1 DEF OneAtATime
<1>3. ASSUME NEW r \in Requests, FullPrefill(r) PROVE OneAtATime'
  BY <1>3 DEF FullPrefill, OneAtATime
<1>4. ASSUME NEW r \in Requests, Finish(r) PROVE OneAtATime'
  <2>1. /\ store' = NoStore /\ fetch' = NoFetch /\ queue' = Append(<<>>, r)
        /\ phase' = [phase EXCEPT ![r] = "storing"]
    BY <1>4 DEF Finish, InferenceTurn
  <2>2. Len(queue') = 1 /\ queue'[1] = r
    BY <2>1
  <2>3. phase'[r] = "storing"
    BY <1>0, <2>1
  <2> QED BY <1>1, <2>1, <2>2, <2>3 DEF OneAtATime
<1>5. ASSUME ClaimBlock \/ AcquireBlock PROVE OneAtATime'
  <2>1. fetch'.req = fetch.req /\ UNCHANGED <<store, queue, phase>>
    BY <1>0, <1>5 DEF ClaimBlock, AcquireBlock
  <2> QED BY <2>1 DEF OneAtATime
<1>6. ASSUME Reconstruct PROVE OneAtATime'
  <2>1. fetch' = NoFetch /\ fetch.req # NoRequest /\ UNCHANGED <<store, queue>>
    BY <1>0, <1>6 DEF Reconstruct
  <2> QED BY <1>1, <2>1 DEF OneAtATime
<1>7. ASSUME StoreBegins PROVE OneAtATime'
  <2>0. queue # <<>> /\ Len(queue) <= 1
    BY <1>7 DEF StoreBegins, OneAtATime
  <2>a. Len(queue) = 1 /\ Head(queue) = queue[1] /\ queue[1] \in Requests
    <3> DEFINE n == Len(queue)
    <3>1. n # 0 /\ n \in Nat /\ n <= 1
      BY <1>0, <2>0, EmptySeq, LenProperties
    <3> HIDE DEF n
    <3>2. n = 1
      BY <3>1
    <3> QED BY <1>0, <2>0, <3>2, HeadTailProperties, ElementOfSeq DEF n
  <2>b. Tail(queue) \in Seq(Requests) /\ Len(Tail(queue)) = 0
    BY <1>0, <2>0, <2>a
  <2>1. Len(queue) = 1 /\ queue[1] \in Requests /\ Head(queue) = queue[1] /\ Tail(queue) = <<>>
    BY <2>a, <2>b, EmptySeq
  <2>2. /\ fetch'.req = NoRequest /\ queue' = <<>> /\ store'.req = queue[1]
        /\ phase' = phase
    BY <1>7, <2>1 DEF StoreBegins, OneAtATime
  <2> QED BY <1>1, <2>1, <2>2 DEF OneAtATime
<1>8. ASSUME \/ StoreFinds \/ StoreShares \/ StoreAllocates \/ StoreOutOfBlocks
             \/ StoreRegisters \/ StoreSaves \/ StoreFailsToSave
      PROVE  OneAtATime'
  <2>1. store'.req = store.req /\ UNCHANGED <<fetch, queue, phase>>
    BY <1>0, <1>8 DEF StoreFinds, StoreShares, StoreAllocates, StoreOutOfBlocks, StoreRegisters,
                      StoreSaves, StoreFailsToSave, Moves
  <2> QED BY <2>1 DEF OneAtATime
<1>9. ASSUME StoreReleases \/ StoreFails PROVE OneAtATime'
  <2>1. store' = NoStore /\ store.req # NoRequest /\ UNCHANGED <<fetch, queue>>
    BY <1>0, <1>9 DEF StoreReleases, StoreFails
  <2> QED BY <1>1, <2>1 DEF OneAtATime
<1>10. ASSUME NEW h \in Hashes, SsdLoses(h) PROVE OneAtATime'
  BY <1>10 DEF SsdLoses, OneAtATime
<1> QED BY <1>2, <1>3, <1>4, <1>5, <1>6, <1>7, <1>8, <1>9, <1>10 DEF Next

(* fetch_cache finds blocks of the prompt's own prefix.                    *)
LEMMA FindKeepsSerial ==
  ASSUME CacheInv, ~executor, SerialInv, OneAtATime', NEW r \in Requests, FindSharedPrefix(r)
  PROVE  SerialInv'
<1> USE RequestAssumption
<1> DEFINE w == GetComputedBlocks(pool, ssd, Chain[r])
<1>1. /\ store = NoStore /\ store' = NoStore /\ phase[r] = "new" /\ pool' = w.pool
      /\ fetch' = [req |-> r, ids |-> w.found, indexed |-> w.found = <<>>]
      /\ phase' = [phase EXCEPT ![r] = "fetching"]
      /\ table' = table /\ loaded' = loaded
  BY DEF FindSharedPrefix, InferenceTurn
<1>2. table[r] = <<>> /\ PoolOK(pool) /\ phase \in [Requests -> Phases] /\ Chain[r] \in Seq(Hashes)
  BY <1>1 DEF CacheInv, CacheTypes, TableOK
<1>3. WalkOK(w, pool, HeldPlaces, table, Chain[r], Len(Chain[r]))
  BY <1>2, WalkFinds DEF SerialInv
<1> HIDE DEF w
<1>4. HeldPlaces' = HeldPlaces
  <2>1. \A q \in Requests \ {r} : phase'[q] = phase[q]
    BY <1>1, <1>2
  <2>2. \A q \in Requests \ {r} : q \in Holders' <=> q \in Holders
    BY <2>1 DEF Holders
  <2> QED BY <1>1, <1>2, <2>2, SamePlaces
<1>5. IndexOK(pool') /\ Counted(pool', HeldPlaces', table')
  BY <1>1, <1>3, <1>4 DEF WalkOK
<1>6. PlacesOK'
  <2> SUFFICES ASSUME NEW c \in HeldPlaces PROVE pool'.hash[BlockAt(table, c)] = Chain[c[1]][c[2]]
    BY <1>1, <1>4 DEF PlacesOK
  <2>1. BlockAt(table, c) \in pool.allocated
    BY DEF SerialInv, Counted
  <2>2. pool.hash[BlockAt(table, c)] = Chain[c[1]][c[2]]
    BY <1>1 DEF SerialInv, PlacesOK, Fresh, NoStore
  <2> QED BY <1>1, <1>3, <2>1, <2>2 DEF WalkOK
<1>7. FoundOK'
  <2>1. fetch'.req = r /\ fetch'.ids = w.found /\ store'.at = "idle" /\ Len(table'[r]) = 0
    BY <1>1, <1>2 DEF NoStore
  <2>2. \A j \in 1..Len(w.found) : Len(table'[r]) + j = j
    BY <2>1
  <2> QED BY <1>1, <1>3, <2>1, <2>2 DEF FoundOK, WalkOK
<1> QED BY <1>1, <1>5, <1>6, <1>7 DEF SerialInv

(* While a fetch runs there is no store.                                   *)
LEMMA FetchAlone ==
  ASSUME CacheInv, OneAtATime, fetch.req # NoRequest
  PROVE  /\ store = NoStore /\ store.at = "idle" /\ fetch.req \in Requests
         /\ fetch.req \in Holders /\ phase[fetch.req] = "fetching"
BY CacheFacts DEF CacheInv, OneAtATime, StoreOK, FetchOK, Holders, NoStore

(* A fetch that takes a reference on the next block of its chain.          *)
LEMMA TakesOne ==
  ASSUME CacheInv, SerialInv, fetch.req # NoRequest, NEW b \in pool.allocated,
         pool.hash[b] = Chain[fetch.req][Len(table[fetch.req]) + 1],
         pool' = IncrementRef(pool, b),
         table' = [table EXCEPT ![fetch.req] = Append(table[fetch.req], b)],
         UNCHANGED <<phase, store>>
  PROVE  /\ IndexOK(pool') /\ Counted(pool', HeldPlaces', table') /\ PlacesOK'
         /\ RefsOnly(pool, pool') /\ Len(table'[fetch.req]) = Len(table[fetch.req]) + 1
<1> DEFINE r == fetch.req
           n == Len(table[r])
           x == <<r, n + 1>>
<1>0. /\ store = NoStore /\ store.at = "idle" /\ r \in Requests /\ r \in Holders
      /\ pool \in Pools /\ PoolOK(pool) /\ b \in Blocks
      /\ table \in [Requests -> Seq(Blocks)] /\ n \in Nat
  <2>1. table \in [Requests -> Seq(Blocks)] /\ PoolOK(pool) /\ pool \in Pools
    BY CacheFacts DEF CacheInv, CacheTypes
  <2>2. r \in Requests /\ r \in Holders /\ store = NoStore /\ store.at = "idle"
    BY FetchAlone DEF SerialInv
  <2>3. n \in Nat
    BY <2>1, <2>2, LenProperties
  <2>4. b \in Blocks
    BY <2>1, PoolFields
  <2> QED BY <2>1, <2>2, <2>3, <2>4
<1>1. pool.hash[b] = Chain[r][n + 1] /\ pool' = IncrementRef(pool, b) /\ store'.at = "idle"
  BY <1>0
<1>3. /\ HeldPlaces' = HeldPlaces \cup {x} /\ x \notin HeldPlaces /\ BlockAt(table', x) = b
      /\ \A c \in HeldPlaces : BlockAt(table', c) = BlockAt(table, c)
      /\ Len(table'[r]) = n + 1
  <2>1. table' = [table EXCEPT ![r] = Append(table[r], b)]
    OBVIOUS
  <2> HIDE DEF r
  <2> QED BY <1>0, <2>1, OneMorePlace
<1>4. RefsOnly(pool, pool')
  BY <1>0, <1>1, RefSteps
<1> HIDE DEF n, x, r
<1>5. IndexOK(pool')
  BY <1>0, <1>4, RefsOnlyKeeps DEF SerialInv
<1>6. Counted(pool', HeldPlaces', table')
  <2>1. Counted(pool, HeldPlaces, table)
    BY DEF SerialInv
  <2>2. Counted(IncrementRef(pool, b), HeldPlaces \cup {x}, table')
    BY <1>0, <1>3, <2>1, ClaimBegins
  <2> QED BY <1>1, <1>3, <2>2
<1>7. PlacesOK'
  <2> SUFFICES ASSUME NEW c \in HeldPlaces' PROVE pool'.hash[BlockAt(table', c)] = Chain[c[1]][c[2]]
    BY DEF PlacesOK
  <2>1. pool'.hash = pool.hash
    BY <1>4 DEF RefsOnly
  <2>2. CASE c = x
    BY <1>1, <1>3, <2>1, <2>2 DEF x
  <2>3. CASE c \in HeldPlaces
    BY <1>0, <1>3, <2>1, <2>3 DEF SerialInv, PlacesOK, Fresh
  <2> QED BY <1>3, <2>2, <2>3
<1> QED BY <1>3, <1>4, <1>5, <1>6, <1>7 DEF r, n

(* ... claims the blocks found one by one.                                 *)
LEMMA ClaimKeepsSerial ==
  ASSUME CacheInv, ~executor, SerialInv, OneAtATime', ClaimBlock
  PROVE  SerialInv'
<1> USE RequestAssumption
<1> DEFINE r == fetch.req
           b == Head(fetch.ids)
           n == Len(table[r])
<1>0. /\ r # NoRequest /\ store.at = "idle" /\ r \in Requests
      /\ fetch.ids \in Seq(Blocks) /\ fetch.ids # <<>> /\ n \in Nat
  <2>1. fetch.req # NoRequest /\ fetch.ids # <<>>
    BY CacheFacts DEF ClaimBlock
  <2>2. table \in [Requests -> Seq(Blocks)] /\ fetch.ids \in Seq(Blocks)
    BY CacheFacts DEF CacheInv, CacheTypes
  <2>3. r \in Requests /\ store.at = "idle"
    BY <2>1, FetchAlone DEF SerialInv
  <2>4. n \in Nat
    BY <2>2, <2>3, LenProperties
  <2> QED BY <2>1, <2>2, <2>3, <2>4
<1>1. b = fetch.ids[1] /\ b \in pool.allocated /\ pool.hash[b] = Chain[r][n + 1]
  <2>1. b = fetch.ids[1] /\ 1 \in 1..Len(fetch.ids)
    BY <1>0, EmptySeq, LenProperties, TailFacts
  <2> QED BY <2>1 DEF SerialInv, FoundOK
<1>2. /\ pool' = IncrementRef(pool, b) /\ table' = [table EXCEPT ![r] = Append(table[r], b)]
      /\ fetch' = [fetch EXCEPT !.ids = Tail(fetch.ids)]
      /\ UNCHANGED <<phase, loaded, queue, store>>
  BY <1>1 DEF ClaimBlock
<1>3. /\ IndexOK(pool') /\ Counted(pool', HeldPlaces', table') /\ PlacesOK'
      /\ RefsOnly(pool, pool') /\ Len(table'[r]) = n + 1
  <2> HIDE DEF b
  <2> QED BY <1>0, <1>1, <1>2, TakesOne
<1> HIDE DEF b, n, r
<1>4. FoundOK'
  <2>1. fetch'.req = r /\ fetch'.ids = Tail(fetch.ids) /\ store'.at = "idle"
    <3>1. fetch \in [req : Requests \cup {NoRequest}, ids : Seq(Blocks), indexed : BOOLEAN]
      BY DEF CacheInv, CacheTypes
    <3> QED BY <1>0, <1>2, <3>1 DEF r
  <2>2. SUFFICES ASSUME NEW j \in 1..Len(fetch'.ids)
                 PROVE  /\ fetch'.ids[j] \in pool'.allocated
                        /\ pool'.hash[fetch'.ids[j]] = Chain[r][Len(table'[r]) + j]
    BY <2>1 DEF FoundOK
  <2>3. j + 1 \in 1..Len(fetch.ids) /\ fetch'.ids[j] = fetch.ids[j + 1]
    <3>1. /\ Len(Tail(fetch.ids)) = Len(fetch.ids) - 1
          /\ \A i \in 1..Len(Tail(fetch.ids)) : Tail(fetch.ids)[i] = fetch.ids[i + 1]
      BY <1>0, HeadTailProperties
    <3>2. Len(fetch.ids) \in Nat
      BY <1>0, LenProperties
    <3> QED BY <2>1, <2>2, <3>1, <3>2
  <2>4. Len(table'[r]) + j = n + (j + 1)
    BY <1>0, <1>3
  <2>5. /\ fetch.ids[j + 1] \in pool.allocated
        /\ pool.hash[fetch.ids[j + 1]] = Chain[r][n + (j + 1)]
    BY <2>3 DEF SerialInv, FoundOK, r, n
  <2> QED BY <1>3, <2>3, <2>4, <2>5 DEF RefsOnly
<1> QED BY <1>2, <1>3, <1>4 DEF SerialInv

(* ... or acquires them where the prefix index points.                     *)
LEMMA AcquireKeepsSerial ==
  ASSUME CacheInv, ~executor, SerialInv, OneAtATime', AcquireBlock
  PROVE  SerialInv'
<1> USE RequestAssumption
<1> DEFINE r == fetch.req
<1>1. PICK b \in pool.allocated :
        /\ pool.hash[b] = Chain[r][Len(table[r]) + 1] /\ pool' = IncrementRef(pool, b)
        /\ table' = [table EXCEPT ![r] = Append(table[r], b)]
  BY DEF AcquireBlock
<1>2. fetch.indexed /\ UNCHANGED <<phase, loaded, fetch, queue, store>>
  BY DEF AcquireBlock
<1>3. r # NoRequest /\ fetch.ids = <<>>
  BY <1>2 DEF CacheInv, FetchOK, NoFetch
<1>4. store.at = "idle"
  BY <1>3, FetchAlone DEF SerialInv
<1>5. IndexOK(pool') /\ Counted(pool', HeldPlaces', table') /\ PlacesOK'
  BY <1>1, <1>2, <1>3, TakesOne
<1>6. FoundOK'
  <2>1. 1..Len(fetch'.ids) = {}
    BY <1>2, <1>3
  <2> QED BY <1>2, <1>4, <2>1 DEF FoundOK
<1> QED BY <1>2, <1>5, <1>6 DEF SerialInv

(* What makes a sequence a prefix of another.                              *)
LEMMA PrefixBy ==
  ASSUME NEW s \in Seq(Hashes), NEW t \in Seq(Hashes), Len(s) <= Len(t),
         \A i \in 1..Len(s) : s[i] = t[i]
  PROVE  IsPrefix(s, t)
<1> DEFINE n == Len(s)
<1>1. n \in Nat /\ n <= Len(t) /\ Len(t) \in Nat
  BY LenProperties
<1>2. \A i \in 1..n : s[i] \in Hashes /\ t[i] \in Hashes
  BY <1>1, ElementOfSeq
<1>3. /\ SubSeq(s, 1, n) \in Seq(Hashes) /\ Len(SubSeq(s, 1, n)) = n
      /\ \A i \in 1..n : SubSeq(s, 1, n)[i] = s[i]
  BY <1>1, <1>2, SubSeqProperties
<1>4. /\ SubSeq(t, 1, n) \in Seq(Hashes) /\ Len(SubSeq(t, 1, n)) = n
      /\ \A i \in 1..n : SubSeq(t, 1, n)[i] = t[i]
  BY <1>1, <1>2, SubSeqProperties
<1>5. SubSeq(s, 1, n) = SubSeq(t, 1, n)
  BY <1>1, <1>3, <1>4, SeqEqual
<1> QED BY <1>1, <1>5 DEF IsPrefix

(* The places of one holder.                                               *)
LEMMA OwnPlaces ==
  ASSUME NEW r \in Holders, NEW i \in 1..Len(table[r])
  PROVE  <<r, i>> \in HeldPlaces
BY PlaceIn DEF HeldPlaces, Places

(* What is loaded for a request is its own prefix.                         *)
LEMMA LoadsOwnPrefix ==
  ASSUME CacheInv, SerialInv, store.at = "idle", NEW r \in Holders,
         NEW n \in 0..Len(table[r]), NEW ids, \A i \in 1..n : ids[i] = table[r][i]
  PROVE  LET s == [i \in 1..n |-> pool.hash[ids[i]]]
         IN  s \in Seq(Hashes) /\ IsPrefix(s, Chain[r])
<1> USE RequestAssumption
<1> DEFINE s == [i \in 1..n |-> pool.hash[ids[i]]]
           m == Len(table[r])
           t == Chain[r]
<1>0. /\ r \in Requests /\ m \in Nat /\ t \in Seq(Hashes) /\ m <= Len(t) /\ n \in Nat
      /\ Len(t) \in Nat
  <2>1. r \in Requests /\ table[r] \in Seq(Blocks) /\ Len(table[r]) <= Len(Chain[r])
    BY DEF Holders, CacheInv, CacheTypes, TableOK
  <2> QED BY <2>1, LenProperties
<1>1. ASSUME NEW i \in 1..n PROVE s[i] = t[i] /\ s[i] \in Hashes
  <2>1. i \in 1..m /\ i \in 1..Len(t)
    BY <1>0
  <2>2. <<r, i>> \in HeldPlaces
    BY <2>1, OwnPlaces
  <2>3. pool.hash[table[r][i]] = Chain[r][i]
    BY <2>2 DEF SerialInv, PlacesOK, Fresh, BlockAt
  <2> QED BY <1>0, <2>1, <2>3, ElementOfSeq
<1> HIDE DEF m, t
<1>2. DOMAIN s = 1..n
  OBVIOUS
<1>3. s \in [1..n -> Hashes]
  BY <1>1
<1> HIDE DEF s
<1>4. s \in Seq(Hashes) /\ Len(s) = n
  BY <1>0, <1>2, <1>3
<1>5. n <= Len(t)
  BY <1>0 DEF m
<1> QED BY <1>0, <1>1, <1>4, <1>5, PrefixBy DEF s, t

(* reconstruct_cache.                                                      *)
LEMMA ReconstructKeepsSerial ==
  ASSUME CacheInv, ~executor, SerialInv, OneAtATime', Reconstruct
  PROVE  SerialInv'
<1> USE RequestAssumption
<1> DEFINE r == fetch.req
           m == Len(table[r])
           p == ForgetUnloadable(r)
<1>0. /\ store = NoStore /\ store.at = "idle" /\ r \in Requests /\ r \in Holders
      /\ PoolOK(pool) /\ phase \in [Requests -> Phases]
      /\ table \in [Requests -> Seq(Blocks)] /\ m \in Nat
  <2>1. fetch.req # NoRequest
    BY CacheFacts DEF Reconstruct
  <2>2. table \in [Requests -> Seq(Blocks)] /\ PoolOK(pool) /\ phase \in [Requests -> Phases]
    BY DEF CacheInv, CacheTypes
  <2>3. r \in Requests /\ r \in Holders /\ store = NoStore /\ store.at = "idle"
    BY <2>1, FetchAlone DEF SerialInv
  <2>4. m \in Nat
    BY <2>2, <2>3, LenProperties
  <2> QED BY <2>2, <2>3, <2>4
<1> DEFINE k == Len(Loadable(r))
<1>a. k \in 0..m
  BY <1>0, LoadableIs
<1>1. PICK n \in 0..k :
        /\ pool' = DropBehind(r, n) /\ table' = [table EXCEPT ![r] = SubSeq(@, 1, n)]
        /\ loaded' = [loaded EXCEPT ![r] = [i \in 1..n |-> pool.hash[table[r][i]]]]
  BY DEF Reconstruct
<1> DEFINE behind == SubSeq(table[r], k + 1, Len(table[r]))
           given == SubSeq(table[r], n + 1, k)
           cut == SubSeq(table[r], 1, n)
           s == [i \in 1..n |-> pool.hash[table[r][i]]]
<1>2. /\ pool' = FreeAll(FreeAll(p, behind), given) /\ table' = [table EXCEPT ![r] = cut]
      /\ loaded' = [loaded EXCEPT ![r] = s] /\ phase' = [phase EXCEPT ![r] = "running"]
      /\ fetch' = NoFetch /\ UNCHANGED <<queue, store>>
  BY <1>1 DEF Reconstruct, DropBehind
<1>b. n \in 0..m /\ n \in Nat /\ k \in Nat /\ k \in n..m /\ m \in k..m
  <2> HIDE DEF k, m
  <2> QED BY <1>0, <1>a, <1>1
<1>3. /\ behind \in Seq(Blocks) /\ Len(behind) = m - k
      /\ \A i \in 1..Len(behind) : behind[i] = table[r][k + i]
      /\ given \in Seq(Blocks) /\ Len(given) = k - n
      /\ \A i \in 1..Len(given) : given[i] = table[r][n + i]
  <2> HIDE DEF k
  <2>1. /\ behind \in Seq(Blocks) /\ Len(behind) = m - k
        /\ \A i \in 1..Len(behind) : behind[i] = table[r][k + i]
    BY <1>0, <1>a, <1>b, StretchIs
  <2>2. /\ given \in Seq(Blocks) /\ Len(given) = k - n
        /\ \A i \in 1..Len(given) : given[i] = table[r][n + i]
    BY <1>0, <1>a, <1>b, StretchIs
  <2> QED BY <2>1, <2>2
<1>c. cut \in Seq(Blocks) /\ Len(cut) = n /\ \A i \in 1..n : cut[i] = table[r][i]
  BY <1>0, <1>b, CutIs
<1>4. /\ PoolOK(p) /\ IndexOK(p) /\ p.hash = pool.hash /\ p.allocated = pool.allocated
      /\ p.refs = pool.refs
  <2> DEFINE j == Len(Loadable(r)) + 1
             b == table[r][j]
             h == pool.hash[b]
             q == [pool EXCEPT !.index = Pop(pool.index, h, b)]
  <2>1. p = pool \/ p = q
    BY DEF ForgetUnloadable
  <2>2. IndexOK(pool)
    BY DEF SerialInv
  <2> HIDE DEF p, b, h
  <2>a. LET u == [pool EXCEPT !.index = Pop(pool.index, h, b)]
        IN  /\ PoolOK(u) /\ (IndexOK(pool) => IndexOK(u))
            /\ u.hash = pool.hash /\ u.allocated = pool.allocated /\ u.refs = pool.refs
    BY <1>0, PopKeeps
  <2>3. /\ PoolOK(q) /\ IndexOK(q) /\ q.hash = pool.hash /\ q.allocated = pool.allocated
        /\ q.refs = pool.refs
    BY <2>2, <2>a
  <2> QED BY <1>0, <2>1, <2>2, <2>3
<1> HIDE DEF p, behind, given, cut, k, m, r
<1>5. Counted(p, HeldPlaces, table)
  BY <1>4, ClaimsStay DEF SerialInv
<1>6. ASSUME NEW i \in 1..m PROVE <<r, i>> \in HeldPlaces
  BY <1>0, OwnPlaces DEF m
<1> DEFINE q1 == FreeAll(p, behind)
           Rest == HeldPlaces \ Stretch(r, k, m - k)
<1>7. PoolOK(q1) /\ IndexOK(q1) /\ q1.hash = pool.hash /\ Counted(q1, Rest, table)
  <2>1. ASSUME NEW i \in 1..Len(behind)
        PROVE  <<r, k + i>> \in HeldPlaces /\ table[r][k + i] = behind[i]
    <3>1. k + i \in 1..m
      BY <1>0, <1>b, <1>3
    <3> QED BY <1>3, <1>6, <3>1
  <2>2. LET q == FreeAll(p, behind)
        IN  /\ PoolOK(q) /\ IndexOK(q) /\ q.hash = p.hash
            /\ Counted(q, HeldPlaces \ Stretch(r, k, Len(behind)), table)
    BY <1>b, <1>3, <1>4, <1>5, <2>1, FreeAllCounts
  <2> QED BY <1>3, <1>4, <2>2
<1>d. /\ IndexOK(pool') /\ pool'.hash = pool.hash
      /\ Counted(pool', HeldPlaces \ Stretch(r, n, m - n), table)
  <2> HIDE DEF q1, Rest
  <2>1. ASSUME NEW i \in 1..Len(given)
        PROVE  <<r, n + i>> \in Rest /\ table[r][n + i] = given[i]
    <3>1. n + i \in 1..m /\ n + i \notin (k + 1)..(k + (m - k))
      BY <1>0, <1>b, <1>3
    <3> QED BY <1>3, <1>6, <3>1 DEF Rest, Stretch
  <2>2. LET q == FreeAll(q1, given)
        IN  /\ PoolOK(q) /\ IndexOK(q) /\ q.hash = q1.hash
            /\ Counted(q, Rest \ Stretch(r, n, Len(given)), table)
    BY <1>b, <1>3, <1>7, <2>1, FreeAllCounts DEF q1, Rest
  <2>3. Rest \ Stretch(r, n, k - n) = HeldPlaces \ Stretch(r, n, m - n)
    <3>1. (n + 1)..(n + (m - n)) = ((n + 1)..(n + (k - n))) \cup ((k + 1)..(k + (m - k)))
      BY <1>0, <1>b
    <3>2. Stretch(r, n, m - n) = Stretch(r, n, k - n) \cup Stretch(r, k, m - k)
      BY <3>1 DEF Stretch
    <3> QED BY <3>2 DEF Rest
  <2> QED BY <1>2, <1>3, <1>7, <2>2, <2>3 DEF q1
<1> HIDE DEF q1, Rest
<1>8. /\ HeldPlaces' = HeldPlaces \ Stretch(r, n, m - n)
      /\ \A c \in HeldPlaces' : BlockAt(table', c) = BlockAt(table, c)
  <2>1. \A q \in Requests \ {r} : table'[q] = table[q] /\ phase'[q] = phase[q]
    BY <1>0, <1>2
  <2>2. r \in Holders' /\ table'[r] = cut
    BY <1>0, <1>2 DEF Holders
  <2>3. n \in 0..Len(table[r])
    BY <1>b DEF m
  <2>4. /\ HeldPlaces' = HeldPlaces \ Stretch(r, n, Len(table[r]) - n)
        /\ \A c \in HeldPlaces' : BlockAt(table', c) = BlockAt(table, c)
    BY <1>0, <1>c, <2>1, <2>2, <2>3, FewerPlaces
  <2> QED BY <2>4 DEF m
<1>9. Counted(pool', HeldPlaces', table')
  BY <1>d, <1>8, ClaimsStay
<1>10. PlacesOK'
  BY <1>0, <1>d, <1>8 DEF SerialInv, PlacesOK, Fresh
<1>11. FoundOK'
  BY <1>0, <1>2 DEF FoundOK, NoFetch
<1>12. s \in Seq(Hashes) /\ IsPrefix(s, Chain[r])
  <2>1. n \in 0..Len(table[r]) /\ \A i \in 1..n : table[r][i] = table[r][i]
    BY <1>b DEF m
  <2> DEFINE ids == table[r]
  <2>2. n \in 0..Len(table[r]) /\ \A i \in 1..n : ids[i] = table[r][i]
    BY <2>1
  <2> HIDE DEF ids
  <2>3. LET t == [i \in 1..n |-> pool.hash[ids[i]]] IN t \in Seq(Hashes) /\ IsPrefix(t, Chain[r])
    BY <1>0, <2>2, LoadsOwnPrefix
  <2> QED BY <2>3 DEF ids
<1> HIDE DEF s
<1>13. /\ loaded' \in [Requests -> Seq(Hashes)]
       /\ \A q \in Requests : IsPrefix(loaded'[q], Chain[q])
  BY <1>0, <1>2, <1>12 DEF SerialInv
<1> QED BY <1>d, <1>9, <1>10, <1>11, <1>13 DEF SerialInv

(* A holder that gives all its blocks up, or releases them.                *)
LEMMA GivesUpAll ==
  ASSUME CacheInv, SerialInv, NEW r \in Holders
  PROVE  /\ LET q == FreeAll(pool, table[r])
            IN  /\ IndexOK(q) /\ q.hash = pool.hash
                /\ Counted(q, HeldPlaces \ Stretch(r, 0, Len(table[r])), table)
         /\ LET q == ReleaseForEviction(pool, table[r])
            IN  /\ IndexOK(q) /\ q.hash = pool.hash
                /\ Counted(q, HeldPlaces \ Stretch(r, 0, Len(table[r])), table)
<1> DEFINE ids == table[r]
<1>1. PoolOK(pool) /\ ids \in Seq(Blocks) /\ IndexOK(pool) /\ Counted(pool, HeldPlaces, table)
  BY DEF CacheInv, CacheTypes, SerialInv, Holders
<1>2. ASSUME NEW i \in 1..Len(ids) PROVE <<r, 0 + i>> \in HeldPlaces /\ table[r][0 + i] = ids[i]
  <2>1. 0 + i = i
    OBVIOUS
  <2> QED BY <2>1, OwnPlaces
<1>3. ids = table[r] /\ 0 \in Nat
  OBVIOUS
<1> HIDE DEF ids
<1>4. LET q == FreeAll(pool, ids)
      IN  /\ PoolOK(q) /\ IndexOK(q) /\ q.hash = pool.hash
          /\ Counted(q, HeldPlaces \ Stretch(r, 0, Len(ids)), table)
  BY <1>1, <1>2, <1>3, FreeAllCounts
<1>5. LET q == ReleaseForEviction(pool, ids)
      IN  /\ PoolOK(q) /\ IndexOK(q) /\ q.hash = pool.hash /\ q.allocated = pool.allocated
          /\ Counted(q, HeldPlaces \ Stretch(r, 0, Len(ids)), table)
  BY <1>1, <1>2, <1>3, ReleaseCounts
<1> QED BY <1>4, <1>5 DEF ids

(* A step after which there are fewer places, and nothing is found.        *)
LEMMA FewerKeepSerial ==
  ASSUME SerialInv, OneAtATime', IndexOK(pool'), pool'.hash = pool.hash,
         HeldPlaces' \subseteq HeldPlaces, Counted(pool', HeldPlaces', table),
         \A c \in HeldPlaces' : BlockAt(table', c) = BlockAt(table, c),
         store.at # "register", store'.at \in {"idle", "release"}, fetch' = NoFetch,
         loaded' \in [Requests -> Seq(Hashes)], \A r \in Requests : IsPrefix(loaded'[r], Chain[r])
  PROVE  SerialInv'
<1>1. Counted(pool', HeldPlaces', table')
  BY ClaimsStay
<1>2. PlacesOK'
  BY DEF SerialInv, PlacesOK, Fresh
<1>3. FoundOK'
  BY DEF FoundOK, NoFetch
<1> QED BY <1>1, <1>2, <1>3 DEF SerialInv

(* The full prefill, the rejection, the abort and the end of a request; a   *)
(* submission fails only with the store thread.                            *)
LEMMA EndKeepsSerial ==
  ASSUME CacheInv, ~executor, SerialInv, OneAtATime', NEW r \in Requests,
         FullPrefill(r) \/ Reject(r) \/ Abort(r) \/ Finish(r) \/ SubmitFails(r)
  PROVE  SerialInv'
<1> USE RequestAssumption
<1> DEFINE m == Len(table[r])
<1>0. /\ store = NoStore /\ store.at = "idle" /\ fetch = NoFetch /\ phase[r] = "running"
      /\ store' = NoStore /\ store'.at = "idle" /\ fetch' = NoFetch /\ r \in Holders
  BY DEF FullPrefill, Reject, Abort, Finish, SubmitFails, InferenceTurn, NoStore, Holders
<1>1. /\ phase \in [Requests -> Phases] /\ table \in [Requests -> Seq(Blocks)]
      /\ loaded \in [Requests -> Seq(Hashes)] /\ \A q \in Requests : IsPrefix(loaded[q], Chain[q])
      /\ m \in Nat /\ 0 \in 0..m
  BY LenProperties DEF CacheInv, CacheTypes, SerialInv
<1>2. CASE FullPrefill(r)
  <2>1. /\ pool' = FreeAll(pool, table[r]) /\ table' = [table EXCEPT ![r] = <<>>]
        /\ loaded' = [loaded EXCEPT ![r] = <<>>] /\ phase' = phase
    BY <1>2 DEF FullPrefill
  <2>2. /\ IndexOK(pool') /\ pool'.hash = pool.hash
        /\ Counted(pool', HeldPlaces \ Stretch(r, 0, m), table)
    BY <1>0, <2>1, GivesUpAll
  <2>3. /\ HeldPlaces' = HeldPlaces \ Stretch(r, 0, m - 0)
        /\ \A c \in HeldPlaces' : BlockAt(table', c) = BlockAt(table, c)
    <3>1. \A q \in Requests \ {r} : table'[q] = table[q] /\ phase'[q] = phase[q]
      BY <1>1, <2>1
    <3>2. r \in Holders' /\ table'[r] = <<>> /\ Len(table'[r]) = 0
      BY <1>0, <1>1, <2>1 DEF Holders
    <3>3. \A i \in 1..0 : table'[r][i] = table[r][i]
      OBVIOUS
    <3> QED BY <1>0, <1>1, <3>1, <3>2, <3>3, FewerPlaces
  <2>4. m - 0 = m
    BY <1>1
  <2>5. /\ loaded' \in [Requests -> Seq(Hashes)]
        /\ \A q \in Requests : IsPrefix(loaded'[q], Chain[q])
    <3>1. <<>> \in Seq(Hashes) /\ IsPrefix(<<>>, Chain[r])
      <4>1. <<>> \in Seq(Hashes) /\ Len(<<>>) = 0 /\ Len(Chain[r]) \in Nat /\ Chain[r] \in Seq(Hashes)
        BY EmptySeq, LenProperties
      <4>2. Len(<<>>) <= Len(Chain[r]) /\ \A i \in 1..Len(<<>>) : <<>>[i] = Chain[r][i]
        BY <4>1
      <4> QED BY <4>1, <4>2, PrefixBy
    <3> QED BY <1>1, <2>1, <3>1
  <2> HIDE DEF m
  <2> QED BY <1>0, <2>2, <2>3, <2>4, <2>5, FewerKeepSerial
<1>3. CASE Abort(r)
  <2>1. /\ pool' = ReleaseForEviction(pool, table[r]) /\ UNCHANGED <<table, loaded>>
        /\ phase' = [phase EXCEPT ![r] = "over"]
    BY <1>3 DEF Abort
  <2>2. /\ IndexOK(pool') /\ pool'.hash = pool.hash
        /\ Counted(pool', HeldPlaces \ Stretch(r, 0, m), table)
    BY <1>0, <2>1, GivesUpAll
  <2>3. /\ HeldPlaces' = HeldPlaces \ Stretch(r, 0, m - 0)
        /\ \A c \in HeldPlaces' : BlockAt(table', c) = BlockAt(table, c)
    <3>1. \A q \in Requests \ {r} : table'[q] = table[q] /\ phase'[q] = phase[q]
      BY <1>1, <2>1
    <3>2. r \notin Holders'
      BY <1>1, <2>1 DEF Holders
    <3> QED BY <1>0, <1>1, <3>1, <3>2, FewerPlaces
  <2>4. m - 0 = m
    BY <1>1
  <2> HIDE DEF m
  <2> QED BY <1>0, <1>1, <2>1, <2>2, <2>3, <2>4, FewerKeepSerial
<1>4. CASE Reject(r) \/ Finish(r)
  <2>1. /\ UNCHANGED <<pool, table, loaded>>
        /\ phase' = [phase EXCEPT ![r] = "rejected"] \/ phase' = [phase EXCEPT ![r] = "storing"]
    BY <1>4 DEF Reject, Finish
  <2>2. Holders' = Holders
    BY <1>0, <1>1, <2>1 DEF Holders
  <2>3. HeldPlaces' = HeldPlaces
    BY <2>1, <2>2, SamePlaces
  <2> QED BY <1>0, <2>1, <2>3, FewerKeepSerial DEF SerialInv
<1>5. CASE SubmitFails(r)
  BY <1>5 DEF SubmitFails
<1> QED BY <1>2, <1>3, <1>4, <1>5

(* While a store runs there is no fetch.                                   *)
LEMMA StoreAlone ==
  ASSUME CacheInv, SerialInv, store.at # "idle"
  PROVE  /\ fetch = NoFetch /\ store.req \in Requests /\ store.req \in Holders
         /\ PoolOK(pool) /\ phase \in [Requests -> Phases] /\ table \in [Requests -> Seq(Blocks)]
         /\ table[store.req] \in Seq(Blocks) /\ Len(table[store.req]) \in Nat
         /\ Chain[store.req] \in Seq(Hashes) /\ Len(Chain[store.req]) \in Nat
         /\ Len(table[store.req]) <= Len(Chain[store.req])
         /\ store \in [req : Requests \cup {NoRequest}, at : StorePlaces, ids : Seq(Blocks)]
         /\ store.ids \in Seq(Blocks)
<1>1. store.req \in Requests /\ fetch = NoFetch /\ phase[store.req] = "storing"
  BY CacheFacts, RequestAssumption DEF SerialInv, OneAtATime, CacheInv, StoreOK
<1>2. table \in [Requests -> Seq(Blocks)] /\ PoolOK(pool) /\ phase \in [Requests -> Phases]
  BY DEF CacheInv, CacheTypes
<1>3. table[store.req] \in Seq(Blocks) /\ Chain[store.req] \in Seq(Hashes) /\ store.ids \in Seq(Blocks)
  BY <1>1, CacheFacts
<1>4. Len(table[store.req]) \in Nat /\ Len(Chain[store.req]) \in Nat
  BY <1>3, LenProperties
<1>5. Len(table[store.req]) <= Len(Chain[store.req])
  BY <1>1 DEF CacheInv, TableOK
<1>6. store.req \in Holders
  BY <1>1 DEF Holders
<1>7. store \in [req : Requests \cup {NoRequest}, at : StorePlaces, ids : Seq(Blocks)]
  BY DEF CacheInv, CacheTypes
<1> QED BY <1>1, <1>2, <1>3, <1>4, <1>5, <1>6, <1>7

(* The steps of a store that leave the pool alone.                         *)
LEMMA StoreLooks ==
  ASSUME CacheInv, ~executor, SerialInv, OneAtATime',
         StoreBegins \/ StoreFinds \/ StoreOutOfBlocks \/ StoreSaves
  PROVE  SerialInv'
<1> USE RequestAssumption
<1>0. /\ UNCHANGED <<pool, table, phase, loaded, fetch>> /\ store.at # "register"
      /\ fetch = NoFetch
  <2>1. CASE StoreBegins
    <3>1. queue # <<>> /\ store = NoStore
      BY <2>1 DEF StoreBegins
    <3>2. fetch = NoFetch
      BY <3>1, CacheFacts DEF SerialInv, OneAtATime
    <3> QED BY <2>1, <3>1, <3>2 DEF StoreBegins, NoStore
  <2>2. CASE StoreFinds \/ StoreOutOfBlocks \/ StoreSaves
    <3>1. store.at \in {"next", "allocate", "save"}
      BY <2>2 DEF StoreFinds, StoreOutOfBlocks, StoreSaves
    <3> QED BY <2>2, <3>1, StoreAlone DEF StoreFinds, StoreOutOfBlocks, StoreSaves
  <2> QED BY <2>1, <2>2
<1>1. HeldPlaces' = HeldPlaces
  BY <1>0 DEF HeldPlaces, Places, Holders
<1>2. /\ store'.at \in {"next", "allocate", "share", "release"}
      /\ store'.at = "share" =>
           LET h == Chain[store'.req][Len(table'[store'.req]) + 1]
           IN  store'.ids[1] \in pool.allocated /\ pool.hash[store'.ids[1]] = h
  <2>1. CASE StoreBegins
    BY <2>1 DEF StoreBegins
  <2>2. CASE StoreOutOfBlocks \/ StoreSaves
    <3>1. store.at # "idle"
      BY <2>2 DEF StoreOutOfBlocks, StoreSaves
    <3> QED BY <2>2, <3>1, StoreAlone DEF StoreOutOfBlocks, StoreSaves, Moves
  <2>3. CASE StoreFinds
    <3> DEFINE s == pool.index[NextHash]
    <3>1. /\ store.at = "next" /\ Len(table[store.req]) < Len(Chain[store.req])
          /\ \/ Moves("allocate", <<>>)
             \/ s # <<>> /\ Moves("share", <<Head(s)>>)
      BY <2>3 DEF StoreFinds, Lookup
    <3>2. NextHash \in Hashes
      <4>1. Len(table[store.req]) + 1 \in 1..Len(Chain[store.req])
        BY <3>1, StoreAlone
      <4> QED BY <3>1, <4>1, StoreAlone, ElementOfSeq DEF NextHash
    <3>3. s \in Seq(Blocks)
      BY <3>1, <3>2, StoreAlone, PoolFields DEF PoolOK
    <3>4. s # <<>> => Head(s) \in pool.allocated /\ pool.hash[Head(s)] = NextHash
      BY <3>2, <3>3, TailFacts DEF SerialInv, IndexOK
    <3> HIDE DEF s
    <3>5. store \in [req : Requests \cup {NoRequest}, at : StorePlaces, ids : Seq(Blocks)]
      BY DEF CacheInv, CacheTypes
    <3>6. CASE Moves("allocate", <<>>)
      BY <3>5, <3>6 DEF Moves
    <3>7. CASE s # <<>> /\ Moves("share", <<Head(s)>>)
      <4>1. store'.at = "share" /\ store'.req = store.req /\ store'.ids = <<Head(s)>>
        BY <3>5, <3>7 DEF Moves
      <4>2. store'.ids[1] = Head(s)
        BY <4>1
      <4> QED BY <1>0, <3>4, <3>7, <4>1, <4>2 DEF NextHash
    <3> QED BY <3>1, <3>6, <3>7
  <2> QED BY <2>1, <2>2, <2>3
<1>3. PlacesOK'
  BY <1>0, <1>1, <1>2 DEF SerialInv, PlacesOK, Fresh
<1>4. FoundOK'
  BY <1>0, <1>2 DEF FoundOK, NextHash, NoFetch
<1> QED BY <1>0, <1>1, <1>3, <1>4 DEF SerialInv

(* A store that shares the block it found.                                 *)
LEMMA SharesKeepSerial ==
  ASSUME CacheInv, ~executor, SerialInv, OneAtATime', StoreShares
  PROVE  SerialInv'
<1> DEFINE r == store.req
           b == store.ids[1]
           n == Len(table[r])
           x == <<r, n + 1>>
<1>0. /\ store.at = "share" /\ pool' = IncrementRef(pool, b)
      /\ table' = [table EXCEPT ![r] = Append(table[r], b)] /\ Moves("next", <<>>)
      /\ UNCHANGED <<phase, loaded, fetch>>
  BY DEF StoreShares
<1>1. /\ fetch = NoFetch /\ r \in Holders /\ r \in Requests /\ PoolOK(pool) /\ pool \in Pools
      /\ n \in Nat
      /\ store \in [req : Requests \cup {NoRequest}, at : StorePlaces, ids : Seq(Blocks)]
  BY <1>0, StoreAlone DEF PoolOK
<1>2. b \in pool.allocated /\ pool.hash[b] = Chain[r][n + 1]
  BY <1>0 DEF SerialInv, FoundOK, NextHash
<1>3. b \in Blocks
  BY <1>1, <1>2, PoolFields
<1> HIDE DEF b, r
<1>4. /\ HeldPlaces' = HeldPlaces \cup {x} /\ x \notin HeldPlaces /\ BlockAt(table', x) = b
      /\ \A c \in HeldPlaces : BlockAt(table', c) = BlockAt(table, c)
  BY <1>0, <1>1, <1>3, OneMorePlace
<1> HIDE DEF n, x
<1>5. RefsOnly(pool, pool')
  BY <1>0, <1>1, <1>3, RefSteps
<1>6. IndexOK(pool') /\ pool'.hash = pool.hash
  BY <1>1, <1>5, RefsOnlyKeeps DEF SerialInv, RefsOnly
<1>7. Counted(pool', HeldPlaces', table')
  BY <1>0, <1>1, <1>2, <1>4, ClaimBegins DEF SerialInv
<1>8. store'.at = "next"
  BY <1>0, <1>1 DEF Moves
<1>9. PlacesOK'
  <2> SUFFICES ASSUME NEW c \in HeldPlaces' PROVE pool'.hash[BlockAt(table', c)] = Chain[c[1]][c[2]]
    BY DEF PlacesOK
  <2>1. CASE c = x
    BY <1>2, <1>4, <1>6, <2>1 DEF x
  <2>2. CASE c \in HeldPlaces
    BY <1>0, <1>4, <1>6, <2>2 DEF SerialInv, PlacesOK, Fresh
  <2> QED BY <1>4, <2>1, <2>2
<1>10. FoundOK'
  BY <1>0, <1>1, <1>8 DEF FoundOK, NoFetch
<1> QED BY <1>0, <1>6, <1>7, <1>9, <1>10 DEF SerialInv

(* A store that allocates a block: nobody refers to it and the index does  *)
(* not lead to it.                                                         *)
LEMMA AllocatesKeepSerial ==
  ASSUME CacheInv, ~executor, SerialInv, OneAtATime', StoreAllocates
  PROVE  SerialInv'
<1> DEFINE r == store.req
           b == Head(pool.free)
           n == Len(table[r])
           x == <<r, n + 1>>
<1>0. /\ store.at = "allocate" /\ pool' = Allocate(pool) /\ pool.free # <<>>
      /\ table' = [table EXCEPT ![r] = Append(table[r], b)] /\ Moves("register", <<b>>)
      /\ UNCHANGED <<phase, loaded, fetch>>
  BY DEF StoreAllocates
<1>1. /\ fetch = NoFetch /\ r \in Holders /\ r \in Requests /\ PoolOK(pool) /\ n \in Nat
      /\ store \in [req : Requests \cup {NoRequest}, at : StorePlaces, ids : Seq(Blocks)]
  BY <1>0, StoreAlone
<1>2. /\ b \in Blocks \ pool.allocated /\ \A c \in Blocks \ {b} : pool'.hash[c] = pool.hash[c]
      /\ IndexOK(pool') /\ \A h \in Hashes : b \notin Range(pool'.index[h])
  BY <1>0, <1>1, AllocateFacts DEF SerialInv
<1>3. b = Head(pool.free)
  OBVIOUS
<1> HIDE DEF b, r
<1>4. /\ HeldPlaces' = HeldPlaces \cup {x} /\ x \notin HeldPlaces /\ BlockAt(table', x) = b
      /\ \A c \in HeldPlaces : BlockAt(table', c) = BlockAt(table, c)
      /\ Len(table'[r]) = n + 1 /\ Last(table'[r]) = b
  BY <1>0, <1>1, <1>2, OneMorePlace
<1> HIDE DEF n, x
<1>5. Counted(pool', HeldPlaces', table')
  BY <1>0, <1>1, <1>3, <1>4, ClaimBegins DEF SerialInv
<1>6. store'.at = "register" /\ store'.req = r /\ store'.ids = <<b>> /\ store'.ids[1] = b
  BY <1>0, <1>1 DEF Moves, r
<1>7. ASSUME NEW c \in HeldPlaces
      PROVE  /\ BlockAt(table', c) = BlockAt(table, c) /\ BlockAt(table, c) # b
             /\ pool'.hash[BlockAt(table, c)] = Chain[c[1]][c[2]]
  <2>1. BlockAt(table, c) \in pool.allocated
    BY DEF SerialInv, Counted
  <2>2. BlockAt(table, c) \in Blocks \ {b}
    BY <1>1, <1>2, <2>1, PoolFields DEF PoolOK
  <2>3. pool.hash[BlockAt(table, c)] = Chain[c[1]][c[2]]
    BY <1>0 DEF SerialInv, PlacesOK, Fresh
  <2> QED BY <1>2, <1>4, <2>2, <2>3
<1>8. x = <<store'.req, Len(table'[store'.req])>>
  BY <1>4, <1>6 DEF x
<1>9. PlacesOK'
  BY <1>4, <1>6, <1>7, <1>8 DEF PlacesOK, Fresh
<1>10. FoundOK'
  <2>1. fetch'.ids = <<>>
    BY <1>0, <1>1 DEF NoFetch
  <2>2. ASSUME NEW c \in HeldPlaces', BlockAt(table', c) = b PROVE c = x
    BY <1>4, <1>7, <2>2
  <2> QED BY <1>2, <1>4, <1>6, <1>8, <2>1, <2>2 DEF FoundOK, Fresh
<1> QED BY <1>0, <1>2, <1>5, <1>9, <1>10 DEF SerialInv

(* A store that registers the block it allocated.                          *)
LEMMA RegistersKeepSerial ==
  ASSUME CacheInv, ~executor, SerialInv, OneAtATime', StoreRegisters
  PROVE  SerialInv'
<1> DEFINE r == store.req
           b == store.ids[1]
           n == Len(table[r])
           h == Chain[r][n]
           x == <<r, n>>
<1>0. /\ store.at = "register" /\ pool' = Register(pool, b, h) /\ Moves("save", store.ids)
      /\ UNCHANGED <<phase, table, loaded, fetch>>
  BY DEF StoreRegisters
<1>1. /\ fetch = NoFetch /\ r \in Holders /\ PoolOK(pool)
      /\ table[r] \in Seq(Blocks) /\ Chain[r] \in Seq(Hashes) /\ n <= Len(Chain[r]) /\ n \in Nat
      /\ Len(Chain[r]) \in Nat
      /\ store \in [req : Requests \cup {NoRequest}, at : StorePlaces, ids : Seq(Blocks)]
  BY <1>0, StoreAlone
<1>2. n > 0 /\ b = table[r][n]
  BY <1>0 DEF CacheInv, StoreOK, SerialInv, FoundOK, Last
<1>3. n \in 1..n /\ n \in 1..Len(Chain[r])
  <2> HIDE DEF n
  <2> QED BY <1>1, <1>2
<1>4. x \in HeldPlaces /\ BlockAt(table, x) = b
  BY <1>1, <1>2, <1>3, OwnPlaces DEF BlockAt
<1>5. b \in pool.allocated /\ b \in Blocks /\ h \in Hashes
  <2>1. b \in pool.allocated
    BY <1>4 DEF SerialInv, Counted
  <2> QED BY <1>1, <1>3, <2>1, PoolFields, ElementOfSeq DEF PoolOK
<1>6. \A k \in Hashes : b \notin Range(pool.index[k])
  BY <1>0 DEF SerialInv, FoundOK
<1>7. \A c \in HeldPlaces : /\ BlockAt(table, c) = b => c = x
                            /\ c = x \/ pool.hash[BlockAt(table, c)] = Chain[c[1]][c[2]]
  BY <1>0 DEF SerialInv, FoundOK, PlacesOK, Fresh
<1> HIDE DEF b, h, n
<1>8. /\ pool'.refs = pool.refs /\ pool'.allocated = pool.allocated
      /\ pool'.hash = [pool.hash EXCEPT ![b] = h] /\ IndexOK(pool')
  BY <1>0, <1>1, <1>5, <1>6, RegisterFacts DEF SerialInv
<1>9. pool.hash \in [Blocks -> Hashes \cup {NoHash}]
  BY <1>1, PoolFields DEF PoolOK
<1>10. HeldPlaces' = HeldPlaces
  BY <1>0 DEF HeldPlaces, Places, Holders
<1>11. Counted(pool', HeldPlaces', table')
  BY <1>0, <1>8, <1>10, ClaimsStay DEF SerialInv
<1>12. store'.at = "save" /\ store'.req = r /\ store'.ids = store.ids
  BY <1>0, <1>1 DEF Moves
<1>13. PlacesOK'
  <2> SUFFICES ASSUME NEW c \in HeldPlaces PROVE pool'.hash[BlockAt(table, c)] = Chain[c[1]][c[2]]
    BY <1>0, <1>10 DEF PlacesOK
  <2>1. CASE c = x
    BY <1>4, <1>5, <1>8, <1>9, <2>1 DEF h
  <2>2. CASE c # x
    <3>1. BlockAt(table, c) # b /\ pool.hash[BlockAt(table, c)] = Chain[c[1]][c[2]]
      BY <1>7, <2>2
    <3>2. BlockAt(table, c) \in Blocks
      BY <1>1, PoolFields DEF SerialInv, Counted, PoolOK
    <3> QED BY <1>8, <1>9, <3>1, <3>2
  <2> QED BY <2>1, <2>2
<1>14. FoundOK'
  <2>1. store.ids[1] = Last(table[store.req])
    BY <1>0 DEF SerialInv, FoundOK
  <2> QED BY <1>0, <1>1, <1>12, <2>1 DEF FoundOK, NoFetch
<1> QED BY <1>0, <1>8, <1>11, <1>13, <1>14 DEF SerialInv

(* A block whose data cannot be saved is rolled back; the end of a store.  *)
LEMMA StoreEndsKeepSerial ==
  ASSUME CacheInv, ~executor, SerialInv, OneAtATime',
         StoreFailsToSave \/ StoreReleases \/ StoreFails
  PROVE  SerialInv'
<1> USE RequestAssumption
<1> DEFINE r == store.req
           m == Len(table[r])
<1>0. store.at # "idle" /\ store.at # "register"
  BY DEF StoreFailsToSave, StoreReleases, StoreFails
<1>1. /\ fetch = NoFetch /\ r \in Holders /\ r \in Requests /\ PoolOK(pool) /\ m \in Nat
      /\ 0 \in 0..m /\ phase \in [Requests -> Phases] /\ table \in [Requests -> Seq(Blocks)]
      /\ table[r] \in Seq(Blocks)
      /\ store \in [req : Requests \cup {NoRequest}, at : StorePlaces, ids : Seq(Blocks)]
      /\ loaded \in [Requests -> Seq(Hashes)] /\ \A q \in Requests : IsPrefix(loaded[q], Chain[q])
  BY <1>0, StoreAlone DEF SerialInv
<1>2. CASE StoreFailsToSave
  <2> DEFINE b == store.ids[1]
             n == m - 1
             x == <<r, m>>
  <2>1. /\ store.at = "save" /\ pool' = Free(pool, b) /\ Moves("release", <<>>)
        /\ table' = [table EXCEPT ![r] = Front(table[r])]
        /\ UNCHANGED <<phase, loaded, fetch>>
    BY <1>2 DEF StoreFailsToSave
  <2>2. m > 0 /\ b = table[r][m]
    BY <2>1 DEF CacheInv, StoreOK, SerialInv, FoundOK, Last
  <2>3. m \in 1..m /\ n \in 0..m /\ m - n = 1 /\ n + 1 = m /\ n \in Nat
    <3>1. m \in Nat /\ m > 0
      BY <1>1, <2>2
    <3> HIDE DEF m
    <3> QED BY <3>1
  <2>4. x \in HeldPlaces /\ BlockAt(table, x) = b
    BY <1>1, <2>2, <2>3, OwnPlaces DEF BlockAt
  <2>5. b \in Blocks
    BY <1>1, <2>4, PoolFields DEF SerialInv, Counted, PoolOK
  <2>6. Len(table'[r]) = n /\ \A i \in 1..n : table'[r][i] = table[r][i]
    <3>1. table'[r] = SubSeq(table[r], 1, n)
      BY <1>1, <2>1 DEF Front
    <3>2. \A i \in 1..n : i \in 1..m
      <4> HIDE DEF m
      <4> QED BY <1>1, <2>3
    <3>3. \A i \in 1..n : table[r][i] \in Blocks
      BY <1>1, <3>2, ElementOfSeq
    <3> DEFINE t == table[r]
    <3>4. n \in Nat /\ t \in Seq(Blocks) /\ \A i \in 1..n : t[i] \in Blocks
      BY <1>1, <2>3, <3>3
    <3> HIDE DEF n, t
    <3>5. Len(SubSeq(t, 1, n)) = n /\ \A i \in 1..n : SubSeq(t, 1, n)[i] = t[i]
      BY <3>4, SubSeqProperties
    <3> QED BY <3>1, <3>5 DEF t
  <2> HIDE DEF n, b
  <2>7. /\ HeldPlaces' = HeldPlaces \ Stretch(r, n, m - n)
        /\ \A c \in HeldPlaces' : BlockAt(table', c) = BlockAt(table, c)
    <3>1. \A q \in Requests \ {r} : table'[q] = table[q] /\ phase'[q] = phase[q]
      BY <1>1, <2>1
    <3>2. r \in Holders'
      BY <1>1, <2>1 DEF Holders
    <3> QED BY <1>1, <2>3, <2>6, <3>1, <3>2, FewerPlaces
  <2> HIDE DEF m
  <2>8. Stretch(r, n, m - n) = {x}
    <3>1. (n + 1)..(n + (m - n)) = {m}
      BY <2>3, <1>1
    <3> QED BY <3>1 DEF Stretch
  <2>9. IndexOK(pool') /\ pool'.hash = pool.hash
    BY <1>1, <2>1, <2>5, FreeKeeps DEF SerialInv
  <2>10. Counted(pool', HeldPlaces \ {x}, table)
    BY <1>1, <2>1, <2>4, ClaimEnds DEF SerialInv
  <2>11. store'.at = "release"
    BY <1>1, <2>1 DEF Moves
  <2> QED BY <1>0, <1>1, <2>1, <2>7, <2>8, <2>9, <2>10, <2>11, FewerKeepSerial
<1>3. CASE StoreReleases
  <2>1. /\ pool' = ReleaseForEviction(pool, table[r]) /\ UNCHANGED <<table, loaded, fetch>>
        /\ phase' = [phase EXCEPT ![r] = "over"] /\ store' = NoStore
    BY <1>3 DEF StoreReleases
  <2>2. /\ IndexOK(pool') /\ pool'.hash = pool.hash
        /\ Counted(pool', HeldPlaces \ Stretch(r, 0, m), table)
    BY <1>1, <2>1, GivesUpAll
  <2>3. /\ HeldPlaces' = HeldPlaces \ Stretch(r, 0, m - 0)
        /\ \A c \in HeldPlaces' : BlockAt(table', c) = BlockAt(table, c)
    <3>1. \A q \in Requests \ {r} : table'[q] = table[q] /\ phase'[q] = phase[q]
      BY <1>1, <2>1
    <3>2. r \notin Holders'
      BY <1>1, <2>1 DEF Holders
    <3> QED BY <1>1, <3>1, <3>2, FewerPlaces
  <2>4. m - 0 = m /\ store'.at = "idle"
    BY <1>1, <2>1 DEF NoStore
  <2> HIDE DEF m
  <2> QED BY <1>0, <1>1, <2>1, <2>2, <2>3, <2>4, FewerKeepSerial
<1>4. CASE StoreFails
  <2>1. /\ UNCHANGED <<pool, table, loaded, fetch>> /\ store' = NoStore
        /\ phase' = [phase EXCEPT ![r] = "failed"]
    BY <1>4 DEF StoreFails
  <2>2. Holders' = Holders
    BY <1>1, <2>1 DEF Holders
  <2>3. HeldPlaces' = HeldPlaces
    BY <2>1, <2>2, SamePlaces
  <2>4. store'.at = "idle"
    BY <2>1 DEF NoStore
  <2> QED BY <1>0, <1>1, <2>1, <2>3, <2>4, FewerKeepSerial DEF SerialInv
<1> QED BY <1>2, <1>3, <1>4

(* Storing on the inference thread: the invariant of the pool, the index,  *)
(* the references and what is loaded.                                      *)
LEMMA SerialInvariant == Spec => [](~executor => SerialInv)
<1> USE RequestAssumption
<1>1. Init => SerialInv
  <2> SUFFICES ASSUME Init PROVE SerialInv
    OBVIOUS
  <2>1. /\ pool = NewPool /\ fetch = NoFetch /\ queue = <<>> /\ store = NoStore
        /\ store.at = "idle" /\ store.req = NoRequest /\ fetch.ids = <<>> /\ Len(<<>>) = 0
    BY DEF Init, NoFetch, NoStore
  <2>2. HeldPlaces = {}
    <3>1. Holders = {}
      BY DEF Init, Holders
    <3> QED BY <3>1, PlaceIn DEF HeldPlaces, Places
  <2>3. Counted(pool, HeldPlaces, table)
    <3>1. IsFiniteSet({}) /\ Cardinality({}) = 0
      BY FS_EmptySet
    <3>2. \A b \in Blocks : ClaimsIn(HeldPlaces, table, b) = {}
      BY <2>2 DEF ClaimsIn
    <3>3. \A b \in Blocks : pool.refs[b] = 0
      BY <2>1 DEF NewPool
    <3> QED BY <2>2, <3>1, <3>2, <3>3 DEF Counted
  <2>4. loaded \in [Requests -> Seq(Hashes)] /\ \A r \in Requests : IsPrefix(loaded[r], Chain[r])
    <3>1. loaded = [r \in Requests |-> <<>>] /\ <<>> \in Seq(Hashes)
      BY EmptySeq DEF Init
    <3>2. ASSUME NEW r \in Requests PROVE IsPrefix(<<>>, Chain[r])
      <4>1. Len(Chain[r]) \in Nat /\ Chain[r] \in Seq(Hashes)
        BY LenProperties
      <4>2. Len(<<>>) <= Len(Chain[r]) /\ \A i \in 1..Len(<<>>) : <<>>[i] = Chain[r][i]
        BY <2>1, <4>1
      <4> QED BY <3>1, <4>1, <4>2, PrefixBy
    <3> QED BY <3>1, <3>2
  <2>5. OneAtATime
    BY <2>1 DEF OneAtATime, NoFetch
  <2>6. PlacesOK /\ FoundOK
    BY <2>1, <2>2 DEF PlacesOK, FoundOK
  <2> QED BY <2>1, <2>3, <2>4, <2>5, <2>6, NewPoolOK DEF SerialInv
<1>2. CacheInv /\ (~executor => SerialInv) /\ [Next]_vars => (~executor => SerialInv)'
  <2> SUFFICES ASSUME CacheInv, ~executor => SerialInv, [Next]_vars, ~executor' PROVE SerialInv'
    OBVIOUS
  <2>1. executor' = executor
    BY DEF Next, FindSharedPrefix, FullPrefill, Reject, Abort, Finish, SubmitFails,
           ClaimBlock, AcquireBlock, Reconstruct, StoreFails,
           StoreBegins, StoreFinds, StoreShares, StoreAllocates, StoreOutOfBlocks, StoreRegisters,
           StoreSaves, StoreFailsToSave, StoreReleases, SsdLoses, vars
  <2>2. ~executor /\ SerialInv
    BY <2>1
  <2>3. CASE (\E h \in Hashes : SsdLoses(h)) \/ UNCHANGED vars
    <3>1. UNCHANGED <<pool, phase, table, loaded, fetch, queue, store>>
      BY <2>3 DEF SsdLoses, vars
    <3>2. HeldPlaces' = HeldPlaces
      BY <3>1 DEF HeldPlaces, Places, Holders
    <3>3. OneAtATime' /\ PlacesOK' /\ FoundOK'
      BY <2>2, <3>1, <3>2 DEF SerialInv, OneAtATime, PlacesOK, FoundOK, Fresh, NextHash
    <3> QED BY <2>2, <3>1, <3>2, <3>3 DEF SerialInv
  <2>4. CASE Next
    <3>1. OneAtATime'
      BY <2>2, <2>4, OneStays DEF SerialInv
    <3> QED BY <2>2, <2>3, <2>4, <3>1, FindKeepsSerial, EndKeepsSerial, ClaimKeepsSerial,
               AcquireKeepsSerial, ReconstructKeepsSerial, StoreLooks, SharesKeepSerial, AllocatesKeepSerial,
               RegistersKeepSerial, StoreEndsKeepSerial DEF Next
  <2> QED BY <2>3, <2>4
<1> QED BY <1>1, <1>2, CacheInvariant, PTL DEF Spec

-----------------------------------------------------------------------------
(* A block is either free, once, or allocated, with both threads at work;  *)
(* without the store thread the index of BlockHashToBlockMap leads only to *)
(* allocated blocks that hold the hash it was asked for.                   *)
THEOREM PoolAlwaysConsistent == Spec => []PoolConsistent
<1>1. CacheInv /\ (~executor => SerialInv) => PoolConsistent
  <2> SUFFICES ASSUME CacheInv, ~executor => SerialInv PROVE PoolConsistent
    OBVIOUS
  <2> DEFINE f == pool.free
             n == Len(f)
             S == Blocks \ pool.allocated
  <2>1. PoolOK(pool) /\ f \in Seq(Blocks) /\ n \in Nat /\ f \in [1..n -> Blocks]
    BY CacheFacts, PoolFields, LenProperties
  <2>2. Range(f) = S /\ IsInjective(f)
    BY <2>1 DEF PoolOK
  <2>3. f \in Bijection(1..n, S)
    <3>1. DOMAIN f = 1..n /\ \A i \in 1..n : f[i] \in S
      BY <2>1, <2>2 DEF Range
    <3>2. f \in [1..n -> S]
      BY <2>1, <3>1
    <3>3. \A b \in S : \E i \in 1..n : f[i] = b
      BY <2>2, <3>1 DEF Range
    <3> QED BY <2>2, <3>2, <3>3 DEF Bijection, Injection, Surjection
  <2> HIDE DEF f, n, S
  <2>4. Cardinality(S) = n
    BY <2>1, <2>3, FS_CountingElements DEF ExistsBijection
  <2> QED BY <2>2, <2>4 DEF PoolConsistent, SerialInv, IndexOK, f, n, S
<1> QED BY <1>1, CacheInvariant, SerialInvariant, PTL

(* The places of live and of leaking requests are those of all holders.    *)
LEMMA HeldByEither ==
  ASSUME NEW b, IsFiniteSet(HeldPlaces)
  PROVE  Cardinality(ClaimsIn(HeldPlaces, table, b)) = References(Live, b) + References(Leaking, b)
<1> DEFINE In(R) == {c \in Places(R) : BlockAt(table, c) = b}
<1>1. \A R : References(R, b) = Cardinality(In(R))
  BY DEF References, BlockAt
<1>2. Holders = Live \cup Leaking /\ Live \cap Leaking = {}
  BY DEF Holders, Live, Leaking
<1>3. ClaimsIn(HeldPlaces, table, b) = In(Live) \cup In(Leaking)
  BY <1>2, PlaceIn DEF HeldPlaces, Places, ClaimsIn
<1>4. In(Live) \cap In(Leaking) = {}
  <2>1. \A R : \A c \in Places(R) : c[1] \in R
    BY PlaceIn DEF Places
  <2> QED BY <1>2, <2>1
<1>5. IsFiniteSet(In(Live)) /\ IsFiniteSet(In(Leaking))
  <2>1. In(Live) \in SUBSET HeldPlaces /\ In(Leaking) \in SUBSET HeldPlaces
    BY <1>3 DEF ClaimsIn
  <2> HIDE DEF In
  <2> QED BY <2>1, FS_Subset
<1> HIDE DEF In
<1>6. Cardinality(In(Live)) \in Nat /\ Cardinality(In(Leaking)) \in Nat
  BY <1>5, FS_CardinalityType
<1>7. Cardinality(In(Live) \cup In(Leaking))
        = Cardinality(In(Live)) + Cardinality(In(Leaking)) - Cardinality({})
  BY <1>4, <1>5, FS_Union
<1>8. Cardinality({}) = 0
  BY FS_EmptySet
<1> QED BY <1>1, <1>3, <1>6, <1>7, <1>8

(* When the inference thread stores the requests itself, the references of *)
(* a block are exactly those of live requests and those that rejected      *)
(* requests and stores that raised left behind (free_block, increment_ref, *)
(* acquire_cached_block and release_for_eviction as fetch_cache,           *)
(* reconstruct_cache, store_cache and the scheduler call them).            *)
THEOREM ReferencesAccounted == Spec => []RefsAccounted
<1>1. (~executor => SerialInv) => RefsAccounted
  BY HeldByEither DEF RefsAccounted, SerialInv, Counted
<1> QED BY <1>1, SerialInvariant, PTL

(* ... and what reconstruct_cache loads for a request is a prefix of its   *)
(* own chain, however blocks were evicted, restored and shared before.     *)
THEOREM SerialPrefixHeld == Spec => []SerialPrefixOnly
<1>1. (~executor => SerialInv) => SerialPrefixOnly
  BY DEF SerialPrefixOnly, OwnPrefixOnly, SerialInv
<1> QED BY <1>1, SerialInvariant, PTL
=============================================================================
