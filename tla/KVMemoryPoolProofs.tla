------------------------- MODULE KVMemoryPoolProofs -------------------------
(***************************************************************************)
(* What the pool's calls do to the free list and the counts, for every     *)
(* capacity and page size.  The scheduler's proofs use these lemmas        *)
(* instead of the definitions.                                             *)
(***************************************************************************)
EXTENDS KVMemoryPool, SequenceLemmas, FiniteSetTheorems

\* pages_needed rounds up: the pages hold every one of the tokens, and fewer
\* pages would not (kv_memory_pool.py, pages_needed).
LEMMA PagesNeededCovers ==
    ASSUME NEW n \in Nat
    PROVE  /\ PagesNeeded(n) \in Nat
           /\ n <= PagesNeeded(n) * PageSize
           /\ PagesNeeded(n) * PageSize < n + PageSize
BY PoolAssumption DEF PagesNeeded

\* Every element of a sequence is kept when every position is.
LEMMA SubsequenceAll ==
    ASSUME NEW S, NEW s \in Seq(S)
    PROVE  Subsequence(s, DOMAIN s) = s
<1> DEFINE I == 1 .. Len(s)
           rank(i) == Cardinality({j \in I : j <= i})
<1>1. Len(s) \in Nat /\ DOMAIN s = I
  OBVIOUS
<1>2. ASSUME NEW n \in Nat PROVE Cardinality(1 .. n) = n
  <2>1. Cardinality(1 .. n) = IF 1 > n THEN 0 ELSE n - 1 + 1
    BY FS_Interval
  <2> QED BY <2>1
<1>3. ASSUME NEW i \in I PROVE rank(i) = i
  <2>1. {j \in I : j <= i} = 1 .. i
    BY <1>1
  <2>2. i \in Nat
    BY <1>1
  <2> QED BY <2>1, <2>2, <1>2
<1>4. ASSUME NEW k \in I
      PROVE  (CHOOSE i \in I : rank(i) = k) = k
  <2>1. \A i \in I : rank(i) = k <=> i = k
    BY <1>3
  <2> HIDE DEF rank
  <2> QED BY <2>1
<1>5. Subsequence(s, I) = [k \in I |-> s[CHOOSE i \in I : rank(i) = k]]
  BY <1>1, <1>2 DEF Subsequence
<1> HIDE DEF rank
<1>6. Subsequence(s, I) = [k \in I |-> s[k]]
  BY <1>4, <1>5
<1> QED BY <1>1, <1>6

\* Some of the positions: their elements, each once if the sequence has it once.
LEMMA SubsequenceRange ==
    ASSUME NEW S, NEW s \in Seq(S), NEW I \in SUBSET DOMAIN s
    PROVE  /\ Subsequence(s, I) \in Seq(S)
           /\ Range(Subsequence(s, I)) = {s[i] : i \in I}
           /\ IsInjective(s) => IsInjective(Subsequence(s, I))
<1> DEFINE n == Cardinality(I)
           upTo(i) == {j \in I : j <= i}
           rank == [i \in I |-> Cardinality(upTo(i))]
           at(k) == CHOOSE i \in I : Cardinality(upTo(i)) = k
<1>1. DOMAIN s = 1 .. Len(s) /\ I \subseteq Nat
  OBVIOUS
<1>2. IsFiniteSet(I) /\ n \in Nat
  <2>1. IsFiniteSet(1 .. Len(s))
    BY FS_Interval
  <2>2. IsFiniteSet(I)
    BY <1>1, <2>1, FS_Subset
  <2> QED BY <2>2, FS_CardinalityType
<1>3. ASSUME NEW i \in I
      PROVE  /\ upTo(i) \in SUBSET I /\ IsFiniteSet(upTo(i)) /\ i \in upTo(i)
             /\ Cardinality(upTo(i)) \in 1 .. n
  <2>1. upTo(i) \in SUBSET I /\ i \in upTo(i)
    BY <1>1
  <2> HIDE DEF upTo
  <2>2. IsFiniteSet(upTo(i)) /\ Cardinality(upTo(i)) <= n
    BY <1>2, <2>1, FS_Subset
  <2>3. Cardinality(upTo(i)) \in Nat /\ Cardinality(upTo(i)) # 0
    BY <2>1, <2>2, FS_CardinalityType, FS_EmptySet
  <2> HIDE DEF n
  <2> QED BY <1>2, <2>1, <2>2, <2>3
<1>4. ASSUME NEW i \in I, NEW k \in I, i < k
      PROVE  Cardinality(upTo(i)) # Cardinality(upTo(k))
  <2>1. upTo(i) \in SUBSET upTo(k) /\ k \notin upTo(i)
    BY <1>1, <1>4
  <2>2. k \in upTo(k) /\ IsFiniteSet(upTo(k))
    BY <1>3
  <2> HIDE DEF upTo
  <2> QED BY <2>1, <2>2, FS_Subset
<1>5. ASSUME NEW i \in I, NEW k \in I, Cardinality(upTo(i)) = Cardinality(upTo(k))
      PROVE  i = k
  <2>1. i < k \/ k < i \/ i = k
    BY <1>1
  <2> HIDE DEF upTo
  <2> QED BY <2>1, <1>4, <1>5
<1> HIDE DEF upTo
<1>6. \A k \in 1 .. n : \E i \in I : Cardinality(upTo(i)) = k
  <2>1. rank \in Injection(I, 1 .. n)
    BY <1>3, <1>5 DEF Injection, IsInjective
  <2> HIDE DEF rank
  <2>2. IsFiniteSet(1 .. n) /\ Cardinality(1 .. n) = n
    <3>1. 1 \in Int /\ n \in Int /\ n \in Nat
      BY <1>2
    <3> HIDE DEF n
    <3>2. /\ IsFiniteSet(1 .. n)
          /\ Cardinality(1 .. n) = IF 1 > n THEN 0 ELSE n - 1 + 1
      BY <3>1, FS_Interval
    <3> QED BY <3>1, <3>2
  <2>3. rank \in Surjection(I, 1 .. n)
    BY <2>1, <2>2, FS_Injection
  <2>4. \A k \in 1 .. n : \E i \in I : rank[i] = k
    BY <2>3 DEF Surjection
  <2> QED BY <2>4 DEF rank
<1>7. /\ \A k \in 1 .. n : at(k) \in I /\ Cardinality(upTo(at(k))) = k
      /\ \A i \in I : /\ Cardinality(upTo(i)) \in 1 .. n
                      /\ at(Cardinality(upTo(i))) = i
  <2>1. \A k \in 1 .. n : at(k) \in I /\ Cardinality(upTo(at(k))) = k
    BY <1>6
  <2>2. \A i \in I : Cardinality(upTo(i)) \in 1 .. n
    BY <1>3
  <2> HIDE DEF at
  <2> QED BY <2>1, <2>2, <1>5
<1> DEFINE u == [k \in 1 .. n |-> s[at(k)]]
<1>8. Subsequence(s, I) = u
  BY DEF Subsequence, upTo
<1> HIDE DEF at, n
<1>9. u \in Seq(S)
  <2>1. \A k \in 1 .. n : s[at(k)] \in S
    BY <1>1, <1>7
  <2> QED BY <1>2, <2>1
<1>10. Range(u) = {s[i] : i \in I}
  BY <1>7 DEF Range
<1>11. ASSUME IsInjective(s) PROVE IsInjective(u)
  BY <1>7, <1>11 DEF IsInjective
<1> QED BY <1>8, <1>9, <1>10, <1>11

\* What free(pages) puts back: the pages whose last owner lets go, each once.
LEMMA ReleasedPages ==
    ASSUME PoolTypeOK, NEW pages \in Seq(Pages)
    PROVE  /\ Released(pages) \in Seq(Pages)
           /\ Range(Released(pages)) = {p \in Range(pages) : refcount[p] = 1}
           /\ IsInjective(pages) => IsInjective(Released(pages))
<1> DEFINE I == {i \in DOMAIN pages : refcount[pages[i]] = 1}
<1>1. I \in SUBSET DOMAIN pages /\ Released(pages) = Subsequence(pages, I)
  BY DEF Released
<1>2. {pages[i] : i \in I} = {p \in Range(pages) : refcount[p] = 1}
  BY DEF Range
<1> HIDE DEF I
<1> QED BY <1>1, <1>2, SubsequenceRange

\* free() on pages that have one owner each, the only case in this code base as
\* nothing calls acquire(): all of them go to the back of the free list.
LEMMA FreeUnshared ==
    ASSUME PoolTypeOK, NEW pages \in Seq(Pages),
           \A p \in Range(pages) : refcount[p] = 1,
           Free(pages)
    PROVE  /\ free' = free \o pages
           /\ refcount' = [p \in Pages |-> IF p \in Range(pages) THEN 0 ELSE refcount[p]]
<1>1. {i \in DOMAIN pages : refcount[pages[i]] = 1} = DOMAIN pages
  BY DEF Range
<1>2. Released(pages) = pages
  BY <1>1, SubsequenceAll DEF Released
<1>3. Range(pages) \subseteq Pages
  BY RangeType
<1>4. \A p \in Pages : (IF p \in Range(pages) THEN refcount[p] - 1 ELSE refcount[p])
                     = (IF p \in Range(pages) THEN 0 ELSE refcount[p])
  BY <1>3
<1> QED BY <1>2, <1>4 DEF Free

\* allocate(n) cuts the free list in two: the pages it returns, and the rest.
LEMMA AllocateSplits ==
    ASSUME PoolTypeOK, NEW n \in Nat, Allocate(n)
    PROVE  /\ Allocated(n) \in Seq(Pages) /\ Len(Allocated(n)) = n
           /\ free' \in Seq(Pages)
           /\ Range(Allocated(n)) \cup Range(free') = Range(free)
           /\ IsInjective(free) => /\ IsInjective(Allocated(n))
                                   /\ IsInjective(free')
                                   /\ Range(Allocated(n)) \cap Range(free') = {}
           /\ refcount' = [p \in Pages |-> IF p \in Range(Allocated(n)) THEN 1
                                                                      ELSE refcount[p]]
<1>1. free \in Seq(Pages) /\ n <= Len(free)
  BY DEF PoolTypeOK, Allocate, NumFree
<1>2. free' = SubSeq(free, n + 1, Len(free)) /\ Allocated(n) = SubSeq(free, 1, n)
  BY DEF Allocate, NumFree, Allocated
<1>3. refcount' = [p \in Pages |-> IF p \in Range(Allocated(n)) THEN 1 ELSE refcount[p]]
  BY DEF Allocate
<1> QED BY <1>1, <1>2, <1>3, SplitRange

=============================================================================
