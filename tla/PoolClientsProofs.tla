------------------------- MODULE PoolClientsProofs -------------------------
(***************************************************************************)
(* The pool and any finite number of callers that share its pages, for     *)
(* every capacity.                                                         *)
(*                                                                         *)
(* OwnersCounted and FreeListExact are inductive together with TypeOK and  *)
(* with nothing else: the free list gives out pages that are counted as    *)
(* nobody's, and the counts say that no page table lists those.  What a    *)
(* call does to the owners of each page is stated first; the invariant and *)
(* the step of the abstract pool both follow from it.                      *)
(***************************************************************************)
EXTENDS PoolClients, KVMemoryPoolProofs

IInv == TypeOK /\ OwnersCounted /\ FreeListExact

----------------------------------------------------------------------------
\* Owners are finitely many; a page without a count has none, and conversely.
LEMMA OwnersFinite ==
    ASSUME IInv, NEW p \in Pages
    PROVE  /\ IsFiniteSet(OwnersOf(p))
           /\ refcount[p] = Cardinality(OwnersOf(p)) /\ refcount[p] \in Nat
           /\ refcount[p] = 0 <=> OwnersOf(p) = {}
<1>1. OwnersOf(p) \in SUBSET Holders
  BY DEF OwnersOf
<1>2. IsFiniteSet(OwnersOf(p))
  BY <1>1, ClientsAssumption, FS_Subset
<1>3. refcount[p] = Cardinality(OwnersOf(p)) /\ refcount[p] \in Nat
  BY DEF IInv, OwnersCounted, TypeOK, PoolTypeOK
<1> QED BY <1>2, <1>3, FS_EmptySet

\* A page table is a sequence of pages, each of which its holder owns.
LEMMA TableOf ==
    ASSUME IInv, NEW h \in Holders
    PROVE  /\ held[h] \in Seq(Pages) /\ IsInjective(held[h])
           /\ Range(held[h]) \subseteq Pages
           /\ \A p \in Pages : p \in Range(held[h]) <=> h \in OwnersOf(p)
           /\ \A p \in Range(held[h]) : refcount[p] > 0
<1>1. held[h] \in Seq(Pages) /\ IsInjective(held[h])
  BY DEF IInv, TypeOK, OwnersCounted
<1>2. Range(held[h]) \subseteq Pages
  BY <1>1, RangeType
<1>3. \A p \in Pages : p \in Range(held[h]) <=> h \in OwnersOf(p)
  BY DEF OwnersOf
<1>4. ASSUME NEW p \in Range(held[h]) PROVE refcount[p] > 0
  <2>1. p \in Pages /\ OwnersOf(p) # {}
    BY <1>2, <1>3
  <2> QED BY <2>1, OwnersFinite
<1> QED BY <1>1, <1>2, <1>3, <1>4

\* Only the page table of h changes, to t.
LEMMA OwnersAfter ==
    ASSUME IInv, NEW h \in Holders, NEW t \in Seq(Pages), held' = [held EXCEPT ![h] = t]
    PROVE  /\ held' \in [Holders -> Seq(Pages)]
           /\ held'[h] = t
           /\ \A k \in Holders \ {h} : held'[k] = held[k]
           /\ \A p \in Pages :
                 OwnersOf(p)' = IF p \in Range(t) THEN OwnersOf(p) \cup {h}
                                                  ELSE OwnersOf(p) \ {h}
<1>1. /\ held' \in [Holders -> Seq(Pages)] /\ held'[h] = t
      /\ \A k \in Holders \ {h} : held'[k] = held[k]
  BY DEF IInv, TypeOK
<1>2. ASSUME NEW p \in Pages
      PROVE  OwnersOf(p)' = IF p \in Range(t) THEN OwnersOf(p) \cup {h}
                                              ELSE OwnersOf(p) \ {h}
  BY <1>1 DEF OwnersOf
<1> QED BY <1>1, <1>2

----------------------------------------------------------------------------
\* allocate: the pages had no owner, and h is the one they have.
LEMMA ExtendOwners ==
    ASSUME IInv, NEW h \in Holders, NEW n \in Nat, Extend(h, n)
    PROVE  \A p \in Pages :
              /\ p \in Range(Allocated(n)) => OwnersOf(p) = {} /\ OwnersOf(p)' = {h}
              /\ p \notin Range(Allocated(n)) => OwnersOf(p)' = OwnersOf(p)
<1> DEFINE new == Allocated(n)
           t == held[h] \o new
<1>1. /\ new \in Seq(Pages) /\ Range(new) \subseteq Range(free)
  BY AllocateSplits DEF Extend, IInv, TypeOK
<1>2. held' = [held EXCEPT ![h] = t]
  BY DEF Extend
<1>3. held[h] \in Seq(Pages) /\ \A p \in Pages : p \in Range(held[h]) <=> h \in OwnersOf(p)
  BY TableOf
<1> HIDE DEF new
<1>4. t \in Seq(Pages) /\ Range(t) = Range(held[h]) \cup Range(new)
  BY <1>1, <1>3, ConcatRange
<1> HIDE DEF t
<1>5. \A p \in Pages :
         OwnersOf(p)' = IF p \in Range(t) THEN OwnersOf(p) \cup {h} ELSE OwnersOf(p) \ {h}
  BY <1>2, <1>4, OwnersAfter
<1>6. ASSUME NEW p \in Pages, p \in Range(new) PROVE OwnersOf(p) = {}
  <2>1. refcount[p] = 0
    BY <1>1, <1>6 DEF IInv, FreeListExact
  <2> QED BY <2>1, OwnersFinite
<1>7. ASSUME NEW p \in Pages
      PROVE  /\ p \in Range(new) => OwnersOf(p) = {} /\ OwnersOf(p)' = {h}
             /\ p \notin Range(new) => OwnersOf(p)' = OwnersOf(p)
  <2>1. CASE p \in Range(new)
    BY <1>4, <1>5, <1>6, <2>1
  <2>2. CASE p \notin Range(new)
    <3>1. p \in Range(t) <=> h \in OwnersOf(p)
      BY <1>3, <1>4, <2>2
    <3>2. CASE p \in Range(t)
      BY <1>5, <2>2, <3>1, <3>2
    <3>3. CASE p \notin Range(t)
      BY <1>5, <2>2, <3>1, <3>3
    <3> QED BY <3>2, <3>3
  <2> QED BY <2>1, <2>2
<1> QED BY <1>7 DEF new

\* The calls keep the invariant: allocate.
LEMMA ExtendPreserves ==
    ASSUME IInv, NEW h \in Holders, NEW n \in Nat, Extend(h, n)
    PROVE  IInv'
<1> DEFINE new == Allocated(n)
           t == held[h] \o new
<1>1. IsInjective(free) /\ Range(free) = {p \in Pages : refcount[p] = 0}
  BY DEF IInv, FreeListExact
<1>2. /\ new \in Seq(Pages) /\ free' \in Seq(Pages)
      /\ Range(new) \cup Range(free') = Range(free)
      /\ IsInjective(new) /\ IsInjective(free') /\ Range(new) \cap Range(free') = {}
      /\ refcount' = [p \in Pages |-> IF p \in Range(new) THEN 1 ELSE refcount[p]]
  BY <1>1, AllocateSplits DEF Extend, IInv, TypeOK
<1>3. \A p \in Pages :
         /\ p \in Range(new) => OwnersOf(p) = {} /\ OwnersOf(p)' = {h}
         /\ p \notin Range(new) => OwnersOf(p)' = OwnersOf(p)
  BY ExtendOwners
<1>4. held' = [held EXCEPT ![h] = t]
  BY DEF Extend
<1> HIDE DEF new
<1>5. /\ held[h] \in Seq(Pages) /\ IsInjective(held[h])
      /\ Range(held[h]) \cap Range(new) = {}
  <2>1. /\ held[h] \in Seq(Pages) /\ IsInjective(held[h]) /\ Range(held[h]) \subseteq Pages
        /\ \A p \in Pages : p \in Range(held[h]) <=> h \in OwnersOf(p)
    BY TableOf
  <2> QED BY <2>1, <1>3
<1>6. t \in Seq(Pages) /\ IsInjective(t)
  BY <1>2, <1>5, ConcatRange
<1> HIDE DEF t
<1>7. /\ held' \in [Holders -> Seq(Pages)] /\ held'[h] = t
      /\ \A k \in Holders \ {h} : held'[k] = held[k]
  BY <1>4, <1>6, OwnersAfter
<1>8. TypeOK'
  <2>1. refcount' \in [Pages -> Nat]
    BY <1>2 DEF IInv, TypeOK, PoolTypeOK
  <2> QED BY <1>2, <1>7, <2>1 DEF TypeOK, PoolTypeOK
<1>9. OwnersCounted'
  <2>1. ASSUME NEW p \in Pages PROVE refcount'[p] = Cardinality(OwnersOf(p)')
    <3>1. CASE p \in Range(new)
      <4>1. refcount'[p] = 1 /\ OwnersOf(p)' = {h}
        BY <1>2, <1>3, <3>1
      <4> QED BY <4>1, FS_Singleton
    <3>2. CASE p \notin Range(new)
      <4>1. refcount'[p] = refcount[p] /\ OwnersOf(p)' = OwnersOf(p)
        BY <1>2, <1>3, <3>2
      <4> QED BY <4>1, OwnersFinite
    <3> QED BY <3>1, <3>2
  <2>2. \A k \in Holders : IsInjective(held'[k])
    BY <1>6, <1>7, TableOf
  <2> QED BY <2>1, <2>2 DEF OwnersCounted, Pages
<1>10. FreeListExact'
  <2>1. Range(free') = {p \in Pages : refcount'[p] = 0}
    BY <1>1, <1>2
  <2> QED BY <1>2, <2>1 DEF FreeListExact, Pages
<1> QED BY <1>8, <1>9, <1>10 DEF IInv

\* acquire: a holder without pages becomes an owner of those it is given.
LEMMA SharePreserves ==
    ASSUME IInv, NEW h \in Holders, NEW k \in Holders \ {h}, NEW n \in Nat,
           SharePrefix(h, k, n)
    PROVE  /\ IInv'
           /\ \E S \in SUBSET {p \in Pages : k \in OwnersOf(p)} : \A p \in Pages :
                 OwnersOf(p)' = IF p \in S THEN OwnersOf(p) \cup {h} ELSE OwnersOf(p)
<1> DEFINE t == SubSeq(held[k], 1, n)
<1>1. /\ held[h] = <<>> /\ Acquire(t) /\ held' = [held EXCEPT ![h] = t]
      /\ n <= Len(held[k])
  BY DEF SharePrefix
<1>2. /\ held[k] \in Seq(Pages) /\ IsInjective(held[k])
      /\ \A p \in Pages : p \in Range(held[k]) <=> k \in OwnersOf(p)
  BY TableOf
<1>3. /\ t \in Seq(Pages) /\ IsInjective(t) /\ Range(t) \subseteq Range(held[k])
  BY <1>1, <1>2, SplitRange
<1> HIDE DEF t
<1>4. /\ held' \in [Holders -> Seq(Pages)] /\ held'[h] = t
      /\ \A l \in Holders \ {h} : held'[l] = held[l]
      /\ \A p \in Pages :
            OwnersOf(p)' = IF p \in Range(t) THEN OwnersOf(p) \cup {h}
                                             ELSE OwnersOf(p) \ {h}
  BY <1>1, <1>3, OwnersAfter
<1>5. \A p \in Pages : h \notin OwnersOf(p)
  BY <1>1, RangeEmpty DEF OwnersOf
<1>6. ASSUME NEW p \in Pages
      PROVE  OwnersOf(p)' = IF p \in Range(t) THEN OwnersOf(p) \cup {h} ELSE OwnersOf(p)
  BY <1>4, <1>5
<1>7. /\ \A p \in Range(t) : refcount[p] > 0
      /\ refcount' = [p \in Pages |-> IF p \in Range(t) THEN refcount[p] + 1
                                                        ELSE refcount[p]]
      /\ free' = free
  BY <1>1 DEF Acquire
<1>8. refcount \in [Pages -> Nat] /\ free \in Seq(Pages)
  BY DEF IInv, TypeOK, PoolTypeOK
<1>9. TypeOK'
  <2>1. refcount' \in [Pages -> Nat]
    BY <1>7, <1>8
  <2> QED BY <1>4, <1>7, <1>8, <2>1 DEF TypeOK, PoolTypeOK
<1>10. OwnersCounted'
  <2>1. ASSUME NEW p \in Pages PROVE refcount'[p] = Cardinality(OwnersOf(p)')
    <3>1. IsFiniteSet(OwnersOf(p)) /\ refcount[p] = Cardinality(OwnersOf(p))
      BY OwnersFinite
    <3>2. CASE p \in Range(t)
      <4>1. refcount'[p] = refcount[p] + 1 /\ OwnersOf(p)' = OwnersOf(p) \cup {h}
        BY <1>6, <1>7, <3>2
      <4>2. Cardinality(OwnersOf(p) \cup {h}) = Cardinality(OwnersOf(p)) + 1
        BY <1>5, <3>1, FS_AddElement
      <4> QED BY <3>1, <4>1, <4>2
    <3>3. CASE p \notin Range(t)
      <4>1. refcount'[p] = refcount[p] /\ OwnersOf(p)' = OwnersOf(p)
        BY <1>6, <1>7, <3>3
      <4> QED BY <3>1, <4>1
    <3> QED BY <3>2, <3>3
  <2>2. \A l \in Holders : IsInjective(held'[l])
    BY <1>3, <1>4, TableOf
  <2> QED BY <2>1, <2>2 DEF OwnersCounted, Pages
<1>11. FreeListExact'
  <2>1. ASSUME NEW p \in Pages PROVE refcount'[p] = 0 <=> refcount[p] = 0
    BY <1>7, <1>8
  <2>2. {p \in Pages : refcount'[p] = 0} = {p \in Pages : refcount[p] = 0}
    BY <2>1
  <2> QED BY <1>7, <2>2 DEF IInv, FreeListExact, Pages
<1>12. /\ Range(t) \in SUBSET {p \in Pages : k \in OwnersOf(p)}
  BY <1>2, <1>3, RangeType
<1> QED BY <1>6, <1>9, <1>10, <1>11, <1>12 DEF IInv

\* free: h owns nothing any more; the pages it owned alone are free, each once.
LEMMA ReleasePreserves ==
    ASSUME IInv, NEW h \in Holders, Release(h)
    PROVE  /\ IInv'
           /\ \A p \in Pages : OwnersOf(p)' = OwnersOf(p) \ {h}
<1> DEFINE mine == held[h]
           back == Released(mine)
<1>1. Free(mine) /\ held' = [held EXCEPT ![h] = <<>>]
  BY DEF Release
<1>2. /\ mine \in Seq(Pages) /\ IsInjective(mine) /\ Range(mine) \subseteq Pages
      /\ \A p \in Pages : p \in Range(mine) <=> h \in OwnersOf(p)
  BY TableOf
<1>3. refcount \in [Pages -> Nat] /\ free \in Seq(Pages) /\ PoolTypeOK
  BY DEF IInv, TypeOK, PoolTypeOK
<1>4. /\ \A p \in Range(mine) : refcount[p] > 0
      /\ refcount' = [p \in Pages |-> IF p \in Range(mine) THEN refcount[p] - 1
                                                           ELSE refcount[p]]
      /\ free' = free \o back
  BY <1>1 DEF Free
<1>5. /\ back \in Seq(Pages) /\ IsInjective(back)
      /\ Range(back) = {p \in Range(mine) : refcount[p] = 1}
  BY <1>2, <1>3, ReleasedPages
<1>6. <<>> \in Seq(Pages)
  OBVIOUS
<1>7. /\ held' \in [Holders -> Seq(Pages)] /\ held'[h] = <<>>
      /\ \A l \in Holders \ {h} : held'[l] = held[l]
      /\ \A p \in Pages : OwnersOf(p)' = OwnersOf(p) \ {h}
  BY <1>1, <1>6, OwnersAfter, RangeEmpty
<1> HIDE DEF mine, back
<1>8. IsInjective(free) /\ Range(free) = {p \in Pages : refcount[p] = 0}
  BY DEF IInv, FreeListExact
<1>9. /\ free' \in Seq(Pages) /\ IsInjective(free')
      /\ Range(free') = Range(free) \cup Range(back)
  <2>1. Range(free) \cap Range(back) = {}
    BY <1>5, <1>8
  <2> QED BY <1>3, <1>4, <1>5, <1>8, <2>1, ConcatRange
<1>10. TypeOK'
  <2>1. refcount' \in [Pages -> Nat]
    BY <1>3, <1>4
  <2> QED BY <1>7, <1>9, <2>1 DEF TypeOK, PoolTypeOK
<1>11. OwnersCounted'
  <2>1. ASSUME NEW p \in Pages PROVE refcount'[p] = Cardinality(OwnersOf(p)')
    <3>1. IsFiniteSet(OwnersOf(p)) /\ refcount[p] = Cardinality(OwnersOf(p))
      BY OwnersFinite
    <3>2. CASE p \in Range(mine)
      <4>1. refcount'[p] = refcount[p] - 1 /\ h \in OwnersOf(p)
        BY <1>2, <1>4, <3>2
      <4>2. Cardinality(OwnersOf(p) \ {h}) = Cardinality(OwnersOf(p)) - 1
        BY <3>1, <4>1, FS_RemoveElement
      <4> QED BY <1>7, <3>1, <4>1, <4>2
    <3>3. CASE p \notin Range(mine)
      <4>1. refcount'[p] = refcount[p] /\ OwnersOf(p) \ {h} = OwnersOf(p)
        BY <1>2, <1>4, <3>3
      <4> QED BY <1>7, <3>1, <4>1
    <3> QED BY <3>2, <3>3
  <2>2. \A l \in Holders : IsInjective(held'[l])
    BY <1>7, TableOf, RangeEmpty
  <2> QED BY <2>1, <2>2 DEF OwnersCounted, Pages
<1>12. FreeListExact'
  <2>1. ASSUME NEW p \in Pages
        PROVE  refcount'[p] = 0 <=> p \in Range(free) \cup Range(back)
    <3>1. CASE p \in Range(mine)
      BY <1>3, <1>4, <1>5, <1>8, <3>1
    <3>2. CASE p \notin Range(mine)
      BY <1>4, <1>5, <1>8, <3>2
    <3> QED BY <3>1, <3>2
  <2>2. Range(free) \cup Range(back) \subseteq Pages
    BY <1>2, <1>5, <1>8
  <2>3. Range(free') = {p \in Pages : refcount'[p] = 0}
    BY <1>9, <2>1, <2>2
  <2> QED BY <1>9, <2>3 DEF FreeListExact, Pages
<1> QED BY <1>7, <1>10, <1>11, <1>12 DEF IInv

----------------------------------------------------------------------------
LEMMA InitEstablishes ==
    ASSUME Init
    PROVE  IInv /\ \A p \in Pages : OwnersOf(p) = {}
<1>1. /\ free = [i \in 1 .. NumPages |-> i - 1]
      /\ refcount = [p \in Pages |-> 0]
      /\ held = [h \in Holders |-> <<>>]
  BY DEF Init, PoolInit
<1>2. NumPages \in Nat
  BY PoolAssumption
<1>3. free \in Seq(Pages) /\ IsInjective(free) /\ Range(free) = Pages
  <2>1. \A i \in 1 .. NumPages : i - 1 \in Pages
    BY <1>2 DEF Pages
  <2>2. \A p \in Pages : p + 1 \in 1 .. NumPages /\ p = (p + 1) - 1
    BY <1>2 DEF Pages
  <2>3. free \in Seq(Pages)
    BY <1>1, <1>2, <2>1
  <2>4. IsInjective(free)
    BY <1>1, <1>2 DEF IsInjective
  <2>5. Range(free) = Pages
    BY <1>1, <2>1, <2>2 DEF Range
  <2> QED BY <2>3, <2>4, <2>5
<1>4. <<>> \in Seq(Pages)
  OBVIOUS
<1>5. TypeOK
  BY <1>1, <1>3, <1>4 DEF TypeOK, PoolTypeOK
<1>6. \A p \in Pages : OwnersOf(p) = {}
  BY <1>1, RangeEmpty DEF OwnersOf
<1>7. OwnersCounted
  BY <1>1, <1>6, FS_EmptySet, RangeEmpty DEF OwnersCounted
<1>8. FreeListExact
  BY <1>1, <1>3 DEF FreeListExact
<1> QED BY <1>5, <1>6, <1>7, <1>8 DEF IInv

\* The owners of each page, as the refinement mapping gives them.
owners == [p \in Pages |-> OwnersOf(p)]

\* A step of the clients keeps the invariant and is a step of the abstract pool.
LEMMA StepPreserves ==
    ASSUME IInv, [Next]_vars
    PROVE  IInv' /\ (Promise!Next \/ owners' = owners)
<1>1. ASSUME NEW h \in Holders, NEW n \in 1 .. NumPages, Extend(h, n)
      PROVE  IInv' /\ Promise!Next
  <2>1. n \in Nat
    OBVIOUS
  <2>2. IInv'
    BY <1>1, <2>1, ExtendPreserves
  <2>3. \A p \in Pages :
           /\ p \in Range(Allocated(n)) => OwnersOf(p) = {} /\ OwnersOf(p)' = {h}
           /\ p \notin Range(Allocated(n)) => OwnersOf(p)' = OwnersOf(p)
    BY <1>1, <2>1, ExtendOwners
  <2>4. Promise!Grab(h)
    <3> DEFINE S == Range(Allocated(n)) \cap Pages
    <3>1. S \in SUBSET {p \in Pages : owners[p] = {}}
      BY <2>3 DEF owners
    <3>2. owners' = [p \in Pages |-> IF p \in S THEN {h} ELSE owners[p]]
      BY <2>3 DEF owners, Pages
    <3> HIDE DEF S
    <3> QED BY <3>1, <3>2 DEF Promise!Grab, owners
  <2> QED BY <2>2, <2>4 DEF Promise!Next
<1>2. ASSUME NEW h \in Holders, NEW k \in Holders \ {h}, NEW n \in 1 .. NumPages,
             SharePrefix(h, k, n)
      PROVE  IInv' /\ Promise!Next
  <2>1. n \in Nat
    OBVIOUS
  <2>2. IInv'
    BY <1>2, <2>1, SharePreserves
  <2>3. PICK S \in SUBSET {p \in Pages : k \in OwnersOf(p)} : \A p \in Pages :
            OwnersOf(p)' = IF p \in S THEN OwnersOf(p) \cup {h} ELSE OwnersOf(p)
    BY <1>2, <2>1, SharePreserves
  <2>4. Promise!Alias(h, k)
    <3>1. S \in SUBSET {p \in Pages : k \in owners[p]}
      BY <2>3 DEF owners
    <3>2. owners' = [p \in Pages |-> IF p \in S THEN owners[p] \cup {h} ELSE owners[p]]
      BY <2>3 DEF owners, Pages
    <3> QED BY <3>1, <3>2 DEF Promise!Alias, owners
  <2> QED BY <2>2, <2>4 DEF Promise!Next
<1>3. ASSUME NEW h \in Holders, Release(h)
      PROVE  IInv' /\ Promise!Next
  <2>1. IInv' /\ \A p \in Pages : OwnersOf(p)' = OwnersOf(p) \ {h}
    BY <1>3, ReleasePreserves
  <2>2. Promise!Drop(h)
    BY <2>1 DEF Promise!Drop, Pages
  <2> QED BY <2>1, <2>2 DEF Promise!Next
<1>4. CASE UNCHANGED vars
  <2>1. UNCHANGED <<free, refcount, held>>
    BY <1>4 DEF vars
  <2>2. \A p \in Pages : OwnersOf(p)' = OwnersOf(p)
    BY <2>1 DEF OwnersOf
  <2>3. IInv'
    BY <2>1, <2>2 DEF IInv, TypeOK, PoolTypeOK, OwnersCounted, FreeListExact, Pages
  <2> QED BY <2>2, <2>3 DEF owners, Pages
<1> QED BY <1>1, <1>2, <1>3, <1>4 DEF Next

LEMMA Inductive == Spec => []IInv
<1>1. Init => IInv
  BY InitEstablishes
<1>2. IInv /\ [Next]_vars => IInv'
  BY StepPreserves
<1> QED BY <1>1, <1>2, PTL DEF Spec

----------------------------------------------------------------------------
\* Counts, free list and page tables keep their types for every capacity and every
\* number of callers; no count becomes negative (kv_memory_pool.py, free).
THEOREM TypeCorrect == Spec => []TypeOK
<1>1. IInv => TypeOK
  BY DEF IInv
<1> QED BY <1>1, Inductive, PTL

\* A page's count is the number of page tables that list it, through any mix of
\* allocate, acquire and free (kv_memory_pool.py).
THEOREM CountsAreOwners == Spec => []OwnersCounted
<1>1. IInv => OwnersCounted
  BY DEF IInv
<1> QED BY <1>1, Inductive, PTL

\* The free list has the pages without owners, each once: none is leaked, none is
\* there twice (kv_memory_pool.py, allocate and free).
THEOREM FreeListIsExact == Spec => []FreeListExact
<1>1. IInv => FreeListExact
  BY DEF IInv
<1> QED BY <1>1, Inductive, PTL

\* Free list and counts implement the abstract pool: a page is handed out only while
\* it has no owner, and shared only by an owner (kv_memory_pool.py, allocate, acquire
\* and free).
THEOREM ClientsImplementPool == Spec => ImplementsPagePool
<1>1. Init => Promise!Init
  BY InitEstablishes DEF Promise!Init, Pages
<1>2. IInv /\ [Next]_vars => [Promise!Next]_owners
  BY StepPreserves
<1> QED BY <1>1, <1>2, Inductive, PTL DEF Spec, ImplementsPagePool, Promise!Spec, owners

=============================================================================
