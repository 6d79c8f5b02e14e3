---------------------------- MODULE PoolClients ----------------------------
(***************************************************************************)
(* KVMemoryPool composed with callers that follow its contract: a holder   *)
(* allocates pages, extends its page table, lets another holder share a    *)
(* prefix of it (acquire, which the pool offers to a prefix cache), and    *)
(* frees the whole table when it is done.                                  *)
(***************************************************************************)
EXTENDS KVMemoryPool

CONSTANT Holders

ASSUME ClientsAssumption == IsFiniteSet(Holders)

VARIABLE held      \* held[h]: the page table of h, <<>> when it has none

vars == <<free, refcount, held>>

Init == PoolInit /\ held = [h \in Holders |-> <<>>]

\* A holder takes n more pages at the end of its page table.
Extend(h, n) ==
    /\ Allocate(n)
    /\ held' = [held EXCEPT ![h] = @ \o Allocated(n)]

\* A holder without pages shares the first n pages of another one.
SharePrefix(h, k, n) ==
    /\ held[h] = <<>>
    /\ n <= Len(held[k])
    /\ LET prefix == SubSeq(held[k], 1, n)
       IN  Acquire(prefix) /\ held' = [held EXCEPT ![h] = prefix]

\* A holder gives its whole page table back.
Release(h) ==
    /\ held[h] # <<>>
    /\ Free(held[h])
    /\ held' = [held EXCEPT ![h] = <<>>]

Next == \E h \in Holders :
           \/ \E n \in 1 .. NumPages : Extend(h, n)
           \/ \E k \in Holders \ {h}, n \in 1 .. NumPages : SharePrefix(h, k, n)
           \/ Release(h)

Spec == Init /\ [][Next]_vars

----------------------------------------------------------------------------

\* The pool's variables and every page table keep their types.
TypeOK == PoolTypeOK /\ held \in [Holders -> Seq(Pages)]

OwnersOf(p) == {h \in Holders : p \in Range(held[h])}

\* A page's count is the number of page tables that list it, through any
\* mix of allocate, acquire and free: no reference is lost or counted twice,
\* so free() never raises on a page its caller still holds.
OwnersCounted ==
    /\ \A p \in Pages : refcount[p] = Cardinality(OwnersOf(p))
    /\ \A h \in Holders : IsInjective(held[h])

\* The free list is exactly the pages nobody owns, each listed once: a page
\* is neither leaked nor handed to two requests.
FreeListExact ==
    /\ IsInjective(free)
    /\ Range(free) = {p \in Pages : refcount[p] = 0}

\* The free list and the counts implement the pool of owner sets.
Promise == INSTANCE PagePool WITH owners <- [p \in Pages |-> OwnersOf(p)]

\* Every call the clients make is a step of the abstract pool: allocate
\* never hands out a page that some page table still lists.
ImplementsPagePool == Promise!Spec

=============================================================================
