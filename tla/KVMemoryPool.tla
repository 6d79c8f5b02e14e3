--------------------------- MODULE KVMemoryPool ---------------------------
(***************************************************************************)
(* The paged KV pool of miniengine/kv_memory_pool.py: a FIFO free list of  *)
(* physical page indices and a reference count per page.  The tensors the  *)
(* pages stand for are abstracted away.  The pool has no lock: every call  *)
(* comes from the one scheduler thread, so a call is one atomic action.    *)
(* The module gives the calls as action operators over its two variables;  *)
(* PoolClients and PagedScheduler use them.                                *)
(***************************************************************************)
EXTENDS Naturals, Sequences, FiniteSets, Functions

CONSTANTS NumPages,   \* num_pages, the capacity of the pool
          PageSize    \* page_size, tokens per page

ASSUME PoolAssumption == /\ NumPages \in Nat \ {0}
                         /\ PageSize \in Nat \ {0}

VARIABLES free,       \* _free, the deque of free pages
          refcount    \* _refcount, how many owners a page has

poolVars == <<free, refcount>>

Pages == 0 .. NumPages - 1

PoolTypeOK == /\ free \in Seq(Pages)
              /\ refcount \in [Pages -> Nat]

\* Slip: pages numbered from 1.
PoolInitFromOne == /\ free = [i \in 1 .. NumPages |-> i]
                   /\ refcount = [p \in Pages |-> 0]

PoolInit == /\ free = [i \in 1 .. NumPages |-> i - 1]
            /\ refcount = [p \in Pages |-> 0]

NumFree == Len(free)

----------------------------------------------------------------------------
\* pages_needed(seq_len): pages that hold seqLen tokens, rounded up.
PagesNeeded(seqLen) == (seqLen + PageSize - 1) \div PageSize

----------------------------------------------------------------------------
\* allocate(n): n pages leave the front of the free list with one owner each.

\* The pages an allocate(n) returns.
Allocated(n) == SubSeq(free, 1, n)

\* Slip: the page handed out stays on the free list's front.
AllocateKeepsLast(n) ==
    /\ n <= NumFree
    /\ free' = SubSeq(free, n, NumFree)
    /\ refcount' = [p \in Pages |-> IF p \in Range(Allocated(n)) THEN 1 ELSE refcount[p]]

Allocate(n) ==
    /\ n <= NumFree                \* otherwise RuntimeError: pool exhausted
    /\ free' = SubSeq(free, n + 1, NumFree)
    /\ refcount' = [p \in Pages |-> IF p \in Range(Allocated(n)) THEN 1 ELSE refcount[p]]

----------------------------------------------------------------------------
\* acquire(pages): one more owner for pages that already have one.

\* Slip: the page is shared without being counted.
AcquireUncounted(pages) ==
    /\ \A p \in Range(pages) : refcount[p] > 0
    /\ UNCHANGED <<refcount, free>>

Acquire(pages) ==
    /\ \A p \in Range(pages) : refcount[p] > 0     \* otherwise RuntimeError
    /\ refcount' = [p \in Pages |-> IF p \in Range(pages) THEN refcount[p] + 1
                                                          ELSE refcount[p]]
    /\ UNCHANGED free

----------------------------------------------------------------------------
\* free(pages): one owner less for each page; a page without owners goes to
\* the back of the free list, in the order of the call.  A page table never
\* lists a page twice, so the loop's iterations are independent.

\* The elements of s at the positions in I, in the order of s.
Subsequence(s, I) ==
    [k \in 1 .. Cardinality(I) |->
        s[CHOOSE i \in I : Cardinality({j \in I : j <= i}) = k]]

\* The pages whose last owner lets go in this call.
Released(pages) == Subsequence(pages, {i \in DOMAIN pages : refcount[pages[i]] = 1})

\* Slip: the pages go back to the free list whoever else still holds them.
FreeIgnoringSharers(pages) ==
    /\ \A p \in Range(pages) : refcount[p] > 0
    /\ refcount' = [p \in Pages |-> IF p \in Range(pages) THEN refcount[p] - 1
                                                          ELSE refcount[p]]
    /\ free' = free \o pages

Free(pages) ==
    /\ \A p \in Range(pages) : refcount[p] > 0     \* otherwise RuntimeError
    /\ refcount' = [p \in Pages |-> IF p \in Range(pages) THEN refcount[p] - 1
                                                          ELSE refcount[p]]
    /\ free' = free \o Released(pages)

=============================================================================
