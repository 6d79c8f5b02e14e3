-------------------------- MODULE CudaGraphRunner --------------------------
(***************************************************************************)
(* miniengine/cuda_graph_runner.py: one captured graph per bucket size,    *)
(* with a block of staged rows in pinned host memory that is copied to the *)
(* device as a whole before each replay.  A batch is rounded up to a       *)
(* bucket; the rows beyond it are dummies, which the kernel runs like any  *)
(* other.                                                                  *)
(***************************************************************************)
EXTENDS PagedMemory

CONSTANTS BatchSizes,       \* batch_sizes, the buckets
          MaxPagesPerSeq,   \* max_pages_per_seq
          RopeCacheCap      \* rope_cache_cap

ASSUME RunnerAssumption ==
    /\ BatchSizes \subseteq Nat \ {0} /\ BatchSizes # {} /\ IsFiniteSet(BatchSizes)
    /\ MaxPagesPerSeq \in Nat \ {0}
    /\ RopeCacheCap \in Nat \ {0}

VARIABLES host,             \* _host_inputs, the staged rows of each bucket
          prevLive          \* _prev_live_b, the live rows of the bucket's last replay

runnerVars == <<host, prevLive>>

\* engine.pool.allocate(1)[0], the first allocation of all.
ScratchPage == 0

DummyRow == [token |-> NoEntry, position |-> 0, length |-> 1,
             table |-> [i \in 1 .. MaxPagesPerSeq |-> ScratchPage]]

RunnerInit == /\ host = [b \in BatchSizes |-> [k \in 1 .. b |-> DummyRow]]
              /\ prevLive = [b \in BatchSizes |-> 0]

MaxBatchSize == CHOOSE b \in BatchSizes : \A c \in BatchSizes : c <= b

BucketFor(n) == CHOOSE b \in BatchSizes : b >= n /\ \A c \in BatchSizes : c >= n => b <= c

Covers(n, maxPages, maxPosition) == /\ n <= MaxBatchSize
                                    /\ maxPages <= MaxPagesPerSeq
                                    /\ maxPosition < RopeCacheCap

\* Slip: rows that were live are left as they are.
NotRestored(b, k) == host[b][k]

\* Row k of bucket b, beyond the live ones: a dummy again if it was live last time.
Restored(b, k) == IF k <= prevLive[b] THEN DummyRow ELSE host[b][k]

\* The rows that replay_paged_decode stages in bucket b for a live batch.
Staged(b, rows) ==
    [k \in 1 .. b |->
        IF k <= Len(rows)
        THEN [rows[k] EXCEPT !.table = PadBlockTable(@, MaxPagesPerSeq)]
        ELSE Restored(b, k)]

\* replay_paged_decode, up to the replay.
Stage(rows) ==
    LET b == BucketFor(Len(rows))
    IN  /\ host' = [host EXCEPT ![b] = Staged(b, rows)]
        /\ prevLive' = [prevLive EXCEPT ![b] = Len(rows)]

\* The replay: the captured forward pass over the whole bucket.
Replay(rows) == FlashAttention(Staged(BucketFor(Len(rows)), rows))

=============================================================================
