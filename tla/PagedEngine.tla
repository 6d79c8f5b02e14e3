---------------------------- MODULE PagedEngine ----------------------------
(***************************************************************************)
(* The paged engine of miniengine/engine.py: which keys and values the     *)
(* packed prefill and the batched decode (flash-attn, captured graphs, or  *)
(* FlashInfer; rows reordered by length or not) write to the pages of the  *)
(* pool, and which of them each sampled token is computed from.            *)
(*                                                                         *)
(* The scheduler is reduced to the calls it makes: it admits requests with *)
(* pages for their whole budget, prefills what it admitted, decodes what   *)
(* runs, releases what finished and folds and requeues what it evicts      *)
(* (PagedScheduler has its decisions).  Token i of a request is     *)
(* <<r, i>>, counted from 0 over prompt and outputs.                       *)
(***************************************************************************)
EXTENDS CudaGraphRunner, FlashInferDecoder

CONSTANTS
    Requests,
    PromptLens, MaxNews,    \* prompt lengths and max_new_tokens
    MaxRunning,             \* max_running
    Kernels,                \* the decode kernels the engine may be built with
    Reorders,               \* the values lpt_reorder may have
    MaxFailures             \* bound on the engine calls that raise

ASSUME EngineAssumption ==
    /\ IsFiniteSet(Requests)
    /\ PageSize > 1         \* a multiple of 256 (Engine.__init__)
    /\ PromptLens \subseteq Nat \ {0} /\ MaxNews \subseteq Nat \ {0}
    /\ MaxRunning \in Nat \ {0}
    /\ Kernels \subseteq {"flash_attn", "cuda_graph", "flashinfer"}
    /\ Reorders \subseteq BOOLEAN
    /\ MaxFailures \in Nat

VARIABLES
    kernel, lptReorder,     \* how the engine was built
    numInput, numOutput, maxNew,
    kv,                     \* page tables, <<>> for None
    waiting, toPrefill, running,
    seen,                   \* seen[r]: what the last call computed r's token from
    failures

requestVars == <<numInput, numOutput, maxNew>>
vars == <<kernel, lptReorder, poolVars, mem, runnerVars, requestVars, kv, waiting,
          toPrefill, running, seen, failures>>

NothingSeen == [r \in Requests |-> <<>>]

\* With the runner, one page is allocated before anything else.
Init ==
    /\ kernel \in Kernels /\ lptReorder \in Reorders
    /\ IF kernel = "cuda_graph"
       THEN /\ free = [i \in 1 .. NumPages - 1 |-> i]
            /\ refcount = [p \in Pages |-> IF p = ScratchPage THEN 1 ELSE 0]
       ELSE PoolInit
    /\ MemInit /\ RunnerInit
    /\ numInput \in [Requests -> PromptLens] /\ maxNew \in [Requests -> MaxNews]
    /\ numOutput = [r \in Requests |-> 0]
    /\ kv = [r \in Requests |-> <<>>]
    /\ waiting = SetToSeq(Requests) /\ toPrefill = <<>> /\ running = <<>>
    /\ seen = NothingSeen
    /\ failures = 0

----------------------------------------------------------------------------
\* The scheduler's part.

Unfinished(r) == numOutput[r] < maxNew[r]

Needed(r) == PagesNeeded(numInput[r] + maxNew[r])

Admit ==
    /\ waiting # <<>>
    /\ Len(running) + Len(toPrefill) < MaxRunning
    /\ \A r \in Range(running) : Unfinished(r)
    /\ LET r == Head(waiting)
       IN  /\ Allocate(Needed(r))
           /\ kv' = [kv EXCEPT ![r] = Allocated(Needed(r))]
           /\ toPrefill' = Append(toPrefill, r)
    /\ waiting' = Tail(waiting)
    /\ seen' = NothingSeen
    /\ UNCHANGED <<kernel, lptReorder, mem, runnerVars, requestVars, running, failures>>

ReleaseKv(r) == /\ Free(kv[r])
                /\ kv' = [kv EXCEPT ![r] = <<>>]

Leave(r) == /\ \E i \in DOMAIN running : running[i] = r /\ running' = RemoveAt(running, i)
            /\ seen' = NothingSeen
            /\ UNCHANGED <<kernel, lptReorder, mem, runnerVars, toPrefill, failures>>

\* Its last token was a stop token or the last of its budget.
Finish(r) ==
    /\ r \in Range(running) /\ toPrefill = <<>>
    /\ ReleaseKv(r)
    /\ Leave(r)
    /\ UNCHANGED <<requestVars, waiting>>

\* The head of the queue does not fit: the request with the fewest outputs gives
\* its pages back, is folded and goes to the front.
Evict(r) ==
    /\ waiting # <<>> /\ Needed(Head(waiting)) > NumFree
    /\ r \in Range(running)
    /\ \A s \in Range(running) : Unfinished(s) /\ numOutput[r] <= numOutput[s]
    /\ ReleaseKv(r)
    /\ numInput' = [numInput EXCEPT ![r] = @ + numOutput[r]]
    /\ maxNew' = [maxNew EXCEPT ![r] = @ - numOutput[r]]
    /\ numOutput' = [numOutput EXCEPT ![r] = 0]
    /\ waiting' = <<r>> \o waiting
    /\ Leave(r)

----------------------------------------------------------------------------
\* Packed prefill.

\* packed_ids with position_chunks, all prompts one after the other.
Packed(rs) == FlattenSeq([i \in DOMAIN rs |->
                [t \in 1 .. numInput[rs[i]] |-> Entry(<<rs[i], t - 1>>, t - 1)]])

PackedSlots(rs) == FlattenSeq([i \in DOMAIN rs |-> SlotMapping(kv[rs[i]], 0, numInput[rs[i]])])

CuSeqlens(rs) == Offsets([i \in DOMAIN rs |-> numInput[rs[i]]])

\* Keys and values scattered into the pages; attention is over the packed ones.
PrefillWrites == mem' = Written(PackedSlots(toPrefill), Packed(toPrefill))

\* The token of request i is sampled from the last packed position of its segment.
PrefillSeen(rs) == [i \in DOMAIN rs |->
                      SubSeq(Packed(rs), CuSeqlens(rs)[i] + 1, CuSeqlens(rs)[i + 1])]

\* One token for each request of rs, the i-th computed from results[i].
Sampled(rs, results) ==
    /\ numOutput' = [r \in Requests |-> IF r \in Range(rs) THEN numOutput[r] + 1
                                                             ELSE numOutput[r]]
    /\ seen' = [r \in Requests |-> IF r \in Range(rs)
                                   THEN results[CHOOSE i \in DOMAIN rs : rs[i] = r]
                                   ELSE <<>>]

BatchedPrefill ==
    /\ toPrefill # <<>>
    /\ PrefillWrites
    /\ Sampled(toPrefill, PrefillSeen(toPrefill))
    /\ running' = running \o toPrefill
    /\ toPrefill' = <<>>
    /\ UNCHANGED <<kernel, lptReorder, poolVars, runnerVars, numInput, maxNew, kv,
                   waiting, failures>>

\* It raises: the requests keep their pages and are in no list any more.
PrefillRaises ==
    /\ toPrefill # <<>> /\ failures < MaxFailures
    /\ failures' = failures + 1
    /\ PrefillWrites \/ UNCHANGED mem
    /\ toPrefill' = <<>>
    /\ seen' = NothingSeen
    /\ UNCHANGED <<kernel, lptReorder, poolVars, runnerVars, requestVars, kv, waiting,
                   running>>

----------------------------------------------------------------------------
\* Batched decode.

\* Slip: the token to be fed counts as stored.
KvLengthOfAll(r) == numInput[r] + numOutput[r]

\* _paged_kv_length
KvLength(r) == numInput[r] + IF numOutput[r] = 0 THEN 0 ELSE numOutput[r] - 1

\* The order of the rows: order[k] is the place in requests of kernel row k.
LptOrder(lens) ==
    LET before(i, j) == lens[i] > lens[j] \/ (lens[i] = lens[j] /\ i < j)
        I == DOMAIN lens
    IN  CHOOSE order \in [I -> I] : \A j, k \in I : j < k => before(order[j], order[k])

RowOrder(rs) == IF lptReorder THEN LptOrder([i \in DOMAIN rs |-> KvLength(rs[i])])
                              ELSE [i \in DOMAIN rs |-> i]

\* Slip: the order is applied to the logits instead of its inverse.
InverseForgotten(order) == order

\* inverse[order[k]] = k
InverseOrder(order) == [i \in DOMAIN order |-> CHOOSE k \in DOMAIN order : order[k] = i]

\* The rows of the kernel call; output_ids[-1] is the input token.
Rows(rs) ==
    LET order == RowOrder(rs)
    IN  [k \in DOMAIN rs |->
            LET r == rs[order[k]]
            IN  DecodeRow(<<r, numInput[r] + numOutput[r] - 1>>, KvLength(r), kv[r])]

MaxOver(S) == CHOOSE n \in S : \A m \in S : m <= n
MaxPages(rows) == MaxOver({Len(rows[k].table) : k \in DOMAIN rows})
MaxPosition(rows) == MaxOver({rows[k].length : k \in DOMAIN rows})

UseGraph(rows) == /\ kernel = "cuda_graph"
                  /\ Covers(Len(rows), MaxPages(rows), MaxPosition(rows))

\* What the forward pass does: the memory after it and what each row attended to.
Forward(rows) ==
    CASE UseGraph(rows)         -> Replay(rows)
      [] kernel = "flashinfer"  -> AttendAndAppend(rows)
      [] OTHER                  -> FlashAttention([k \in DOMAIN rows |->
                                      [rows[k] EXCEPT !.table = PadBlockTable(@, MaxPages(rows))]])

StageIfGraph(rows) == IF UseGraph(rows) THEN Stage(rows) ELSE UNCHANGED runnerVars

\* Requests run, every one of them has a token to go, and admission is over.
CanDecode == /\ running # <<>> /\ toPrefill = <<>>
             /\ \A r \in Range(running) : Unfinished(r)

BatchedDecode ==
    /\ CanDecode
    /\ LET rows == Rows(running)
           result == Forward(rows)
           inverse == InverseOrder(RowOrder(running))
       IN  /\ mem' = result.mem
           /\ Sampled(running, [i \in DOMAIN running |-> result.seen[inverse[i]]])
           /\ StageIfGraph(rows)
    /\ UNCHANGED <<kernel, lptReorder, poolVars, numInput, maxNew, kv, waiting,
                   toPrefill, running, failures>>

\* It raises, before or after the forward pass: the same batch is decoded again.
DecodeRaises ==
    /\ CanDecode /\ failures < MaxFailures
    /\ failures' = failures + 1
    /\ LET rows == Rows(running)
       IN  StageIfGraph(rows) /\ mem' \in {mem, Forward(rows).mem}
    /\ seen' = NothingSeen
    /\ UNCHANGED <<kernel, lptReorder, poolVars, requestVars, kv, waiting, toPrefill,
                   running>>

----------------------------------------------------------------------------
Next == \/ Admit \/ \E r \in Requests : Finish(r) \/ Evict(r)
        \/ BatchedPrefill \/ PrefillRaises
        \/ BatchedDecode \/ DecodeRaises

Spec == Init /\ [][Next]_vars

----------------------------------------------------------------------------
\* The first n tokens of r, each with the position it belongs to.
SequenceOf(r, n) == [t \in 1 .. n |-> Entry(<<r, t - 1>>, t - 1)]

\* The pages of a running request hold its whole sequence but the last token, in
\* order, whatever other requests, dummy rows and failed calls wrote meanwhile; and
\* before a decode they have room for that one (the assertion of FlashInfer's plan).
PagesHoldSequence ==
    /\ \A r \in Range(running) :
          ReadPrefix(mem, kv[r], KvLength(r)) = SequenceOf(r, KvLength(r))
    /\ CanDecode => Plannable(Rows(running))

\* Every token is sampled from logits that attended to its own request's sequence,
\* all of it and nothing else: rows are reordered, packed and padded without mixing.
SampledFromOwnSequence ==
    \A r \in Requests :
        seen[r] # <<>> => seen[r] = SequenceOf(r, numInput[r] + numOutput[r] - 1)

\* Rows beyond the live ones of a bucket's last replay are dummies: they point to
\* the scratch page only, so the next replay cannot write to a request's page.
DummyRowsAreSafe ==
    \A b \in BatchSizes : \A k \in prevLive[b] + 1 .. b : host[b][k] = DummyRow

\* The pages that are free or of requests other than those of S.
PagesBesides(S) == Range(free) \cup UNION {Range(kv[q]) : q \in Requests \ S}

\* The step stores the entry of token t of r in its slot, in a page that is r's alone.
Stores(s, r, t) == /\ s = Slot(kv[r], t)
                   /\ mem'[s] = Entry(<<r, t>>, t)
                   /\ s \div PageSize \notin PagesBesides({r})

\* A prefill writes the prompts it was called for and nothing else; a decode writes one
\* entry for each running request, the one of its last token behind those it has, and
\* with the runner to the scratch page, which is nobody's.  So no call, whether it
\* returns or raises, changes a page that is free or of a request it was not called for.
WritesStayInBatch ==
    [][\A s \in Slots :
          mem'[s] # mem[s] =>
             \/ \E r \in Range(toPrefill) : \E t \in 0 .. numInput[r] - 1 : Stores(s, r, t)
             \/ toPrefill = <<>> /\ \E r \in Range(running) : Stores(s, r, KvLength(r))
             \/ /\ toPrefill = <<>> /\ kernel = "cuda_graph"
                /\ s \div PageSize = ScratchPage /\ ScratchPage \notin PagesBesides({})]_vars

=============================================================================
