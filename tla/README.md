# A TLA+ model of MiniEngine

MiniEngine is a small LLM inference server: an HTTP front end, a scheduler
thread, an engine that runs a transformer, and a paged pool for the keys and
values (KV) of the requests in flight.  This directory holds TLA+ modules that
model it, TLC configurations that check them on small instances, and theorems
with proofs that TLAPS checks for every value of the constants.

## 1. The system

| part | source | state it keeps | operations |
|---|---|---|---|
| Request, token queue | `miniengine/core.py` | `status`, `input_ids`, `output_ids`, `max_new_tokens`, `kv_cache`, `token_queue` | `is_finished`, counters |
| Scheduler | `miniengine/scheduler.py` | `waiting`, `running`, `_running_flag`, `_lock`, two totals | `add_request`, `start`, `stop`, `_loop`, `step` in the modes baseline, batched and paged, eviction, rejection |
| KV memory pool | `miniengine/kv_memory_pool.py` | free list (deque), reference counts | `allocate`, `acquire`, `free`, `pages_needed`, slot mapping, block tables, `from_budget` |
| Engine | `miniengine/engine.py` | pool, runner, model | `prefill`, `batched_prefill`, `decode_step`, `batched_decode` (classic, paged eager, paged CUDA graph, FlashInfer) |
| CUDA graph runner | `miniengine/cuda_graph_runner.py` | scratch page, buckets, staging rows, `prev_live` per bucket | capture, `covers`, `bucket_for`, `replay_paged_decode` |
| FlashInfer decoder | `miniengine/flashinfer_decoder.py` | wrapper plan | `plan`, `attend_and_append` |
| Model | `miniengine/model.py` | weights, rotary tables | forward, `prepopulate`, growth of the tables |
| Sampler | `miniengine/sampler.py` | none | repetition penalty, temperature, top-k, top-p, draw |
| Bucket grid | `miniengine/bucket_grid.py` | fitted cost line | `waste_fraction`, `propose_ladder` |
| HTTP server | `miniengine/server.py` | globals | `chat_completions`, streaming and collecting the token queue |
| Command line | `miniengine/__main__.py` | none | builds engine and scheduler, start, serve, stop |
| Load generators | `benchmark/bench_serving.py`, `bench_accuracy.py`, `colab/mooncake_trace_replay.py` | queue or semaphore, results | worker pools with deadlines; a trace replay without |

**How they interact.**  A server coroutine builds a `Request` and appends it to
`waiting` under `_lock`.  The scheduler thread, alone, pops it, asks the pool
for pages, calls the engine, puts tokens on the request's `token_queue` and at
the end one `TokenOutput(finished=True)`.  The coroutine reads that queue
through the executor's threads and sends what it reads to the client, often a load
generator, which may give up.  The pool is called by the scheduler thread
only (and once by the CUDA graph runner, before the thread starts), so it needs
no lock.  `stop` is called by the main thread.

**What is hard here.**  Requests arrive while the scheduler decides; the pool
fills up; eviction ("recompute recovery") takes a request back in the middle of
its stream and rewrites its prompt and budget; the engine may raise (out of
memory) and the exception is only logged; the CUDA graph runner replays batches
padded with dummy rows.  The hazards, each at its line, are in `PROJECT.json`.

**What makes each part correct.**

* Pool: a page has one place (free list or page tables), its count is the number
  of page tables that list it, the free list is exactly the pages without owner.
* Scheduler: no request is lost or in two places; first come, first served; page
  tables are disjoint and large enough for every position decode writes; batches
  stay within their limits; every request ends.
* Towards the client: the stream is the tokens after the prompt, each once, in
  order, at most `max_new_tokens`, then one end mark, evictions notwithstanding.
* Engine: row i of a batch reads and writes only the slots of request i, and
  token i goes to request i, however the rows were reordered, packed or padded.
* CUDA graph runner: a dummy row touches the scratch page only.
* Classic caches: each token is computed from its own request's sequence and from all of
  it, although the batch is padded to its longest row.
* Rotary tables: no position below the length that the flags promise is outside the
  tables, whichever of eager pass and replay asks.
* Server: every waiting client is served its stream to the end mark, a disconnect
  disturbs nobody else and costs no thread; a stranded request costs one.
* Load generators: each request is reported once, with the tokens that were streamed for
  it, and a run ends although the server may strand requests.
* Bucket grid: the ladder rises from `min_b` to `max_b`, with the waste within
  `max_waste` and no bucket more than that needs, but for one at each place where
  rounding cut a bucket short.

## 2. The modules

| module | models |
|---|---|
| `KVMemoryPool` | the pool as action operators over `free` and `refcount` |
| `PagePool` | abstract: a set of owners per page |
| `PoolClients` | `KVMemoryPool` with callers that allocate, extend, share and free; refines `PagePool` |
| `RequestLifecycle` | abstract: what the client of a request is promised |
| `PagedScheduler` | the scheduler in paged mode with the pool; refines `RequestLifecycle` |
| `MCPagedScheduler` | `PagedScheduler` for TLC |
| `MCPagedLive` | `PagedScheduler` in both of its recovery configurations, for the liveness check |
| `ClassicEngine` | the contents of the per-request caches: padding, mask, attention, extraction |
| `BatchedScheduler` | the scheduler in modes batched and baseline, with `ClassicEngine`; refines `RequestLifecycle` |
| `PagedMemory` | what the pages hold: slot mapping, block tables, and the attention kernels as reads and writes of slots; extends `KVMemoryPool` |
| `CudaGraphRunner` | buckets, staged rows, dummy rows, replay; extends `PagedMemory` |
| `FlashInferDecoder` | the plan and the append; extends `PagedMemory` |
| `PagedEngine` | packed prefill and batched decode; composes the four modules above with the scheduler's calls |
| `TokenDelivery` | coroutines, executor threads and disconnects of the server, stranded requests; composes `RequestLifecycle` with its readers |
| `LoadClient` | the load generators in front of `TokenDelivery` |
| `BucketGrid` | the choice of bucket sizes |
| `EngineSetup` | from `BucketGrid` to a serving engine: rotary tables, capture, eager passes and replays, padding counters |

The composition is by levels.  `PagedScheduler` is checked with the pool, with an
engine of which only the results show; `PagedEngine` is checked with the pool and
the kernels, with a scheduler of which only the calls show; `TokenDelivery` is
checked with `RequestLifecycle`, which both schedulers implement, and with the clients of
`LoadClient`.

Operators whose comment starts with *Slip* are not part of the model: each is a
plausible bug in the definition it stands before, with which a property is
checked to fail (`PROJECT.json`, "mutants").

### KVMemoryPool, PoolClients, PagePool

`free` is the deque `_free`, `refcount` the list `_refcount`.  `Allocate`,
`Acquire` and `Free` are whole calls: the loops over pages are one action, since
only the scheduler thread calls them.  Where the code raises `RuntimeError` the
action is not enabled; that no caller meets the error follows from
`OwnersCounted`.  `Acquire` has no caller under `miniengine/` yet; `PoolClients`
models the prefix cache its comment describes: a holder shares a prefix of
another one's page table.  A page table lists no page twice, which `Free` relies on.

### PagedScheduler

| variable | code |
|---|---|
| `asked` | what the client sent: prompt length and `max_new_tokens` (never changed) |
| `status`, `numInput`, `numOutput`, `maxNew`, `kv`, `stream` | the fields of `Request`; `stream` is everything ever put on `token_queue`, `kv` is `<<>>` for `None` |
| `waiting`, `running`, `runningFlag`, `totalFinished`, `totalGenerated` | the fields of `Scheduler` |
| `toPrefill`, `packedTokens`, `evictionsLeft`, `stillRunning` | the locals of `_step_paged` |
| `batch` | the requests of an engine call whose token has not been handled, i.e. what `zip` has left |
| `pc` | where the scheduler thread is |
| `arrivals`, `failures` | history: order of `add_request`, engine calls that raised |

Token values do not matter to the scheduler, so a token is named by its place in
the request's sequence (the prompt is 1 .. prompt).  What an engine call returns
is the token after the last one it was given: after the prompt at prefill, after
position `_paged_kv_length` at decode.  A stream with a gap, a repetition or a
token of a wrong place is then visible.  Any token may be a stop token.

The scheduler thread takes one step per admission decision (`RejectHead`,
`EvictForHead`, `AdmitHead`, `EndAdmission`), per engine call (`Prefill`,
`Decode`) and per token handled (`EmitPrefill`, `EmitDecode`).  `add_request`
may come between any two of them except while `_lock` is held (`pc = "admit"`);
`stop` may come anywhere.  An engine call may raise (`MaxFailures` times): the
exception leaves the step and the loop goes on.

Assumed of clients: a prompt is not empty and `max_new_tokens` is at least 1
(the server replaces 0 and a missing value by 256 and does not check negative ones).

### BatchedScheduler

The same conventions; `mode` chooses between `_step_batched` and `_step_baseline`.
`cache[r]` is `kv_cache`, a sequence of keys (`ClassicEngine`): each stands for the key and
value of one token, with its request, its place and the position it was rotated to.
`_batched_decode_classic` pads the caches of a batch to the longest, runs one forward pass
with a mask over the padding, and cuts each row's cache out again; `attended[r]` is what the
row attended to.  Tokens are named by their number (`numOutput`), so that an error in a
cache does not show in the stream; it shows in `attended`, which `AttendsOwnSequence` is
about, and in the length that `CacheFollowsTokens` compares.  `_lock` is held for the loop
that empties `waiting` alone, so `BeginStep` is one action and `AddRequest` may come between
any two.
A prefill may raise before or after it stored the cache, a decode after any number in
`FailingAfter` of caches was replaced.

### PagedMemory, CudaGraphRunner, FlashInferDecoder, PagedEngine

`mem[s]` is what slot `s` of every layer holds: the token and the position its keys
and values were computed from.  A kernel is a pair of what it leaves in `mem` and, per
row, the entries it attended to (`seen`); flash-attn appends the row's entry and reads
one position more, a replayed graph does so for the whole bucket, FlashInfer for the
pages of its plan.  `seen[r]` is then what the last token of `r` was computed from.
Token `i` of request `r` is `<<r, i>>`; its value is of no account here.

`host[b]` and `prevLive[b]` are `_host_inputs[b]` and `_prev_live_b[b]`; the four
copies to the device move all of `host[b]` just before the replay, so the device has
no variable of its own.  The scratch page is page 0, the first one allocated.
`LptOrder` is Python's stable sort in reverse order, `InverseOrder` its inverse.

The scheduler's part is what `PagedScheduler` may do, less its queueing rules: `Admit`
with pages for the whole budget, `Evict` with folding, `Finish` with release.  A call
that raises has done its writes or none of them; what it wrote in part is covered by
both, since the same batch writes the same entries again, or never runs again.

### TokenDelivery

`jobs` is the work queue of the default `ThreadPoolExecutor`, `thread[t]` the request
whose `token_queue.get` thread `t` is blocked in, `result[r]` the output its coroutine
has yet to look at, `taken[r]` how much has left the queue.  `reader[r]` is where the
coroutine is: about to call `run_in_executor` ("ready"), awaiting it, at its end
("closed") or cancelled ("gone").  asyncio cancels a job that no thread has begun and
cannot interrupt one that a thread is in: that thread takes one output more, for nobody.
The scheduler's steps are those of `RequestLifecycle` without `Preempt`, which a reader
sees as a token that takes longer.  `lost` are the requests that the scheduler strands
(findings 1 and 3, a stopped server): nothing more is ever put on their queues, so that each
of them keeps a thread.

### LoadClient

The streamed requests belong to `bench_serving.py` or to the trace replay (`driver`), the
others to `bench_accuracy.py`.  `backlog[c]` is a client's queue, or the tasks that wait for
the semaphore; `inflight[c]` are the requests a worker or a permit is busy with, `results[c]`
the list of results.  `Send` is `get_nowait` and the post, `Receive` one turn of the reading
loop, together with the server's sending; a chunk that is on its way when the deadline
passes is one that is not sent any more, since neither counts.  `TimedOut` may come at any
moment; it stands for every exception of a request, which both pools turn into a result.  The
replay has no deadline (`ClientTimeout(total=None)`) and catches nothing: `ReplayAborts`.
`Silent` are requests of which only special tokens are generated, whose chunks are empty.

### BucketGrid

One step per turn of `propose_ladder`'s loop.  `max_waste` is in hundredths; the quotient
is exact except that, where it is a whole number, the float may be cut to the number
below (`Caps` are the numbers it may come to).  `NextBucket` has the code's guard for a
bucket that is no larger than the one before (`PastPrev`).  `cutShort` is history: the places
of the ladder after which rounding made the next bucket smaller.

### EngineSetup

`ComputeLadder` is the step above; `Start` is `Engine.__init__` with options chosen from
`RopeCaps`, on a CUDA device; `Capture` is `capture_all`, whose warm-up passes touch position
0 and the scratch page only.  A table is its length (`cachedLen`; `bound` for the tables that
`static_forward` holds).  A position outside of a table is a device-side assertion, after
which `stage` is "broken" ("failed" during start-up).  Requests of any length are run, since
admission compares them with the pool only.

## 3. The runs

| run | checks | shows |
|---|---|---|
| `pool_clients` | `TypeOK`, `OwnersCounted`, `FreeListExact`, `ImplementsPagePool` | three holders, four pages, every order of calls |
| `paged_safety` | all safety properties and `ImplementsLifecycle` | three requests of six sizes, recovery, prefill budget, scratch page, one engine failure, stop |
| `paged_live` | `EveryRequestFinishes` | with and without recovery: no starvation behind the head of the queue, no livelock by eviction |
| `paged_scratch_starves` | `EveryRequestFinishes` violated | finding 1 below |
| `paged_eviction_head` | `EvictionRetriesHead` violated | finding 2 below |
| `paged_failure_strands` | `RunningIsActive` violated | finding 3 below |
| `batched_modes` | all properties of `BatchedScheduler` and `ImplementsLifecycle` | both modes, three requests, one raising call, stop: order, the limit and the advance of a batch also after the call that raised |
| `batched_extraction_fails` | `CacheFollowsTokens` violated | finding 4 below |
| `paged_engine` | `PagesHoldSequence`, `SampledFromOwnSequence`, `DummyRowsAreSafe`, `WritesStayInBatch` | three requests through each kernel, reordered or not, with evictions and one raising call |
| `load_client` | `DeliveredInOrder`, `OneGetPerRequest`, `EachReportedOnce`, `CountsWhatWasStreamed`, `EveryClientServed`, `ThreadsComeBack`, `BenchmarkEnds` | a benchmark or a replay, and an accuracy run, on a server of two threads that strands one request |
| `engine_setup` | `Rises`, `WasteBounded`, `FewestBuckets`, `TablesReachPromise`, `MeasuredWasteBounded` | every ladder for 3 x 7 x 7 parameters, then every start with 4 x 2 x 2 options and passes at every position |
| `rope_growth_lost` | `ZeroKeepsGrowth` violated | finding 5 below |

**Bounds.**  `paged_safety`: pages of two tokens, five pages of which one is the
scratch page; budgets of 3 to 11 tokens need 2, 3, 4 or 6 pages, so that one
request fits beside another, fills the pool, or is rejected; two requests can
run and both be evicted for a third; a prefill budget of 5 lets some pairs of
prompts through and, after folding, defers the victim of an eviction to the next
step.  Requests are interchangeable, so that run uses symmetry; the liveness
runs do not.  `MaxFailures` bounds only how often an engine call raises.

`batched_modes`: two may run and a third waits; budgets of three
tokens let a request join a batch that has advanced already.  Its decode fails as a whole
(`FailingAfter = {0}`); finding 4 is what happens otherwise.

`paged_engine`: pages of three tokens and prompts of 1, 2 and 4 with three tokens to come
cross a page boundary at prefill, at decode, or not at all; seven pages force an eviction
when three long requests meet; buckets of 1 and 3 make a batch of two leave a dummy row,
and a batch of three followed by two leave a row to be restored; the rotary cap of 4 sends
some batches past the runner to flash-attn, so that a bucket is replayed after rows it does
not know of.  Running requests stand next to those that are prefilled, so that
`WritesStayInBatch` tells a write of the one call from one of the other.

Some limits are too large to be met in the small instances (three places for three requests
in `paged_safety`, results of one token in `load_client`); the theorems about
`BatchWithinLimits` and `CountsWhatWasStreamed` cover them.

`paged_live`: the two configurations have the requests that make them hard, two prompt
lengths that compete for the pool without recovery, budgets that outgrow it with recovery.

`load_client`: three requests, two of them of one client, one worker per client, two
threads.  A request that is given up leaves its thread busy, so that three gets share two
threads; the stranded request may be any.  One token and an end mark are enough for order,
since the end mark may not overtake the token.  One of the requests generates special tokens
only.

`engine_setup`: `min_b`, `max_b` and `max_waste` such that the quotient is whole at some
steps and not at others.  `FewestBuckets` compares the ladder that is returned with every
subset of the sizes, and counts the places in `cutShort` against it.  The caps lie below, at
and above the runner's (3, 5, 8 and 5), the model's limit below and above (4, 9), and
positions reach past all of them.  Two replays add up in one bucket or in two.

**Fairness.**  `FairSpec` of the schedulers asks weak fairness of `Start` (main calls it) and of the
scheduler thread as a whole: it is a thread of its own, takes `_lock` that others
hold only for an append, and an engine call returns or raises.  Nothing is
assumed of `AddRequest` and `Stop`.  In `TokenDelivery` the event loop runs a coroutine
that can go on, a thread whose `get` can return returns, and some free thread takes the
oldest job.  The scheduler ends each request that it does not strand, which `paged_live` and
`batched_modes` establish.  All of these steps are finite in number, so the fairness is that
of the whole group.  In `LoadClient` a worker that can go on does, an answer is read, and
deadlines pass (600 and 300 seconds); connections need not break, and a server need not
notice that a client is gone.  The liveness properties exempt what a stranded request brings
with it and the code does nothing about: the thread it holds, a server whose threads are all
held so, and a replay that waits for it.

`CHECK_DEADLOCK` stays on: `Idle` and `Stopped` are the only states in which the
thread has nothing to do, so a deadlock would be a scheduler stuck in a step,
for instance because `free` would raise.  It is off in `paged_engine`,
`load_client` and `engine_setup`, whose requests, clients and bounds come to an end.

**Findings.**

1. *Scratch page.*  The rejection test compares with `pool.num_pages`, one more
   than can ever be free when the CUDA graph runner holds its scratch page.  A
   request that needs exactly that many pages waits forever and blocks the queue.
2. *Eviction.*  The victim is put in front of the request it was evicted for and
   takes its pages back at once: an eviction never helps the head, and under
   pressure each step recomputes every running request.
3. *Failed prefill.*  An exception in the packed prefill leaves its requests
   `RUNNING` in no list, with their pages, and without an end mark.
4. *Failed extraction.*  The classic batched decode stores each request's grown cache before
   it samples the next one's token.  If that raises, the requests before it have a cache
   longer than their tokens, and the next step feeds their last token a second time, one
   position too far.
5. *Rotary tables.*  `--rope-cache-cap 0` is documented to keep dynamic growth.  With
   `--cuda-graph` the capture replaces `forward` by a closure over tables of 8192 positions,
   for eager passes too: a longer request, which admission lets in, indexes outside.  (A cap
   that is locked below 8192, by the option or by the model's limit, makes the capture itself
   index outside; `TablesReachPromise` says that start-up fails in no other case.)

## 4. Proofs

The theorems hold for every value of the constants that the named assumptions admit: every
set of requests, every pool, page size, limit, number of threads, clients, buckets and engine
failures.  The assumptions say what the code or its callers see to:

| assumption | says |
|---|---|
| `PoolAssumption` | a page and the pool are not empty |
| `ClientsAssumption` | there are finitely many holders of page tables |
| `SchedulerAssumption`, `BatchedAssumption` | prompts, budgets and limits are positive, the scratch pages fit in the pool |
| `EngineAssumption` | finitely many requests, prompts and budgets positive, a page has more than one token (`Engine.__init__` asks for a multiple of 256) |
| `RunnerAssumption` | there are buckets, finitely many, and all positive |
| `SetupAssumption`, `GridAssumption` | caps and limits are natural numbers, the runner's cap and the sizes positive |
| `DeliveryAssumption`, `LoadAssumption` | the streamed requests are requests, a client has a worker |

`AttendsOwn` and `TypeCorrect` of `BatchedSchedulerProofs` have one hypothesis more,
`FailingAfter = {0}`: a batched decode that raises does so before it replaces a cache.
Without it they are false of the code, which is finding 4; all other theorems about that
scheduler hold for any `FailingAfter`.

| module | proves |
|---|---|
| `SequenceLemmas` | lemmas on sequences: the elements and the absence of duplicates through append, pop, remove, push-front, concatenation, cutting; sums of a list, running totals, the concatenation of a list of sequences; that a finite strict order has a sorting |
| `KVMemoryPoolProofs` | lemmas on the pool: `pages_needed` rounds up; `allocate` cuts the free list in two; `free` of pages with one owner each returns all of them |
| `PoolClientsProofs` | `TypeOK`, `OwnersCounted`, `FreeListExact`, `ImplementsPagePool` |
| `PagedSchedulerProofs` | `TypeOK`, `PagesExclusive`, `NoPageLeaked`, `PageTableCoversDecode`, `StreamExact`, `OnePlace`, `FirstComeFirstServed`, `EvictedComesBackFirst`, `NoRequestLost`, `BatchWithinLimits`, `ImplementsLifecycle` |
| `BatchedSchedulerProofs` | `TypeOK`, `AttendsOwnSequence`, `NoRequestLost`, `FirstComeFirstServed`, `AdvanceTogether`, `BatchWithinLimits`, `ImplementsLifecycle` |
| `PagedEngineProofs` | `PagesHoldSequence`, `SampledFromOwnSequence`, `DummyRowsAreSafe`, `WritesStayInBatch` |
| `EngineSetupProofs` | `Rises` and `WasteBounded` of the ladder, alone and from the command line to the last replay; `FewestBuckets`; `TablesReachPromise`; `MeasuredWasteBounded` |
| `LoadClientProofs` | `DeliveredInOrder` and `OneGetPerRequest`, of the server alone and with its load generators; `EachReportedOnce`, `CountsWhatWasStreamed` |

**`PoolClientsProofs`.**  The three invariants are inductive together and in no smaller
company: `allocate` sets the counts of its pages to 1, which is right because free pages have
no owners (`FreeListExact`), and `free` returns the pages whose count is 1, which are those
with no other owner because counts are owners (`OwnersCounted`).  The lemma about owners says
how many there are when a holder joins or leaves.  The refinement maps `owners` to the set of
holders of a page; sharing a prefix is an abstract share of each of its pages.

**`PagedSchedulerProofs`.**  None of the properties is inductive as it stands.  `IInv` adds
what the code relies on without saying so:

* `Places`: at each point of `_step_paged`, which lists are empty, which are
  disjoint, and what status and how many outputs the requests of each have.  A
  waiting request has no outputs, also after an eviction (folding cleared them);
  a running one has at least one; a request nobody added is untouched.
* `Budgets`: prompt plus remaining budget is what the client asked for, prompt plus
  outputs is what it was sent, and an unfinished request has budget left.  This is
  why folding never makes `max_new_tokens` negative and why the next token of a
  batch is always the one the stream lacks.
* `PoolPartitioned`: free list, scratch pages and page tables partition the pool
  and a page's count is 0 when free and 1 otherwise.  This makes the
  `RuntimeError`s of the pool unreachable and lets `free` return whole tables.
* `PageTables`: exactly the admitted, unfinished requests have a page table, of the
  length admission computed.  With `Budgets` it bounds every position decode writes.

The step lemmas are one per action and part (`PlacesEvict`, `PromisesEvict`,
`PagesEvict`, ...); `StepPreserves` puts them together.

*Order.*  On top of `IInv`, `FirstComeFirstServed` and
`EvictedComesBackFirst` are inductive together, with `Started` (a request with outputs has
been sent some).  The step that matters is an eviction.  It is made for a head that does not
fit; so by `EvictedComesBackFirst` nobody evicted is waiting; so by `FirstComeFirstServed`
everybody who runs came before everybody who waits, the victim too, and it may go in front.
The pages it gives back are as many as it needs (`PageTables`, `Budgets`), and while it
waits, no other request takes any.  `OnTheWay` is `NoRequestLost` with the lists apart, and
with the place of each status at each point of the loop.

*Limits.*  `Limits` is `BatchWithinLimits` at every point of a step: `Placed` counts who runs or
is about to, `Packing` says that `packedTokens` is the sum over `toPrefill`.  A sum over a list
is a fold; that it grows by the last element is proved by comparing the fold with the function
on subsets of positions that it computes, which is unique (`SumsUnique`, by a least
counterexample).

*Refinement.*  It needs one fact more, `AdmittedFits`: a request that streamed a token passed the
size test when it was admitted and passes it again after an eviction, so that
`_reject_request` never ends a stream that has begun.  Each step is then an abstract
step (`AddIsSubmit`, `RejectIsRefuse`, `EvictIsPreempt`, `PrefillIsStart`,
`TokenIsEmit`) or changes nothing a client sees.

**`BatchedSchedulerProofs`.**  `Queues` is the picture the rest hangs on: `arrivals` is the
requests taken so far, then `to_prefill`, then `waiting`, in this order.  `Members` says which
of those taken are being decoded and which are finished, `Book` what each has been sent,
`Rows` that outputs do not increase along the list being decoded and that the list fits in
`max_running`.  `NobodyDropped` holds as long as no call has raised.
`FirstComeFirstServed` follows from `Queues` (who waits is the end of `arrivals`, whatever
raises) and `Book`.  `AdvanceTogether` is proved of a step (`Advance`), action by action: the
forward pass makes one token due to each request of the batch, and handing them out, one
after the other, changes what is due to nobody.  For `BatchWithinLimits`, `Stranded` are the
requests a raising call has made the scheduler forget; each such call adds one at most
(`StrandedCounted`), and who else has begun has a place in the batch (`ActiveFit`).  `Caches`
says, under `FailingAfter = {0}`, that a cache holds the sequence up to the token to be fed
(`Ready`), or, between the engine call and `zip`, up to the one that was (`Fed`); what a row
attends to after padding, masking and extraction is computed from that.

**`PagedEngineProofs`.**  `EInv` consists of `EngineTypes`; `Lists` (what the list a request is in
says about its counters and the length of its page table); `Holdings` (every page has one
holder: a request, the free list or the runner); `Stored` (a running request's pages hold its
sequence); `DummiesStaged`.  The kernels come in by one contract, `Appends`: for rows whose page
tables are disjoint, without duplicates, long enough and free of the scratch page
(`RowsFit`), each row's entry is written at its next position and read back behind what was
there, and `Appended` says of every other slot that it keeps its entry unless it is in the
scratch page.  It is proved of each of the three
kernels (`FlashAppends`, `FlashInferAppends`, `ForwardAppends`), for FlashInfer by way of the
arrays of its plan (`PlanIsExact`).  Of the order of the rows it is used only that it is a
permutation and the inverse its inverse; that `LptOrder`'s sorting exists is `OrderExists`.
For a prefill, `PackedAt` says where each prompt is in the packed arrays, and `PartCutOut` that
`cu_seqlens` cuts it out.  A batch that raises after its writes is harmless since what it wrote
is behind the stored part of each of its own requests (`DecodeRaisesStep`).
`WritesStayInBatch` takes the two callers apart: the slots that `Appended` lets change are the
next positions of the running requests, those of a prefill are the positions of its prompts,
and by `Holdings` such a slot is in a page of nobody else (`PagesAreOwn`).

**`EngineSetupProofs`.**  `WasteBounded` speaks of a least bucket, which
`CHOOSE` must find; `Placed` carries, for each batch size, the place of that bucket from
turn to turn, so that no induction over the ladder is needed.  `NextBucketFits` is the
arithmetic: what the quotient, cut short or not, allows.  `Greedy` is its converse: a bucket
larger than the one chosen would waste too much on the batch just above the one before,
except after the places in `cutShort`.  So any set of buckets that serves all batches has one
in each other gap of the ladder (`OneInEachGap`), hence as many buckets less one for each of
those places: `FewestBuckets` by an injection, without induction.  For start-up,
`TablesFilled` says that a cap is the length of the tables for good, `GraphsBound` that what
the graphs are bound to reaches both the runner's cap and the promised length.  `StatInv`
bounds the padding counters of a bucket from both sides by its replays, each of which has a
live row, no more than its bucket has, and no less than `WasteBounded` asks for.

**`LoadClientProofs`.**  `OneJob` says where the get of a request is, and
that it is in one place; `Sent` compares what a client was sent with the stream position by
position.  Order needs both: two gets of one request could be answered in either order.
The scheduler's side is `RequestLifecycle`, which the two schedulers implement, less the step
that puts a request back in the queue and nothing on its stream.  `LoadIsDelivery` then says
that with the load generators the server takes no step that `TokenDelivery` alone does not
allow, so that both theorems hold of the specification that the run `load_client` checks.  For
the reports, `Accounted` places each request in exactly one of backlog, flight and results, and
`CountedFor` and `Truthful` compare counters and results with what was sent; `Ends`
adds that a stream with an end mark has ended.

**Only model-checked.**  All liveness (`EveryRequestFinishes`, `EveryClientServed`,
`ThreadsComeBack`, `BenchmarkEnds`): TLAPS as used here proves nothing under fairness.  That
the loop of `BucketGrid` ends follows from `Rises`: each turn makes the ladder longer, and it
has no more buckets than there are sizes up to `max_b`.  Every invariant
and every action property that a passing run checks is proved.  That the sorting `LptOrder`
chooses is the only one (Python's stable sort) is not needed by any theorem.

## 5. Not modelled

* Tensor arithmetic, weights and tokenisation; wording, logging and statistics output;
  the command line's parsing.
* The sampler's filters: a pure function of floating-point logits.  That folding loses the
  history of the repetition penalty is listed as a hazard.
* `from_budget`, the size of the pool in bytes: a formula evaluated once.
* What the warm-up of a capture computes: it goes to the scratch page.
* Errors on the server's own path (writing to the client).
* An exception of `engine.decode_token` while the tokens of a batch are handed out
  (`scheduler.py:301`, caught at `scheduler.py:107`).  In the models only forward passes raise.
  It would leave the requests of the batch that had finished by then in `running`, so that
  the next step decodes them again.
* `min_b` above 1: batches below the first bucket waste more than `max_waste`, since the
  greedy choice only looks upwards, although the docstring promises the tolerance for any
  live batch (`bucket_grid.py:8`).  `WasteBounded` and `FewestBuckets` speak of batches from
  `min_b` on, and `MeasuredWasteBounded` promises less of that bucket.
* Of the load generators: loading of data sets, synthetic prompts, time stamps, the moments
  of arrival, scoring of answers and the printed statistics.
* The notebook `colab/run_miniengine.ipynb`: shell commands.

## 6. Plan

Done, in this order: `KVMemoryPool`, `PoolClients`, `PagedScheduler`, `RequestLifecycle` and
their proofs; `BatchedScheduler`; `PagedEngine` with its parts; `TokenDelivery`; `BucketGrid`;
`ClassicEngine`; `EngineSetup`; `LoadClient`; the proofs of order, delivery and tables; the
proofs of the pool's clients, the batched scheduler, the load generators, the contents of the
pages and the choice of buckets, with which every safety property of the runs has a theorem.

What would come next:

1. Proofs that join the levels: that `PagedScheduler` makes only the calls that `PagedEngine`
   has in its place, so that what is proved of the contents of the pages holds under the
   scheduler's own decisions; that `TokenDelivery`'s scheduler steps are those that
   `RequestLifecycle` allows.
2. The history of the repetition penalty across a fold, once the code says what it should be:
   the fold empties the list that the penalty reads.
3. `stop` with requests in flight, once the code ends their streams: `TokenDelivery` has the
   stranded requests that it leaves now.
