--------------------------- MODULE PagedScheduler ---------------------------
(***************************************************************************)
(* The scheduler of miniengine/scheduler.py in mode "paged", with the KV   *)
(* pool it allocates from.  One scheduler thread runs _loop and, in it,    *)
(* _step_paged; server coroutines call add_request and the main thread     *)
(* calls start and stop while it runs.                                     *)
(*                                                                         *)
(* The scheduler thread advances one admission decision, one engine call   *)
(* or one emitted token at a time, so that the other threads interleave    *)
(* wherever the code lets them: everywhere except between the acquisition  *)
(* and the release of _lock (pc = "admit").                                *)
(*                                                                         *)
(* Tokens are named by their place in the request's sequence, prompt       *)
(* first, from 1: an engine call returns the token after the last one it   *)
(* was given.  Which of them is a stop token is left open.                 *)
(***************************************************************************)
EXTENDS KVMemoryPool, SequencesExt

CONSTANTS
    Requests,
    PromptLens,         \* lengths of the prompts that clients send
    MaxNews,            \* values of max_new_tokens that clients send
    MaxRunning,         \* max_running
    PrefillBudget,      \* engine.prefill_token_budget, 0 = no cap
    RecomputeRecovery,  \* engine.recompute_recovery
    ScratchPages,       \* pages CudaGraphRunner keeps for itself (1) or none (0)
    MaxFailures         \* bound on the engine calls that raise

ASSUME SchedulerAssumption ==
    /\ PromptLens \subseteq Nat \ {0}
    /\ MaxNews \subseteq Nat \ {0}
    /\ MaxRunning \in Nat \ {0}
    /\ PrefillBudget \in Nat
    /\ RecomputeRecovery \in BOOLEAN
    /\ ScratchPages \in Nat /\ ScratchPages <= NumPages
    /\ MaxFailures \in Nat

VARIABLES
    \* --- the requests (core.py, Request) ---
    asked,          \* what the client sent: prompt length and max_new_tokens
    status,         \* status
    numInput,       \* num_input_tokens
    numOutput,      \* num_output_tokens
    maxNew,         \* sampling_params.max_new_tokens
    kv,             \* kv_cache: the page table, <<>> for None
    stream,         \* everything put on token_queue so far
    \* --- the scheduler object ---
    waiting,        \* the deque of requests to admit
    running,        \* the list of requests that decode
    runningFlag,    \* _running_flag
    totalFinished, totalGenerated,
    \* --- the scheduler thread: where it is, and the locals of _step_paged ---
    pc,
    toPrefill,      \* to_prefill
    packedTokens,   \* packed_tokens
    evictionsLeft,  \* evictions_remaining
    batch,          \* the requests of an engine call whose token is not handled yet
    stillRunning,   \* still_running
    \* --- history ---
    arrivals,       \* the requests added so far, in that order
    failures        \* engine calls that raised so far

requestVars == <<asked, status, numInput, numOutput, maxNew, kv, stream>>
queueVars   == <<waiting, running>>
localVars   == <<toPrefill, packedTokens, evictionsLeft, batch, stillRunning>>
statVars    == <<totalFinished, totalGenerated>>
vars == <<poolVars, requestVars, queueVars, runningFlag, statVars, pc, localVars,
          arrivals, failures>>

\* TokenOutput(token_id=-1, finished=True), the end of a stream.
EndMark == 0

----------------------------------------------------------------------------
\* Initial state: the objects exist, start() has not been called.  With CUDA
\* graphs on, CudaGraphRunner has taken its scratch page from the pool.

RequestInit ==
    /\ asked \in [Requests -> [prompt : PromptLens, maxNew : MaxNews]]
    /\ status = [r \in Requests |-> "WAITING"]
    /\ numInput = [r \in Requests |-> asked[r].prompt]
    /\ numOutput = [r \in Requests |-> 0]
    /\ maxNew = [r \in Requests |-> asked[r].maxNew]
    /\ kv = [r \in Requests |-> <<>>]
    /\ stream = [r \in Requests |-> <<>>]

\* Slip: pages numbered from 1.
PoolNumberedFromOne ==
    /\ free = [i \in 1 .. NumPages - ScratchPages |-> ScratchPages + i]
    /\ refcount = [p \in Pages |-> IF p < ScratchPages THEN 1 ELSE 0]

PoolAfterScratch ==
    /\ free = [i \in 1 .. NumPages - ScratchPages |-> ScratchPages + i - 1]
    /\ refcount = [p \in Pages |-> IF p < ScratchPages THEN 1 ELSE 0]

Init ==
    /\ PoolAfterScratch
    /\ RequestInit
    /\ waiting = <<>> /\ running = <<>>
    /\ runningFlag = FALSE
    /\ totalFinished = 0 /\ totalGenerated = 0
    /\ pc = "unstarted"
    /\ toPrefill = <<>> /\ packedTokens = 0 /\ evictionsLeft = 0
    /\ batch = <<>> /\ stillRunning = <<>>
    /\ arrivals = <<>>
    /\ failures = 0

----------------------------------------------------------------------------
\* Other threads.

\* A server coroutine: a new Request is appended under _lock.
AddRequest(r) ==
    /\ pc # "admit"
    /\ r \notin Range(arrivals)
    /\ waiting' = Append(waiting, r)
    /\ arrivals' = Append(arrivals, r)
    /\ UNCHANGED <<poolVars, requestVars, running, runningFlag, statVars, pc,
                   localVars, failures>>

Start ==
    /\ pc = "unstarted"
    /\ runningFlag' = TRUE
    /\ pc' = "loop"
    /\ UNCHANGED <<poolVars, requestVars, queueVars, statVars, localVars,
                   arrivals, failures>>

Stop ==
    /\ runningFlag
    /\ runningFlag' = FALSE
    /\ UNCHANGED <<poolVars, requestVars, queueVars, statVars, pc, localVars,
                   arrivals, failures>>

----------------------------------------------------------------------------
\* Phase 1, under _lock: admission, one decision on the queue's head at a time.

\* Slip: admission pays for the prompt and the first token only.
BudgetOfPrompt(r) == numInput[r] + 1

Budget(r) == numInput[r] + maxNew[r]
Needed(r) == PagesNeeded(Budget(r))

TooBig(r) == Needed(r) > NumPages
Fits(r) == Needed(r) <= NumFree

MayEvict == RecomputeRecovery /\ running # <<>> /\ evictionsLeft > 0

\* Slip: the budget is compared before the head's tokens are counted.
OverBudgetAlready(r) == /\ PrefillBudget > 0
                        /\ toPrefill # <<>>
                        /\ packedTokens > PrefillBudget

OverPrefillBudget(r) == /\ PrefillBudget > 0
                        /\ toPrefill # <<>>
                        /\ packedTokens + numInput[r] > PrefillBudget

\* The condition of the admission loop.
RoomToAdmit == waiting # <<>> /\ Len(running) + Len(toPrefill) < MaxRunning

\* _loop with something to do calls step, which takes _lock.
BeginStep ==
    /\ pc = "loop" /\ runningFlag
    /\ waiting # <<>> \/ running # <<>>
    /\ pc' = "admit"
    /\ evictionsLeft' = IF RecomputeRecovery THEN Len(running) ELSE 0
    /\ UNCHANGED <<poolVars, requestVars, queueVars, runningFlag, statVars,
                   toPrefill, packedTokens, batch, stillRunning, arrivals, failures>>

\* _reject_request.  A waiting request holds no pages, so _release_kv does nothing.
Reject(r) ==
    /\ status' = [status EXCEPT ![r] = "FINISHED"]
    /\ stream' = [stream EXCEPT ![r] = Append(@, EndMark)]
    /\ totalFinished' = totalFinished + 1

\* The head can never fit.
RejectHead ==
    /\ pc = "admit" /\ RoomToAdmit
    /\ TooBig(Head(waiting))
    /\ Reject(Head(waiting))
    /\ waiting' = Tail(waiting)
    /\ UNCHANGED <<poolVars, asked, numInput, numOutput, maxNew, kv, running,
                   runningFlag, totalGenerated, pc, localVars, arrivals, failures>>

\* Slip: the page table is dropped without giving its pages back.
DropKv(r) == kv' = [kv EXCEPT ![r] = <<>>] /\ UNCHANGED poolVars

\* _release_kv, and what eviction does with the victim's pages.
ReleaseKv(r) == Free(kv[r]) /\ kv' = [kv EXCEPT ![r] = <<>>]

\* The first of the running requests with the fewest output tokens.
IsVictim(i) ==
    \A j \in DOMAIN running :
        \/ numOutput[running[i]] < numOutput[running[j]]
        \/ numOutput[running[i]] = numOutput[running[j]] /\ i <= j

\* Slip: the streamed tokens are dropped from the prompt.
FoldForgetsTokens(v) ==
    /\ maxNew' = [maxNew EXCEPT ![v] = @ - numOutput[v]]
    /\ numOutput' = [numOutput EXCEPT ![v] = 0]
    /\ UNCHANGED numInput

\* Slip: the remaining budget is not reduced.
FoldKeepsBudget(v) ==
    /\ numInput' = [numInput EXCEPT ![v] = @ + numOutput[v]]
    /\ numOutput' = [numOutput EXCEPT ![v] = 0]
    /\ UNCHANGED maxNew

\* What was streamed becomes part of the prompt that is prefilled next time.
Fold(v) ==
    /\ numInput' = [numInput EXCEPT ![v] = @ + numOutput[v]]
    /\ maxNew' = [maxNew EXCEPT ![v] = @ - numOutput[v]]
    /\ numOutput' = [numOutput EXCEPT ![v] = 0]

\* Slip: the victim stays in running.
StayRunning(i) == UNCHANGED running

LeaveRunning(i) == running' = RemoveAt(running, i)

\* Slip: append where the code says appendleft.
RequeueLast(v) == waiting' = Append(waiting, v)

\* Slip: the victim is not put back at all.
RequeueNot(v) == UNCHANGED waiting

Requeue(v) == waiting' = <<v>> \o waiting

\* _evict_lowest_progress: the victim gives its pages back and waits first.
Evict(i) ==
    LET v == running[i] IN
    /\ LeaveRunning(i)
    /\ ReleaseKv(v)
    /\ Fold(v)
    /\ status' = [status EXCEPT ![v] = "WAITING"]
    /\ Requeue(v)

EvictForHead ==
    /\ pc = "admit" /\ RoomToAdmit
    /\ ~ TooBig(Head(waiting))
    /\ ~ Fits(Head(waiting))
    /\ MayEvict
    /\ \E i \in DOMAIN running : IsVictim(i) /\ Evict(i)
    /\ evictionsLeft' = evictionsLeft - 1
    /\ UNCHANGED <<asked, stream, runningFlag, statVars, pc, toPrefill, packedTokens,
                   batch, stillRunning, arrivals, failures>>

AdmitHead ==
    /\ pc = "admit" /\ RoomToAdmit
    /\ LET r == Head(waiting) IN
       /\ ~ TooBig(r)
       /\ Fits(r)
       /\ ~ OverPrefillBudget(r)
       /\ Allocate(Needed(r))
       /\ kv' = [kv EXCEPT ![r] = Allocated(Needed(r))]
       /\ toPrefill' = Append(toPrefill, r)
       /\ packedTokens' = packedTokens + numInput[r]
    /\ waiting' = Tail(waiting)
    /\ UNCHANGED <<asked, status, numInput, numOutput, maxNew, stream, running,
                   runningFlag, statVars, pc, evictionsLeft, batch, stillRunning,
                   arrivals, failures>>

\* What the step does once nothing is left to prefill.
AfterPrefill == IF running = <<>> THEN "loop" ELSE "decode"

\* The loop's condition fails, or one of its two breaks is taken.
EndAdmission ==
    /\ pc = "admit"
    /\ RoomToAdmit => LET r == Head(waiting) IN
                      /\ ~ TooBig(r)
                      /\ IF Fits(r) THEN OverPrefillBudget(r) ELSE ~ MayEvict
    /\ pc' = IF toPrefill = <<>> THEN AfterPrefill ELSE "prefill"
    /\ packedTokens' = 0 /\ evictionsLeft' = 0
    /\ UNCHANGED <<poolVars, requestVars, queueVars, runningFlag, statVars,
                   toPrefill, batch, stillRunning, arrivals, failures>>

----------------------------------------------------------------------------
\* Phases 2 and 3: an engine call, then its tokens one request at a time.

\* engine.batched_prefill(to_prefill): either returns a token per request, or
\* raises, which leaves the step and is only logged by _loop.
Prefill ==
    /\ pc = "prefill"
    /\ status' = [r \in Requests |-> IF r \in Range(toPrefill) THEN "RUNNING"
                                                               ELSE status[r]]
    /\ toPrefill' = <<>>
    /\ \/ /\ pc' = "emitPrefill"
          /\ batch' = toPrefill
          /\ UNCHANGED failures
       \/ /\ failures < MaxFailures
          /\ failures' = failures + 1
          /\ pc' = "loop"
          /\ UNCHANGED batch
    /\ UNCHANGED <<poolVars, asked, numInput, numOutput, maxNew, kv, stream, queueVars,
                   runningFlag, statVars, packedTokens, evictionsLeft, stillRunning,
                   arrivals>>

\* engine.batched_decode(running): the same, on the requests that run.
Decode ==
    /\ pc = "decode"
    /\ \/ /\ pc' = "emitDecode"
          /\ batch' = running
          /\ UNCHANGED failures
       \/ /\ failures < MaxFailures
          /\ failures' = failures + 1
          /\ pc' = "loop"
          /\ UNCHANGED batch
    /\ UNCHANGED <<poolVars, requestVars, queueVars, runningFlag, statVars, toPrefill,
                   packedTokens, evictionsLeft, stillRunning, arrivals>>

\* _paged_kv_length(r): the positions r has in its pages, and so the position
\* the decode kernel writes next.
KvLength(r) == numInput[r] + (IF numOutput[r] = 0 THEN 0 ELSE numOutput[r] - 1)

\* The token an engine call returns follows the last one it was given: the
\* prompt's last at prefill, the one at position KvLength at decode.
PrefillToken(r) == numInput[r] + 1
DecodeToken(r) == KvLength(r) + 2

\* Slip: the count is taken before the token is appended.
OutOfBudgetLate(r) == numOutput[r] >= maxNew[r]

\* is_finished once the token has been appended.  _check_finished also stops on
\* a stop token, which any token may be.
OutOfBudget(r) == numOutput[r] + 1 >= maxNew[r]

\* output_ids.append and _stream_token.
KeepGoing(r, token) ==
    /\ numOutput' = [numOutput EXCEPT ![r] = @ + 1]
    /\ stream' = [stream EXCEPT ![r] = Append(@, token)]
    /\ UNCHANGED <<poolVars, asked, status, numInput, maxNew, kv, statVars>>

\* The same, then _finish_request.
FinishRequest(r, token) ==
    /\ numOutput' = [numOutput EXCEPT ![r] = @ + 1]
    /\ stream' = [stream EXCEPT ![r] = @ \o <<token, EndMark>>]
    /\ status' = [status EXCEPT ![r] = "FINISHED"]
    /\ ReleaseKv(r)
    /\ totalFinished' = totalFinished + 1
    /\ totalGenerated' = totalGenerated + numOutput[r] + 1
    /\ UNCHANGED <<asked, numInput, maxNew>>

\* One turn of the loop over the prefilled requests.
EmitPrefill ==
    /\ pc = "emitPrefill" /\ batch # <<>>
    /\ LET r == Head(batch) IN
       \/ /\ FinishRequest(r, PrefillToken(r))
          /\ UNCHANGED running
       \/ /\ ~ OutOfBudget(r)
          /\ KeepGoing(r, PrefillToken(r))
          /\ running' = Append(running, r)
    /\ batch' = Tail(batch)
    /\ UNCHANGED <<waiting, runningFlag, pc, toPrefill, packedTokens, evictionsLeft,
                   stillRunning, arrivals, failures>>

EndPrefill ==
    /\ pc = "emitPrefill" /\ batch = <<>>
    /\ pc' = AfterPrefill
    /\ UNCHANGED <<poolVars, requestVars, queueVars, runningFlag, statVars, localVars,
                   arrivals, failures>>

\* One turn of the loop over the decoded requests; running still lists them all.
EmitDecode ==
    /\ pc = "emitDecode" /\ batch # <<>>
    /\ LET r == Head(batch) IN
       \/ /\ FinishRequest(r, DecodeToken(r))
          /\ UNCHANGED stillRunning
       \/ /\ ~ OutOfBudget(r)
          /\ KeepGoing(r, DecodeToken(r))
          /\ stillRunning' = Append(stillRunning, r)
    /\ batch' = Tail(batch)
    /\ UNCHANGED <<queueVars, runningFlag, pc, toPrefill, packedTokens, evictionsLeft,
                   arrivals, failures>>

EndDecode ==
    /\ pc = "emitDecode" /\ batch = <<>>
    /\ running' = stillRunning
    /\ stillRunning' = <<>>
    /\ pc' = "loop"
    /\ UNCHANGED <<poolVars, requestVars, waiting, runningFlag, statVars, toPrefill,
                   packedTokens, evictionsLeft, batch, arrivals, failures>>

----------------------------------------------------------------------------
\* The loop when it has nothing to do, and its end.

\* Nothing to do: the thread sleeps and looks again.
Idle == /\ pc = "loop" /\ runningFlag
        /\ waiting = <<>> /\ running = <<>>
        /\ UNCHANGED vars

Exit == /\ pc = "loop" /\ ~ runningFlag
        /\ pc' = "stopped"
        /\ UNCHANGED <<poolVars, requestVars, queueVars, runningFlag, statVars,
                       localVars, arrivals, failures>>

\* The thread has ended; nothing is left to run.
Stopped == pc = "stopped" /\ UNCHANGED vars

Admission == BeginStep \/ RejectHead \/ EvictForHead \/ AdmitHead \/ EndAdmission
EngineStep == Prefill \/ EmitPrefill \/ EndPrefill \/ Decode \/ EmitDecode \/ EndDecode

SchedulerStep == Admission \/ EngineStep \/ Idle \/ Exit \/ Stopped

OtherThreads == Start \/ Stop \/ \E r \in Requests : AddRequest(r)

Next == SchedulerStep \/ OtherThreads

Spec == Init /\ [][Next]_vars

\* The scheduler thread keeps getting the processor once it is started, and
\* an engine call returns or raises.
FairSpec == Spec /\ WF_vars(Start) /\ WF_vars(SchedulerStep)

----------------------------------------------------------------------------
\* Where the unfinished requests are.

Prefilling == IF pc = "emitPrefill" THEN batch ELSE toPrefill
Decoding   == IF pc = "emitDecode" THEN batch \o stillRunning ELSE running

Scratch == 0 .. ScratchPages - 1

\* The tokens generated for r so far, over all of its runs.
Streamed(r) == Len(stream[r]) - (IF status[r] = "FINISHED" THEN 1 ELSE 0)

ProgramCounters == {"unstarted", "loop", "admit", "prefill", "emitPrefill", "decode",
                    "emitDecode", "stopped"}

\* Every variable keeps its type.
TypeOK ==
    /\ PoolTypeOK
    /\ asked \in [Requests -> [prompt : PromptLens, maxNew : MaxNews]]
    /\ status \in [Requests -> {"WAITING", "RUNNING", "FINISHED"}]
    /\ numInput \in [Requests -> Nat]
    /\ numOutput \in [Requests -> Nat]
    /\ maxNew \in [Requests -> Nat]
    /\ kv \in [Requests -> Seq(Pages)]
    /\ stream \in [Requests -> Seq(Nat)]
    /\ waiting \in Seq(Requests) /\ running \in Seq(Requests)
    /\ runningFlag \in BOOLEAN
    /\ totalFinished \in Nat /\ totalGenerated \in Nat
    /\ pc \in ProgramCounters
    /\ toPrefill \in Seq(Requests) /\ batch \in Seq(Requests)
    /\ stillRunning \in Seq(Requests)
    /\ packedTokens \in Nat /\ evictionsLeft \in Nat
    /\ arrivals \in Seq(Requests)
    /\ failures \in Nat

\* No page is in two places: not twice in the free list or a page table, not in
\* two page tables, not free while a page table lists it, and the scratch pages
\* of the CUDA graph runner in none.  Two requests would overwrite each other's
\* keys and values (allocate, free, _release_kv, _evict_lowest_progress).
PagesExclusive ==
    /\ IsInjective(free)
    /\ \A r \in Requests : IsInjective(kv[r])
    /\ \A r, s \in Requests : r # s => Range(kv[r]) \cap Range(kv[s]) = {}
    /\ \A r \in Requests : Range(kv[r]) \cap Range(free) = {}
    /\ \A r \in Requests : Range(kv[r]) \cap Scratch = {}
    /\ Range(free) \cap Scratch = {}

\* No page is lost through evictions, rejections, finishes and engine failures:
\* every page is free or held, its count says which, and the requests that hold
\* pages are those admitted and not finished; one that waits, also after an
\* eviction, and one that is done hold none.
NoPageLeaked ==
    /\ Pages = Range(free) \cup Scratch \cup UNION {Range(kv[r]) : r \in Requests}
    /\ \A p \in Pages : refcount[p] = IF p \in Range(free) THEN 0 ELSE 1
    /\ \A r \in Requests :
          (kv[r] # <<>>) <=> (status[r] = "RUNNING" \/ r \in Range(toPrefill))

\* The page table given at admission has a slot for the position each decode step
\* writes, and holds every position it reads, whatever was folded into the prompt
\* before (the bound the paged kernels and FlashInfer's plan rely on).
PageTableCoversDecode ==
    pc = "decode" => \A r \in Range(running) :
                        /\ KvLength(r) < Len(kv[r]) * PageSize
                        /\ numInput[r] <= KvLength(r)

\* Folding loses nothing: prompt plus budget stay what the client asked for, and
\* prompt plus outputs stay what the client has been sent.
FoldConservesTokens ==
    \A r \in Requests :
        /\ numInput[r] + maxNew[r] = asked[r].prompt + asked[r].maxNew
        /\ numInput[r] + numOutput[r] = asked[r].prompt + Streamed(r)

\* The client of r reads the tokens after its prompt, each once and in order, at
\* most as many as it asked for, and the end mark exactly when r is finished,
\* last: also when r was evicted and run again in between.
StreamExact ==
    \A r \in Requests :
        /\ Streamed(r) <= asked[r].maxNew
        /\ \A k \in 1 .. Streamed(r) : stream[r][k] = asked[r].prompt + k
        /\ status[r] = "FINISHED" => stream[r] # <<>> /\ Last(stream[r]) = EndMark

\* A request is in one place at a time: once in the waiting queue, or once among
\* the requests being prefilled or decoded, and in none once it is finished.
OnePlace ==
    LET live == waiting \o Prefilling \o Decoding
    IN  /\ IsInjective(live)
        /\ \A r \in Range(live) : r \in Range(arrivals) /\ status[r] # "FINISHED"

\* A request whose status is RUNNING is being prefilled or decoded (core.py on
\* RequestStatus.RUNNING: "Actively being prefilled or decoded").
RunningIsActive ==
    \A r \in Requests : status[r] = "RUNNING" => r \in Range(Prefilling \o Decoding)

\* Unless an engine call has raised, a request that was added and is not finished
\* is still on its way: in the queue, being prefilled or being decoded.
NoRequestLost ==
    failures = 0 => /\ RunningIsActive
                    /\ \A r \in Range(arrivals) :
                          status[r] = "WAITING" => r \in Range(waiting \o toPrefill)

Earlier(r, s) == \E i, j \in DOMAIN arrivals : i < j /\ arrivals[i] = r /\ arrivals[j] = s

\* First come, first served: the queue is in order of arrival, evicted requests
\* included, and nobody is started while somebody who came earlier has not been.
FirstComeFirstServed ==
    /\ \A i, j \in DOMAIN waiting : i < j => Earlier(waiting[i], waiting[j])
    /\ \A r \in Range(waiting), s \in Requests :
          stream[r] = <<>> /\ Earlier(r, s) => s \in Range(waiting) /\ stream[s] = <<>>

\* An evicted request waits at the head of the queue, is the only one to do so,
\* and finds the pages it needs: nobody takes them before it comes back.
EvictedComesBackFirst ==
    \A i \in DOMAIN waiting : stream[waiting[i]] # <<>> => i = 1 /\ Fits(waiting[1])

\* A batch stays within both limits: max_running requests with a place in it, and
\* in a packed prefill the token budget unless it is a single request, also when
\* the prompts have grown by folding.
BatchWithinLimits ==
    /\ Len(Prefilling) + Len(Decoding) <= MaxRunning
    /\ pc = "prefill" /\ PrefillBudget > 0 =>
          \/ Len(toPrefill) = 1
          \/ FoldLeft(LAMBDA sum, r : sum + numInput[r], 0, toPrefill) <= PrefillBudget

\* What clients see is a step of the abstract lifecycle, whatever batches,
\* evictions and failures happen underneath.
Lifecycle == INSTANCE RequestLifecycle WITH
                 phase <- [r \in Requests |-> IF r \in Range(arrivals) THEN status[r]
                                                                       ELSE "new"]

ImplementsLifecycle == Lifecycle!Spec

\* An eviction makes room for the request at the head: the admission that is
\* tried next is that request's (_evict_lowest_progress, "caller can retry head
\* admission").
EvictionRetriesHead ==
    [][pc = "admit" /\ Len(running') < Len(running) => Head(waiting') = Head(waiting)]_vars

\* Every request that is added gets its end mark, unless the server is stopped:
\* no queue position, batch composition or eviction starves it.
EveryRequestFinishes ==
    \A r \in Requests :
        r \in Range(arrivals) ~> status[r] = "FINISHED" \/ pc = "stopped"

=============================================================================
