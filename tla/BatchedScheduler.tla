-------------------------- MODULE BatchedScheduler --------------------------
(***************************************************************************)
(* The scheduler of miniengine/scheduler.py in its modes "batched" and     *)
(* "baseline", with the classic engine paths of miniengine/engine.py and    *)
(* the per-request KV caches they fill, read and extend (ClassicEngine).   *)
(*                                                                         *)
(* Tokens are named by their place in the request's sequence, counted by   *)
(* the scheduler.  Which of them is a stop token is left open.  What a     *)
(* token was computed from is not in its name but in attended: that is     *)
(* where a cache of a wrong length or with a stranger's keys shows.        *)
(***************************************************************************)
EXTENDS ClassicEngine, FiniteSets, Functions

CONSTANTS
    Requests,
    PromptLens,     \* lengths of the prompts that clients send
    MaxNews,        \* values of max_new_tokens that clients send
    MaxRunning,     \* max_running
    Modes,          \* the modes the scheduler may have been built with
    MaxFailures,    \* bound on the engine calls that raise
    FailingAfter    \* how many caches a failing decode may have replaced: 0 when
                    \* the forward pass raises, more when extraction does

ASSUME BatchedAssumption ==
    /\ PromptLens \subseteq Nat \ {0}
    /\ MaxNews \subseteq Nat \ {0}
    /\ MaxRunning \in Nat \ {0}
    /\ Modes \subseteq {"batched", "baseline"}
    /\ MaxFailures \in Nat
    /\ FailingAfter \subseteq Nat /\ 0 \in FailingAfter

VARIABLES
    mode,
    asked,          \* what the client sent: prompt length and max_new_tokens
    status, numOutput,
    cache,          \* kv_cache, <<>> for None
    attended,       \* history: the keys each request's last token was computed from
    stream,         \* everything put on token_queue so far
    waiting, running, runningFlag,
    totalFinished,
    pc,             \* where the scheduler thread is
    toPrefill,      \* what the for loop over to_prefill has left; baseline: [req]
    batch,          \* what the zip over the decoded requests has left
    stillRunning,
    arrivals,       \* history: the requests added so far, in that order
    failures        \* history: engine calls that raised

requestVars == <<asked, status, numOutput, cache, attended, stream>>
localVars   == <<toPrefill, batch, stillRunning>>
vars == <<mode, requestVars, waiting, running, runningFlag, totalFinished, pc, localVars,
          arrivals, failures>>

EndMark == 0

Init ==
    /\ mode \in Modes
    /\ asked \in [Requests -> [prompt : PromptLens, maxNew : MaxNews]]
    /\ status = [r \in Requests |-> "WAITING"]
    /\ numOutput = [r \in Requests |-> 0]
    /\ cache = [r \in Requests |-> <<>>]
    /\ attended = [r \in Requests |-> {}]
    /\ stream = [r \in Requests |-> <<>>]
    /\ waiting = <<>> /\ running = <<>> /\ runningFlag = FALSE
    /\ totalFinished = 0
    /\ pc = "unstarted"
    /\ toPrefill = <<>> /\ batch = <<>> /\ stillRunning = <<>>
    /\ arrivals = <<>> /\ failures = 0

----------------------------------------------------------------------------
\* Other threads.  The two modes hold _lock for one assignment only, so adding
\* may come between any two steps.

AddRequest(r) ==
    /\ r \notin Range(arrivals)
    /\ waiting' = Append(waiting, r)
    /\ arrivals' = Append(arrivals, r)
    /\ UNCHANGED <<mode, requestVars, running, runningFlag, totalFinished, pc, localVars,
                   failures>>

Start == /\ pc = "unstarted"
         /\ runningFlag' = TRUE
         /\ pc' = "loop"
         /\ UNCHANGED <<mode, requestVars, waiting, running, totalFinished, localVars,
                        arrivals, failures>>

Stop == /\ runningFlag
        /\ runningFlag' = FALSE
        /\ UNCHANGED <<mode, requestVars, waiting, running, totalFinished, pc, localVars,
                       arrivals, failures>>

----------------------------------------------------------------------------
\* What the modes share: tokens and the end of a request.

\* Slip: the count is taken before the token is appended.
OutOfBudgetLate(r) == numOutput[r] >= asked[r].maxNew

OutOfBudget(r) == numOutput[r] + 1 >= asked[r].maxNew

\* output_ids.append, _stream_token, and the request goes on.
KeepGoing(r, token) ==
    /\ ~ OutOfBudget(r)
    /\ numOutput' = [numOutput EXCEPT ![r] = @ + 1]
    /\ stream' = [stream EXCEPT ![r] = Append(@, token)]
    /\ UNCHANGED <<asked, status, cache, attended, totalFinished>>

\* The same, then _finish_request: out of budget, or any token was a stop token.
FinishRequest(r, token) ==
    /\ numOutput' = [numOutput EXCEPT ![r] = @ + 1]
    /\ stream' = [stream EXCEPT ![r] = @ \o <<token, EndMark>>]
    /\ status' = [status EXCEPT ![r] = "FINISHED"]
    /\ cache' = [cache EXCEPT ![r] = <<>>]
    /\ totalFinished' = totalFinished + 1
    /\ UNCHANGED <<asked, attended>>

\* The place of output_ids[-1], the last token of r so far.
LastPlace(r) == asked[r].prompt + numOutput[r]

\* The name of the token that a forward pass on the last one returns.
NextToken(r) == LastPlace(r) + 1

\* A call of the engine raises; _loop logs it, and the locals of the step are gone.
Fail == /\ failures < MaxFailures
        /\ failures' = failures + 1
        /\ pc' = "loop"
        /\ toPrefill' = <<>>
        /\ UNCHANGED <<mode, asked, numOutput, stream, waiting, running, runningFlag,
                       totalFinished, batch, stillRunning, arrivals>>

----------------------------------------------------------------------------
\* Mode "batched", phase 1: admission under _lock, then one prefill at a time.

\* Slip: requests already running are not counted.
FreePlacesIgnoringRunning == MaxRunning

FreePlaces == MaxRunning - Len(running)

\* Slip: the newest are admitted first.
AdmitNewest(n) == /\ toPrefill' = SubSeq(waiting, Len(waiting) - n + 1, Len(waiting))
                  /\ waiting' = SubSeq(waiting, 1, Len(waiting) - n)

Admit(n) == /\ toPrefill' = SubSeq(waiting, 1, n)
            /\ waiting' = SubSeq(waiting, n + 1, Len(waiting))

BeginStep ==
    /\ mode = "batched"
    /\ pc = "loop" /\ runningFlag
    /\ waiting # <<>> \/ running # <<>>
    /\ Admit(IF Len(waiting) <= FreePlaces THEN Len(waiting) ELSE FreePlaces)
    /\ pc' = "prefill"
    /\ UNCHANGED <<mode, requestVars, running, runningFlag, totalFinished, batch,
                   stillRunning, arrivals, failures>>

\* engine.prefill on the next request: it fills the cache and returns.
Prefill ==
    /\ pc = "prefill" /\ toPrefill # <<>>
    /\ LET r == Head(toPrefill) IN
       /\ status' = [status EXCEPT ![r] = "RUNNING"]
       /\ cache' = [cache EXCEPT ![r] = PrefilledCache(r, asked[r].prompt)]
       /\ attended' = [attended EXCEPT ![r] = OwnSequence(r, asked[r].prompt)]
    /\ pc' = "prefilled"
    /\ UNCHANGED <<mode, asked, numOutput, stream, waiting, running, runningFlag,
                   totalFinished, localVars, arrivals, failures>>

\* It raises, before or after it stored the cache.
PrefillFails ==
    /\ pc = "prefill" /\ toPrefill # <<>>
    /\ LET r == Head(toPrefill) IN
       /\ status' = [status EXCEPT ![r] = "RUNNING"]
       /\ \E keys \in {cache[r], PrefilledCache(r, asked[r].prompt)} :
             cache' = [cache EXCEPT ![r] = keys]
    /\ Fail
    /\ UNCHANGED attended

\* Slip: a request that is not finished is not put in running.
JoinNobody(r) == UNCHANGED running

Join(r) == running' = Append(running, r)

EmitPrefill ==
    /\ pc = "prefilled" /\ mode = "batched"
    /\ LET r == Head(toPrefill) IN
       \/ FinishRequest(r, NextToken(r)) /\ UNCHANGED running
       \/ KeepGoing(r, NextToken(r)) /\ Join(r)
    /\ toPrefill' = Tail(toPrefill)
    /\ pc' = "prefill"
    /\ UNCHANGED <<mode, waiting, runningFlag, batch, stillRunning, arrivals, failures>>

EndPrefill ==
    /\ pc = "prefill" /\ toPrefill = <<>>
    /\ pc' = IF running = <<>> THEN "loop" ELSE "decode"
    /\ UNCHANGED <<mode, requestVars, waiting, running, runningFlag, totalFinished,
                   localVars, arrivals, failures>>

----------------------------------------------------------------------------
\* Mode "batched", phase 2: one forward pass, then each request's cache is cut
\* out of the padded one: its prefix and the new position.

\* The caches of S are replaced by what the forward pass of rows left of them.
ReplaceCaches(rows, S) ==
    cache' = [r \in Requests |->
                 IF r \in S THEN Extracted(FullRow(cache, rows, r, LastPlace(r)), Len(cache[r]))
                            ELSE cache[r]]

Attend(rows) ==
    attended' = [r \in Requests |->
                    IF r \in rows THEN Attended(cache, rows, r, LastPlace(r)) ELSE attended[r]]

Decode ==
    /\ pc = "decode"
    /\ ReplaceCaches(Range(running), Range(running))
    /\ Attend(Range(running))
    /\ batch' = running
    /\ pc' = "emitDecode"
    /\ UNCHANGED <<mode, asked, status, numOutput, stream, waiting, running, runningFlag,
                   totalFinished, toPrefill, stillRunning, arrivals, failures>>

\* It raises after the first n caches were replaced; no token is returned.
DecodeFails ==
    /\ pc = "decode"
    /\ \E n \in FailingAfter :
          /\ n <= Len(running)
          /\ ReplaceCaches(Range(running), Range(SubSeq(running, 1, n)))
    /\ Fail
    /\ UNCHANGED <<status, attended>>

\* Slip: the finished are removed from the list the loop goes through, and the one
\* behind them is skipped.
EmitDecodeSkipping ==
    /\ pc = "emitDecode" /\ batch # <<>>
    /\ LET r == Head(batch) IN
       \/ /\ FinishRequest(r, NextToken(r))
          /\ stillRunning' = stillRunning \o SubSeq(Tail(batch), 1, IF Len(batch) > 1 THEN 1 ELSE 0)
          /\ batch' = SubSeq(batch, 3, Len(batch))
       \/ /\ KeepGoing(r, NextToken(r))
          /\ stillRunning' = Append(stillRunning, r)
          /\ batch' = Tail(batch)
    /\ UNCHANGED <<mode, waiting, running, runningFlag, pc, toPrefill, arrivals, failures>>

EmitDecode ==
    /\ pc = "emitDecode" /\ batch # <<>>
    /\ LET r == Head(batch) IN
       \/ FinishRequest(r, NextToken(r)) /\ UNCHANGED stillRunning
       \/ KeepGoing(r, NextToken(r)) /\ stillRunning' = Append(stillRunning, r)
    /\ batch' = Tail(batch)
    /\ UNCHANGED <<mode, waiting, running, runningFlag, pc, toPrefill, arrivals, failures>>

EndDecode ==
    /\ pc = "emitDecode" /\ batch = <<>>
    /\ running' = stillRunning
    /\ stillRunning' = <<>>
    /\ pc' = "loop"
    /\ UNCHANGED <<mode, requestVars, waiting, runningFlag, totalFinished, toPrefill,
                   batch, arrivals, failures>>

----------------------------------------------------------------------------
\* Mode "baseline": one request from its prefill to its last token.

TakeOne ==
    /\ mode = "baseline"
    /\ pc = "loop" /\ runningFlag
    /\ waiting # <<>>
    /\ toPrefill' = <<Head(waiting)>>
    /\ waiting' = Tail(waiting)
    /\ pc' = "prefill"
    /\ UNCHANGED <<mode, requestVars, running, runningFlag, totalFinished, batch,
                   stillRunning, arrivals, failures>>

\* The token of a prefill or of decode_step: stop, or feed it to the model.
EmitAlone ==
    /\ pc = "prefilled" /\ mode = "baseline"
    /\ LET r == Head(toPrefill) IN
       \/ /\ FinishRequest(r, NextToken(r))
          /\ toPrefill' = <<>>
          /\ pc' = "loop"
       \/ /\ KeepGoing(r, NextToken(r))
          /\ pc' = "decodeAlone"
          /\ UNCHANGED toPrefill
    /\ UNCHANGED <<mode, waiting, running, runningFlag, batch, stillRunning, arrivals,
                   failures>>

\* engine.decode_step.
DecodeAlone ==
    /\ pc = "decodeAlone"
    /\ ReplaceCaches({Head(toPrefill)}, {Head(toPrefill)})
    /\ Attend({Head(toPrefill)})
    /\ pc' = "prefilled"
    /\ UNCHANGED <<mode, asked, status, numOutput, stream, waiting, running, runningFlag,
                   totalFinished, localVars, arrivals, failures>>

DecodeAloneFails ==
    /\ pc = "decodeAlone"
    /\ \E S \in SUBSET {Head(toPrefill)} : ReplaceCaches({Head(toPrefill)}, S)
    /\ Fail
    /\ UNCHANGED <<status, attended>>

----------------------------------------------------------------------------
Idle == /\ pc = "loop" /\ runningFlag
        /\ waiting = <<>> /\ running = <<>>
        /\ UNCHANGED vars

Exit == /\ pc = "loop" /\ ~ runningFlag
        /\ pc' = "stopped"
        /\ UNCHANGED <<mode, requestVars, waiting, running, runningFlag, totalFinished,
                       localVars, arrivals, failures>>

Stopped == pc = "stopped" /\ UNCHANGED vars

BatchedStep == \/ BeginStep \/ EmitPrefill \/ EndPrefill
               \/ Decode \/ DecodeFails \/ EmitDecode \/ EndDecode

BaselineStep == TakeOne \/ EmitAlone \/ DecodeAlone \/ DecodeAloneFails

SchedulerStep == \/ BatchedStep \/ BaselineStep
                 \/ Prefill \/ PrefillFails
                 \/ Idle \/ Exit \/ Stopped

Next == SchedulerStep \/ Start \/ Stop \/ \E r \in Requests : AddRequest(r)

Spec == Init /\ [][Next]_vars

FairSpec == Spec /\ WF_vars(Start) /\ WF_vars(SchedulerStep)

----------------------------------------------------------------------------
\* Every variable keeps its type; in particular no request has more outputs than
\* max_new_tokens.
TypeOK ==
    /\ mode \in Modes
    /\ asked \in [Requests -> [prompt : PromptLens, maxNew : MaxNews]]
    /\ status \in [Requests -> {"WAITING", "RUNNING", "FINISHED"}]
    /\ numOutput \in [Requests -> Nat]
    /\ \A r \in Requests : numOutput[r] <= asked[r].maxNew
    /\ \A r \in Requests : Len(cache[r]) <= asked[r].prompt + asked[r].maxNew
    /\ stream \in [Requests -> Seq(Nat)]
    /\ waiting \in Seq(Requests) /\ running \in Seq(Requests)
    /\ runningFlag \in BOOLEAN
    /\ totalFinished \in Nat
    /\ pc \in {"unstarted", "loop", "prefill", "prefilled", "decode", "emitDecode",
               "decodeAlone", "stopped"}
    /\ toPrefill \in Seq(Requests) /\ batch \in Seq(Requests)
    /\ stillRunning \in Seq(Requests)
    /\ arrivals \in Seq(Requests)
    /\ failures \in Nat

\* The position a decode gives its input token, the length of the cache, is the
\* number of tokens already processed (engine.py on decode_step, "Position =
\* current KV cache length (= num tokens already processed)"): the prompt and all
\* the outputs but the last, which is the input.
CacheFollowsTokens ==
    pc = "decode" => \A r \in Range(running) :
                        Len(cache[r]) = LastPlace(r) - 1

\* The token a client is about to be sent was computed from that client's own
\* sequence: its prompt and every output so far, each once, at its own position, no
\* padding of the batch and nobody else's keys, whoever joined or left the batch and
\* whatever call was repeated after a failure.
AttendsOwnSequence ==
    /\ pc = "emitDecode" => \A r \in Range(batch) : attended[r] = OwnSequence(r, LastPlace(r))
    /\ pc = "prefilled" => LET r == Head(toPrefill)
                           IN  attended[r] = OwnSequence(r, LastPlace(r))

\* The requests that are being decoded: while their tokens are handled, those that are
\* to be handled and those that go on.
Decoding == IF pc = "emitDecode" THEN batch \o stillRunning ELSE running

\* A request that was added and is not finished is in the queue, in the step's
\* hands or among the running, in one of them only, unless an engine call raised.
NoRequestLost ==
    LET live == waiting \o toPrefill \o Decoding
    IN  /\ IsInjective(live)
        /\ \A r \in Range(live) : status[r] # "FINISHED"
        /\ failures = 0 => \A r \in Range(arrivals) :
                              status[r] = "FINISHED" \/ r \in Range(live)

Earlier(r, s) == \E i, j \in DOMAIN arrivals : i < j /\ arrivals[i] = r /\ arrivals[j] = s

\* First come, first served: those whose prefill is to come are the last to have
\* arrived, in that order, and nobody is sent a token before somebody who came
\* earlier, except one whom a raising engine call has made the scheduler forget.
FirstComeFirstServed ==
    LET queued == toPrefill \o waiting
    IN  /\ IsSuffix(queued, arrivals)
        /\ \A r, s \in Range(arrivals) :
              Earlier(r, s) /\ stream[s] # <<>> =>
                 \/ stream[r] # <<>>
                 \/ failures > 0 /\ r \notin Range(queued)

\* The tokens of r, with the one that a forward pass has returned for it.
Due(r) == numOutput[r] + IF pc = "emitDecode" /\ r \in Range(batch) THEN 1 ELSE 0

\* Requests that run together advance together: each forward pass gives every one of
\* them one token, and nothing else gives them any, while others join, finish, or make
\* a call raise; and none of them leaves the batch before it is finished.
AdvanceTogether ==
    [][\A r \in Range(Decoding) :
          \/ status'[r] = "FINISHED"
          \/ /\ r \in Range(Decoding)'
             /\ Due(r)' = Due(r) + IF pc = "decode" /\ pc' = "emitDecode" THEN 1 ELSE 0]_vars

\* No more requests have begun and not ended than max_running, or in mode "baseline"
\* than one, allows, but for one at most for each engine call that raised.
BatchWithinLimits ==
    Cardinality({r \in Requests : status[r] = "RUNNING"}) <=
        failures + IF mode = "baseline" THEN 1 ELSE MaxRunning

\* What clients see is a step of the abstract lifecycle.
Lifecycle == INSTANCE RequestLifecycle WITH
                 phase <- [r \in Requests |-> IF r \in Range(arrivals) THEN status[r]
                                                                       ELSE "new"]

ImplementsLifecycle == Lifecycle!Spec

\* Every request that is added gets its end mark, unless the server is stopped or
\* an engine call raises.
EveryRequestFinishes ==
    \A r \in Requests :
        r \in Range(arrivals) ~> status[r] = "FINISHED" \/ pc = "stopped" \/ failures > 0

=============================================================================
