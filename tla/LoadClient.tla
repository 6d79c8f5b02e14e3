----------------------------- MODULE LoadClient -----------------------------
(***************************************************************************)
(* The load generators in front of the server.  bench_serving.py and       *)
(* bench_accuracy.py run a pool of workers, each of which takes a request  *)
(* from a queue, posts it, reads the answer and appends a result.          *)
(* mooncake_trace_replay.py has one task per record of a trace, which      *)
(* wait for a semaphore, and gathers what they return.  A request of a     *)
(* pool has a deadline, one of a replay has none; an exception is a result *)
(* of a pool, and the end of a replay.                                     *)
(*                                                                         *)
(* The requests of Streamed belong to bench_serving.py or to the replay,   *)
(* the others to bench_accuracy.py; both clients use the same server.      *)
(* aiohttp closes the connection of a request that fails; the server sees  *)
(* it and cancels a streamed response, a collected one runs on.            *)
(***************************************************************************)
EXTENDS TokenDelivery

CONSTANTS Concurrencies,    \* values of --concurrency and --max-concurrent
          Silent            \* the requests whose tokens are special ones, without text

ASSUME LoadAssumption == /\ Concurrencies \subseteq Nat \ {0} /\ Silent \subseteq Requests
                         /\ IsFiniteSet(Requests)

VARIABLES
    driver,         \* who sends the streamed requests: "serving" or "replay"
    concurrency,    \* workers of a pool, permits of the semaphore
    backlog,        \* the queue, or the tasks that have not got the semaphore
    inflight,       \* the requests that await their answer
    counted,        \* num_output_tokens, actual_output
    results,        \* the list of results
    aborted         \* gather has raised in the replay

loadVars == <<driver, concurrency, backlog, inflight, counted, results, aborted>>
allVars == <<vars, loadVars>>

Clients == {"load", "eval"}

ClientOf(r) == IF r \in Streamed THEN "load" ELSE "eval"

RequestsOf(c) == {r \in Requests : ClientOf(r) = c}

Replaying(c) == driver = "replay" /\ c = "load"

LoadInit ==
    /\ Init
    /\ driver \in {"serving", "replay"} /\ concurrency \in Concurrencies
    /\ backlog = [c \in Clients |-> SetToSeq(RequestsOf(c))]
    /\ inflight = [c \in Clients |-> {}]
    /\ counted = [r \in Requests |-> 0]
    /\ results = [c \in Clients |-> <<>>]
    /\ aborted = FALSE

----------------------------------------------------------------------------
\* The server's steps that no client takes part in.
ServerStep == /\ \/ \E r \in Requests : SchedulerStep(r) \/ Strand(r) \/ RequestNext(r)
                 \/ \E t \in Threads : ThreadStep(t)
              /\ UNCHANGED loadVars

\* Slip: a worker ends after its first result.
WorkerFresh(c) == Cardinality(inflight[c]) + Len(results[c]) < concurrency

\* A worker, or a permit of the semaphore, is free.
WorkerFree(c) == Cardinality(inflight[c]) < concurrency

\* A worker, or a task with the semaphore, posts the next request.
Send(c) ==
    /\ backlog[c] # <<>> /\ WorkerFree(c)
    /\ LET r == Head(backlog[c]) IN
       /\ ChatCompletions(r)
       /\ inflight' = [inflight EXCEPT ![c] = @ \cup {r}]
    /\ backlog' = [backlog EXCEPT ![c] = Tail(@)]
    /\ UNCHANGED <<driver, concurrency, counted, results, aborted>>

\* Slip: the chunks are counted, with or without text.
AnyChunk(r, output) == TRUE

\* The chunk of an output has content.
HasContent(r, output) == output # EndMark /\ r \notin Silent

\* The server sends an output; a client that still listens counts it.
Receive(r) ==
    /\ Deliver(r)
    /\ counted' = IF r \in inflight[ClientOf(r)] /\ HasContent(r, Head(result[r]))
                  THEN [counted EXCEPT ![r] = @ + 1] ELSE counted
    /\ UNCHANGED <<driver, concurrency, backlog, inflight, results, aborted>>

\* Slip: the worker ends with the exception instead of taking the next request.
ReportAndQuit(r, failed) ==
    /\ results' = [results EXCEPT ![ClientOf(r)] =
                      Append(@, [request |-> r, failed |-> failed, tokens |-> counted[r]])]
    /\ inflight' = IF failed THEN inflight ELSE [inflight EXCEPT ![ClientOf(r)] = @ \ {r}]

\* The result is appended; the worker or the permit is free again.
Report(r, failed) ==
    /\ results' = [results EXCEPT ![ClientOf(r)] =
                      Append(@, [request |-> r, failed |-> failed, tokens |-> counted[r]])]
    /\ inflight' = [inflight EXCEPT ![ClientOf(r)] = @ \ {r}]

\* The client has read [DONE], or the whole answer.
Answered(r) ==
    /\ r \in inflight[ClientOf(r)] /\ reader[r] = "closed"
    /\ Report(r, FALSE)
    /\ UNCHANGED <<vars, driver, concurrency, backlog, counted, aborted>>

\* The deadline passes, even while the answer is on its way.
TimedOut(r) ==
    /\ r \in inflight[ClientOf(r)] /\ ~Replaying(ClientOf(r))
    /\ Report(r, TRUE)
    /\ UNCHANGED <<vars, driver, concurrency, backlog, counted, aborted>>

\* A connection of the replay breaks: gather raises, the session is closed with all
\* of its connections, and the results there are go with it.
ReplayAborts(r) ==
    /\ r \in inflight[ClientOf(r)] /\ Replaying(ClientOf(r))
    /\ aborted' = TRUE
    /\ inflight' = [inflight EXCEPT !["load"] = {}]
    /\ backlog' = [backlog EXCEPT !["load"] = <<>>]
    /\ results' = [results EXCEPT !["load"] = <<>>]
    /\ UNCHANGED <<vars, driver, concurrency, counted>>

\* The server notices that the client has closed the connection.
ConnectionClosed(r) ==
    /\ r \notin inflight[ClientOf(r)]
    /\ Disconnect(r)
    /\ UNCHANGED loadVars

LoadNext ==
    \/ ServerStep
    \/ \E c \in Clients : Send(c)
    \/ \E r \in Requests : \/ Receive(r) \/ Answered(r) \/ TimedOut(r)
                           \/ ReplayAborts(r) \/ ConnectionClosed(r)

LoadSpec == LoadInit /\ [][LoadNext]_allVars

\* A client goes on when it can, and deadlines pass.  Connections need not break.
LoadFairSpec ==
    /\ LoadSpec /\ Fairness
    /\ WF_allVars(\E c \in Clients : Send(c))
    /\ WF_allVars(\E r \in Requests : Answered(r))
    /\ WF_allVars(\E r \in Requests : TimedOut(r))

----------------------------------------------------------------------------
Reported(c) == {results[c][i].request : i \in DOMAIN results[c]}

\* bench_serving.py and bench_accuracy.py report each request once, and the replay all
\* that it has returned: until then it is waiting to be sent or in flight, whether
\* its answer came, came late or never came.
EachReportedOnce ==
    \A c \in Clients :
        /\ Len(backlog[c]) + Cardinality(inflight[c]) + Len(results[c])
               = IF Replaying(c) /\ aborted THEN 0 ELSE Cardinality(RequestsOf(c))
        /\ ~(Replaying(c) /\ aborted)
               => ToSet(backlog[c]) \cup inflight[c] \cup Reported(c) = RequestsOf(c)

\* The tokens in a result without an error are those with a text that the scheduler
\* put on the queue of that request, all of them: a late answer to a request that was
\* given up is counted nowhere, and a refused request counts as one without tokens.
CountsWhatWasStreamed ==
    \A c \in Clients : \A i \in DOMAIN results[c] :
        LET r == results[c][i].request
            texts == {k \in DOMAIN stream[r] : stream[r][k] # EndMark /\ r \notin Silent}
        IN  ~results[c][i].failed => /\ EndMark \in ToSet(stream[r])
                                     /\ results[c][i].tokens = Cardinality(texts)

Done(c) == backlog[c] = <<>> /\ inflight[c] = {}

\* A benchmark ends, also when the scheduler strands its requests and when these hold
\* all of the server's threads.  A replay, which has no deadline, ends if its own
\* requests are not stranded and some thread is left.
BenchmarkEnds ==
    <>(\A c \in Clients :
           \/ Done(c)
           \/ Replaying(c) /\ \/ lost \cap Streamed # {}
                              \/ Cardinality(lost) >= Cardinality(Threads))

=============================================================================
