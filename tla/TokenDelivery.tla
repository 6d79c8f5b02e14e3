--------------------------- MODULE TokenDelivery ---------------------------
(***************************************************************************)
(* How tokens reach clients (miniengine/server.py).  For each request a    *)
(* coroutine of the one event loop reads its token_queue to the end mark;  *)
(* each read is a blocking get that run_in_executor hands to the default   *)
(* thread pool, which has a first-in first-out list of jobs and a fixed    *)
(* number of threads.  A client of a streamed response may disconnect,     *)
(* which cancels its coroutine: a get that no thread has begun is          *)
(* cancelled with it, one that a thread is blocked in is not.              *)
(*                                                                         *)
(* The scheduler is any that keeps the promises of RequestLifecycle, but   *)
(* it may strand a request: an engine call that raises, or a request that  *)
(* never fits, leaves one without an end mark (scheduler.py).  The         *)
(* event loop, the thread pool and the cancelling of a response are those  *)
(* of asyncio, concurrent.futures and Starlette, as server.py uses them.   *)
(***************************************************************************)
EXTENDS Naturals, Sequences, FiniteSets, Functions, SequencesExt

CONSTANTS Requests,
          PromptLens, MaxNews,
          Streamed,         \* the requests whose response is streamed
          Threads,          \* the threads of the default executor
          MaxLost,          \* bound on the requests the scheduler strands
          None              \* a thread that executes nothing

ASSUME DeliveryAssumption == /\ Streamed \subseteq Requests
                             /\ PromptLens \subseteq Nat /\ MaxNews \subseteq Nat
                             /\ None \notin Requests /\ MaxLost \in Nat

VARIABLES
    asked, phase, stream,   \* the scheduler's side; stream: all that was ever put
    lost,       \* the requests that it has stranded
    taken,      \* how many of stream[r] have been taken out of token_queue
    reader,     \* the coroutine of each request
    jobs,       \* the executor's list of gets no thread has begun
    thread,     \* the request whose queue a thread is blocked on
    result,     \* the result of the get a coroutine awaits, once it is there
    received    \* what the client has been sent, or the collected parts

schedulerVars == <<asked, phase, stream, lost>>
deliveryVars == <<taken, reader, jobs, thread, result, received>>
vars == <<schedulerVars, deliveryVars>>

Scheduler == INSTANCE RequestLifecycle

EndMark == Scheduler!EndMark

Init == /\ Scheduler!Init
        /\ lost = {}
        /\ taken = [r \in Requests |-> 0]
        /\ reader = [r \in Requests |-> "none"]
        /\ jobs = <<>>
        /\ thread = [t \in Threads |-> None]
        /\ result = [r \in Requests |-> <<>>]
        /\ received = [r \in Requests |-> <<>>]

----------------------------------------------------------------------------
\* The scheduler thread.  A request that is preempted and run again is, to its
\* reader, one whose next token takes longer.

Produce(r) == \/ Scheduler!Start({r}) \/ Scheduler!Emit(r)
              \/ Scheduler!EmitLast(r) \/ Scheduler!Refuse(r)

SchedulerStep(r) == /\ r \notin lost
                    /\ Produce(r)
                    /\ UNCHANGED <<deliveryVars, lost>>

\* A request is forgotten: nothing more is put on its queue.  (Its client cannot tell
\* whether it was running or waiting then.)
Strand(r) == /\ phase[r] = "RUNNING" /\ r \notin lost
             /\ Cardinality(lost) < MaxLost
             /\ lost' = lost \cup {r}
             /\ UNCHANGED <<asked, phase, stream, deliveryVars>>

----------------------------------------------------------------------------
\* The event loop.

\* chat_completions: add_request, then the reading begins.
ChatCompletions(r) ==
    /\ Scheduler!Submit(r)
    /\ reader' = [reader EXCEPT ![r] = "ready"]
    /\ UNCHANGED <<taken, jobs, thread, result, received, lost>>

Await(r) == reader' = [reader EXCEPT ![r] = "awaiting"]

\* The head of the loop: run_in_executor(None, token_queue.get).
RequestNext(r) ==
    /\ reader[r] = "ready"
    /\ jobs' = Append(jobs, r)
    /\ Await(r)
    /\ UNCHANGED <<schedulerVars, taken, thread, result, received>>

\* Slip: the end mark is handled like a token.
AfterAny(output) == "ready"

\* Where the coroutine goes with an output.
After(output) == IF output = EndMark THEN "closed" ELSE "ready"

\* The rest of the loop body: the output is sent, or kept for the whole answer.
Deliver(r) ==
    /\ reader[r] = "awaiting" /\ result[r] # <<>>
    /\ received' = [received EXCEPT ![r] = Append(@, Head(result[r]))]
    /\ reader' = [reader EXCEPT ![r] = After(Head(result[r]))]
    /\ result' = [result EXCEPT ![r] = <<>>]
    /\ UNCHANGED <<schedulerVars, taken, jobs, thread>>

\* Slip: the job stays in the executor's list.
NotCancelled(r) == UNCHANGED jobs

\* The job of r, of which there is one at most, leaves the list.
CancelJob(r) == IF r \in Range(jobs)
                THEN jobs' = RemoveAt(jobs, CHOOSE i \in DOMAIN jobs : jobs[i] = r)
                ELSE UNCHANGED jobs

\* The client of a streamed response goes away; the request runs on.
Disconnect(r) ==
    /\ r \in Streamed /\ reader[r] \in {"ready", "awaiting"}
    /\ reader' = [reader EXCEPT ![r] = "gone"]
    /\ result' = [result EXCEPT ![r] = <<>>]
    /\ CancelJob(r)
    /\ UNCHANGED <<schedulerVars, taken, thread, received>>

----------------------------------------------------------------------------
\* The executor's threads.

TakeJob(t) ==
    /\ thread[t] = None /\ jobs # <<>>
    /\ thread' = [thread EXCEPT ![t] = Head(jobs)]
    /\ jobs' = Tail(jobs)
    /\ UNCHANGED <<schedulerVars, taken, reader, result, received>>

\* Slip: the output is looked at and left in the queue.
Peek(r) == UNCHANGED taken

TakeOutput(r) == taken' = [taken EXCEPT ![r] = @ + 1]

\* Slip: a thread whose coroutine was cancelled is not given back.
KeepForGone(t) == thread' = [thread EXCEPT ![t] = IF reader[@] = "gone" THEN @ ELSE None]

GiveBack(t) == thread' = [thread EXCEPT ![t] = None]

\* token_queue.get returns; a coroutine that is gone does not see the output.
Get(t) ==
    /\ thread[t] # None
    /\ LET r == thread[t] IN
       /\ taken[r] < Len(stream[r])
       /\ TakeOutput(r)
       /\ result' = IF reader[r] = "gone" THEN result
                    ELSE [result EXCEPT ![r] = Append(@, stream[r][taken[r] + 1])]
    /\ GiveBack(t)
    /\ UNCHANGED <<schedulerVars, reader, jobs, received>>

----------------------------------------------------------------------------
CoroutineStep(r) == RequestNext(r) \/ Deliver(r)

ThreadStep(t) == TakeJob(t) \/ Get(t)

Next == \/ \E r \in Requests : \/ SchedulerStep(r) \/ Strand(r) \/ ChatCompletions(r)
                               \/ CoroutineStep(r) \/ Disconnect(r)
        \/ \E t \in Threads : ThreadStep(t)

Spec == Init /\ [][Next]_vars

\* The event loop and the threads run; the scheduler ends every request that it does
\* not strand, as EveryRequestFinishes says of the modules that implement it.  All of
\* these happen finitely often, so that nothing need be said of single requests.
Fairness == /\ WF_vars(\E r \in Requests : SchedulerStep(r))
            /\ WF_vars(\E r \in Requests : CoroutineStep(r))
            /\ WF_vars(\E t \in Threads : TakeJob(t))
            /\ WF_vars(\E t \in Threads : Get(t))

FairSpec == Spec /\ Fairness

----------------------------------------------------------------------------
\* Each client is sent what the scheduler put on its queue, from the first output
\* on, each once and in order, although gets of many requests share the threads.
\* While the client is there nothing is taken out of the queue that it does not get.
DeliveredInOrder ==
    \A r \in Requests :
        /\ received[r] \o result[r] = SubSeq(stream[r], 1, Len(received[r] \o result[r]))
        /\ reader[r] # "gone" => taken[r] = Len(received[r] \o result[r])

\* A request has one get at most, pending, executing or answered, and a coroutine
\* that awaits has one; a cancelled coroutine leaves at most the one a thread is in.
OneGetPerRequest ==
    \A r \in Requests :
        LET pending == Cardinality({i \in DOMAIN jobs : jobs[i] = r})
            executing == Cardinality({t \in Threads : thread[t] = r})
        IN  /\ reader[r] = "awaiting" => pending + executing + Len(result[r]) = 1
            /\ reader[r] = "gone" => pending = 0 /\ executing <= 1
            /\ reader[r] \in {"none", "ready", "closed"} => pending + executing = 0

\* Every client that stays and whose request is not stranded gets all of its stream to
\* the end mark, however few threads there are and whoever else disconnects, as long
\* as there are more threads than stranded requests, each of which blocks one for good.
EveryClientServed ==
    <>[](\A r \in Requests : \/ reader[r] \in {"none", "gone"}
                             \/ reader[r] = "closed" /\ received[r] = stream[r]
                             \/ r \in lost
                             \/ Cardinality(lost) >= Cardinality(Threads))

\* A thread is blocked for good in the queue of a stranded request only: not by a
\* client that is gone, nor by a stream that has ended.
ThreadsComeBack == <>[](\A t \in Threads : thread[t] \in lost \cup {None})

=============================================================================
