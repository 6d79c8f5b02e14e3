-------------------------- MODULE LoadClientProofs --------------------------
(***************************************************************************)
(* Streams arrive whole and in order, a request has one get at most, and   *)
(* the load generators report every request once and count what it was     *)
(* sent, for every set of requests, every number of threads and workers.   *)
(***************************************************************************)
EXTENDS LoadClient, SequenceLemmas, FiniteSetTheorems

\* The server, with any clients (TokenDelivery).

OnThread(r) == \E t \in Threads : thread[t] = r

\* Every variable keeps its type.
Types ==
    /\ asked \in [Requests -> [prompt : PromptLens, maxNew : MaxNews]]
    /\ phase \in [Requests -> {"new", "WAITING", "RUNNING", "FINISHED"}]
    /\ stream \in [Requests -> Seq(Nat)]
    /\ taken \in [Requests -> Nat]
    /\ reader \in [Requests -> {"none", "ready", "awaiting", "closed", "gone"}]
    /\ jobs \in Seq(Requests)
    /\ thread \in [Threads -> Requests \cup {None}]
    /\ result \in [Requests -> Seq(Nat)]
    /\ received \in [Requests -> Seq(Nat)]

\* Where the get of a request is: in the list of jobs, on a thread or answered, in
\* one place only; where no coroutine awaits it, on a thread at most, and then the
\* coroutine is gone.  A request that was not posted has no coroutine.
OneJob ==
    /\ IsInjective(jobs)
    /\ \A t, u \in Threads : thread[t] # None /\ thread[t] = thread[u] => t = u
    /\ \A r \in Requests :
          /\ phase[r] = "new" => reader[r] = "none"
          /\ r \in Range(jobs) => reader[r] = "awaiting" /\ result[r] = <<>> /\ ~OnThread(r)
          /\ OnThread(r) => reader[r] \in {"awaiting", "gone"} /\ result[r] = <<>>
          /\ result[r] # <<>> => reader[r] = "awaiting" /\ Len(result[r]) = 1
          /\ reader[r] = "awaiting" => \/ r \in Range(jobs) \/ OnThread(r)
                                       \/ result[r] # <<>>

\* What a client has been sent, and the result it is about to be sent, are the outputs
\* that the scheduler put first; the queue has lost no others while the client is there.
SentTo(r) ==
    /\ \A i \in 1 .. Len(received[r]) : i <= Len(stream[r]) /\ received[r][i] = stream[r][i]
    /\ Len(received[r]) + Len(result[r]) <= Len(stream[r])
    /\ result[r] # <<>> => result[r][1] = stream[r][Len(received[r]) + 1]
    /\ reader[r] # "gone" => taken[r] = Len(received[r]) + Len(result[r])

Sent == \A r \in Requests : SentTo(r)

IInv == Types /\ OneJob /\ Sent

\* Nothing has been sent before the first request.
LEMMA InitInv == Init => IInv
<1> SUFFICES ASSUME Init PROVE IInv
  OBVIOUS
<1>1. <<>> \in Seq(Nat) /\ <<>> \in Seq(Requests)
  OBVIOUS
<1>2. Types
  BY <1>1 DEF Init, Types, Scheduler!Init
<1>3. OneJob
  <2>1. \A r \in Requests : ~OnThread(r)
    BY DeliveryAssumption DEF Init, OnThread
  <2> QED BY <2>1, RangeEmpty DEF Init, OneJob, Scheduler!Init
<1>4. Sent
  BY DEF Init, Sent, SentTo, Scheduler!Init
<1> QED BY <1>2, <1>3, <1>4 DEF IInv

\* A scheduler step appends outputs to streams and leaves new requests new; readers
\* are none of its business.
LEMMA ProduceAppends ==
    ASSUME Types, NEW r \in Requests, Produce(r)
    PROVE  /\ asked' = asked
           /\ phase' \in [Requests -> {"new", "WAITING", "RUNNING", "FINISHED"}]
           /\ \A s \in Requests : phase'[s] = "new" => phase[s] = "new"
           /\ stream' \in [Requests -> Seq(Nat)]
           /\ \A s \in Requests : /\ Len(stream[s]) <= Len(stream'[s])
                                  /\ \A i \in 1 .. Len(stream[s]) : stream'[s][i] = stream[s][i]
<1> USE DEF Types
<1>1. asked[r].prompt \in Nat
  <2>1. asked[r] \in [prompt : PromptLens, maxNew : MaxNews]
    OBVIOUS
  <2> QED BY <2>1, DeliveryAssumption
<1>2. Scheduler!Token(r) \in Nat
  BY <1>1 DEF Scheduler!Token
<1>3. 0 \in Nat
  OBVIOUS
<1>4. CASE Scheduler!Start({r})
  BY <1>4 DEF Scheduler!Start
<1>5. CASE Scheduler!Emit(r)
  BY <1>5, <1>2 DEF Scheduler!Emit
<1>6. CASE Scheduler!EmitLast(r)
  <2> DEFINE more == <<Scheduler!Token(r), Scheduler!EndMark>>
  <2>1. more \in Seq(Nat) /\ Len(more) = 2
    BY <1>2 DEF Scheduler!EndMark
  <2> HIDE DEF more
  <2>2. stream' = [stream EXCEPT ![r] = @ \o more]
    BY <1>6 DEF Scheduler!EmitLast, more
  <2>3. stream[r] \in Seq(Nat)
    OBVIOUS
  <2>4. /\ stream[r] \o more \in Seq(Nat)
        /\ Len(stream[r]) <= Len(stream[r] \o more)
        /\ \A i \in 1 .. Len(stream[r]) : (stream[r] \o more)[i] = stream[r][i]
    BY <2>1, <2>3
  <2>5. phase' = [phase EXCEPT ![r] = "FINISHED"] /\ asked' = asked
    BY <1>6 DEF Scheduler!EmitLast
  <2> QED BY <2>2, <2>4, <2>5
<1>7. CASE Scheduler!Refuse(r)
  <2> DEFINE mark == <<Scheduler!EndMark>>
  <2>1. mark \in Seq(Nat)
    BY DEF Scheduler!EndMark
  <2> HIDE DEF mark
  <2>2. /\ stream' = [stream EXCEPT ![r] = mark] /\ stream[r] = <<>>
        /\ phase' = [phase EXCEPT ![r] = "FINISHED"] /\ asked' = asked
    BY <1>7 DEF Scheduler!Refuse, mark
  <2>3. Len(stream[r]) = 0 /\ Len(mark) \in Nat
    BY <2>1, <2>2
  <2> QED BY <2>1, <2>2, <2>3
<1> QED BY <1>4, <1>5, <1>6, <1>7 DEF Produce

\* Nothing in the invariant speaks of lost.
LEMMA UnchangedPreserves ==
    ASSUME IInv,
           UNCHANGED <<asked, phase, stream, taken, reader, jobs, thread, result, received>>
    PROVE  IInv'
<1>1. Types'
  BY DEF IInv, Types
<1>2. OneJob'
  BY DEF IInv, OneJob, OnThread
<1>3. Sent'
  BY DEF IInv, Sent, SentTo
<1> QED BY <1>1, <1>2, <1>3 DEF IInv

\* What a client has been sent stays right where its own variables stay.
LEMMA SentToUnchanged ==
    ASSUME IInv, NEW s \in Requests,
           received'[s] = received[s], result'[s] = result[s], stream'[s] = stream[s],
           taken'[s] = taken[s], reader'[s] = reader[s]
    PROVE  SentTo(s)'
<1>1. SentTo(s)
  BY DEF IInv, Sent
<1> QED BY <1>1 DEF SentTo

\* The scheduler thread, and a request it strands, disturb no reader.
LEMMA SchedulerPreserves ==
    ASSUME IInv, NEW r \in Requests, SchedulerStep(r) \/ Strand(r)
    PROVE  IInv'
<1> USE DEF IInv
<1>1. CASE SchedulerStep(r)
  <2>1. Produce(r) /\ UNCHANGED <<taken, reader, jobs, thread, result, received>>
    BY <1>1 DEF SchedulerStep, deliveryVars
  <2>2. /\ asked' = asked
        /\ phase' \in [Requests -> {"new", "WAITING", "RUNNING", "FINISHED"}]
        /\ \A s \in Requests : phase'[s] = "new" => phase[s] = "new"
        /\ stream' \in [Requests -> Seq(Nat)]
        /\ \A s \in Requests : /\ Len(stream[s]) <= Len(stream'[s])
                               /\ \A i \in 1 .. Len(stream[s]) : stream'[s][i] = stream[s][i]
    BY <2>1, ProduceAppends
  <2>3. Types'
    BY <2>1, <2>2 DEF Types
  <2>4. OneJob'
    BY <2>1, <2>2 DEF OneJob, OnThread
  <2>5. Sent'
    <3> SUFFICES ASSUME NEW s \in Requests PROVE SentTo(s)'
      BY DEF Sent
    <3>1. SentTo(s)
      BY DEF Sent
    <3>2. /\ received'[s] = received[s] /\ result'[s] = result[s]
          /\ reader'[s] = reader[s] /\ taken'[s] = taken[s]
      BY <2>1
    <3>3. /\ Len(received[s]) \in Nat /\ Len(result[s]) \in Nat
          /\ Len(stream[s]) \in Nat /\ Len(stream'[s]) \in Nat
          /\ result[s] # <<>> => Len(result[s]) = 1
      BY <2>2 DEF Types, OneJob
    <3>4. /\ Len(stream[s]) <= Len(stream'[s])
          /\ \A i \in 1 .. Len(stream[s]) : stream'[s][i] = stream[s][i]
      BY <2>2
    <3>5. \A i \in 1 .. Len(received[s]) : i <= Len(stream'[s]) /\ received[s][i] = stream'[s][i]
      BY <3>1, <3>3, <3>4 DEF SentTo
    <3>6. Len(received[s]) + Len(result[s]) <= Len(stream'[s])
      <4>1. Len(received[s]) + Len(result[s]) <= Len(stream[s])
        BY <3>1 DEF SentTo
      <4>2. PICK a \in Nat : a = Len(received[s])
        BY <3>3
      <4>3. PICK b \in Nat : b = Len(result[s])
        BY <3>3
      <4>4. PICK c \in Nat : c = Len(stream[s])
        BY <3>3
      <4>5. PICK d \in Nat : d = Len(stream'[s])
        BY <3>3
      <4>6. a + b <= c /\ c <= d
        BY <4>1, <4>2, <4>3, <4>4, <4>5, <3>4
      <4>7. a + b <= d
        BY <4>6
      <4> QED BY <4>2, <4>3, <4>5, <4>7
    <3>7. ASSUME result[s] # <<>>
          PROVE  result[s][1] = stream'[s][Len(received[s]) + 1]
      <4>1. PICK n \in Nat : n = Len(received[s])
        BY <3>3
      <4>2. result[s][1] = stream[s][n + 1] /\ n + Len(result[s]) <= Len(stream[s])
        BY <3>1, <3>7, <4>1 DEF SentTo
      <4>3. n + 1 \in 1 .. Len(stream[s])
        BY <4>2, <3>3, <3>7
      <4>4. stream'[s][n + 1] = stream[s][n + 1]
        BY <4>3, <3>4
      <4> QED BY <4>1, <4>2, <4>4
    <3>8. reader[s] # "gone" => taken[s] = Len(received[s]) + Len(result[s])
      BY <3>1 DEF SentTo
    <3> QED BY <3>2, <3>5, <3>6, <3>7, <3>8 DEF SentTo
  <2> QED BY <2>3, <2>4, <2>5
<1>2. CASE Strand(r)
  <2>1. UNCHANGED <<asked, phase, stream, taken, reader, jobs, thread, result, received>>
    BY <1>2 DEF Strand, deliveryVars
  <2> QED BY <2>1, UnchangedPreserves
<1> QED BY <1>1, <1>2

\* A new request gets a coroutine that has done nothing yet.
LEMMA ChatPreserves ==
    ASSUME IInv, NEW r \in Requests, ChatCompletions(r)
    PROVE  IInv'
<1> USE DEF IInv
<1>1. /\ phase[r] = "new" /\ phase' = [phase EXCEPT ![r] = "WAITING"]
      /\ reader' = [reader EXCEPT ![r] = "ready"]
      /\ UNCHANGED <<asked, stream, taken, jobs, thread, result, received>>
  BY DEF ChatCompletions, Scheduler!Submit
<1>2. reader[r] = "none"
  BY <1>1 DEF OneJob
<1>3. Types'
  BY <1>1 DEF Types
<1>4. OneJob'
  BY <1>1, <1>2 DEF OneJob, OnThread, Types
<1>5. Sent'
  BY <1>1, <1>2 DEF Sent, SentTo, Types
<1> QED BY <1>3, <1>4, <1>5

\* A coroutine asks for its next output only when it has looked at the last one.
LEMMA RequestNextPreserves ==
    ASSUME IInv, NEW r \in Requests, RequestNext(r)
    PROVE  IInv'
<1> USE DEF IInv
<1>1. /\ reader[r] = "ready" /\ jobs' = Append(jobs, r)
      /\ reader' = [reader EXCEPT ![r] = "awaiting"]
      /\ UNCHANGED <<asked, phase, stream, taken, thread, result, received>>
  BY DEF RequestNext, Await, schedulerVars
<1>2. r \notin Range(jobs) /\ ~OnThread(r) /\ result[r] = <<>>
  BY <1>1 DEF OneJob
<1>3. /\ jobs' \in Seq(Requests) /\ Range(jobs') = Range(jobs) \cup {r}
      /\ IsInjective(jobs) => IsInjective(jobs')
  <2>1. jobs \in Seq(Requests)
    BY DEF Types
  <2> QED BY <1>1, <1>2, <2>1, AppendRange
<1>4. Types'
  BY <1>1, <1>3 DEF Types
<1>5. OneJob'
  BY <1>1, <1>2, <1>3 DEF OneJob, OnThread, Types
<1>6. Sent'
  BY <1>1 DEF Sent, SentTo, Types
<1> QED BY <1>4, <1>5, <1>6

\* The result that a coroutine looks at is the next output of its stream.
LEMMA DeliverPreserves ==
    ASSUME IInv, NEW r \in Requests, Deliver(r)
    PROVE  IInv'
<1> USE DEF IInv
<1>1. PICK output \in Nat : output = Head(result[r])
  <2>1. result[r] \in Seq(Nat) /\ result[r] # <<>>
    BY DEF Deliver, Types
  <2> QED BY <2>1
<1>2. /\ reader[r] = "awaiting" /\ result[r] # <<>>
      /\ received' = [received EXCEPT ![r] = Append(@, output)]
      /\ reader' = [reader EXCEPT ![r] = After(output)]
      /\ result' = [result EXCEPT ![r] = <<>>]
      /\ UNCHANGED <<asked, phase, stream, taken, jobs, thread>>
  BY <1>1 DEF Deliver, schedulerVars
<1>3. After(output) \in {"closed", "ready"}
  BY DEF After
<1>4. Len(result[r]) = 1 /\ r \notin Range(jobs) /\ ~OnThread(r)
  BY <1>2 DEF OneJob
<1>5. output = stream[r][Len(received[r]) + 1]
  <2>1. result[r] \in Seq(Nat)
    BY DEF Types
  <2>2. output = result[r][1]
    BY <1>1, <1>2, <2>1
  <2> QED BY <1>2, <2>2 DEF Sent, SentTo
<1>6. <<>> \in Seq(Nat)
  OBVIOUS
<1>7. /\ Append(received[r], output) \in Seq(Nat)
      /\ Len(Append(received[r], output)) = Len(received[r]) + 1
      /\ Len(received[r]) \in Nat
      /\ Append(received[r], output)[Len(received[r]) + 1] = output
      /\ \A i \in 1 .. Len(received[r]) : Append(received[r], output)[i] = received[r][i]
  <2>1. received[r] \in Seq(Nat)
    BY DEF Types
  <2> QED BY <2>1
<1>8. Types'
  BY <1>2, <1>3, <1>6, <1>7 DEF Types
<1>9. OneJob'
  BY <1>2, <1>3, <1>4 DEF OneJob, OnThread, Types
<1>10. Sent'
  <2>1. \A s \in Requests \ {r} : /\ received'[s] = received[s] /\ result'[s] = result[s]
                                  /\ reader'[s] = reader[s]
    BY <1>2 DEF Types
  <2>2. /\ received'[r] = Append(received[r], output) /\ result'[r] = <<>>
        /\ Len(<<>>) = 0
    BY <1>2 DEF Types
  <2>3. /\ Len(received[r]) + 1 <= Len(stream[r])
        /\ taken[r] = Len(received[r]) + 1
        /\ \A i \in 1 .. Len(received[r]) : i <= Len(stream[r]) /\ received[r][i] = stream[r][i]
    BY <1>2, <1>4 DEF Sent, SentTo
  <2>4. Len(stream[r]) \in Nat
    BY DEF Types
  <2>5. \A i \in 1 .. Len(received[r]) + 1 :
           i <= Len(stream[r]) /\ Append(received[r], output)[i] = stream[r][i]
    BY <1>5, <1>7, <2>3, <2>4
  <2>6. UNCHANGED <<stream, taken>>
    BY <1>2
  <2>7. ASSUME NEW s \in Requests \ {r} PROVE SentTo(s)'
    <3>1. /\ received'[s] = received[s] /\ result'[s] = result[s] /\ reader'[s] = reader[s]
          /\ stream'[s] = stream[s] /\ taken'[s] = taken[s]
      BY <2>1, <2>6
    <3> QED BY <3>1, SentToUnchanged
  <2>8. /\ \A i \in 1 .. Len(received'[r]) :
              i <= Len(stream'[r]) /\ received'[r][i] = stream'[r][i]
        /\ Len(received'[r]) + Len(result'[r]) <= Len(stream'[r])
        /\ taken'[r] = Len(received'[r]) + Len(result'[r])
    BY <2>2, <2>3, <2>5, <2>6, <1>7
  <2>9. SentTo(r)'
    BY <2>2, <2>8 DEF SentTo
  <2> QED BY <2>7, <2>9 DEF Sent
<1> QED BY <1>8, <1>9, <1>10

\* A coroutine that is cancelled takes its job with it, if no thread has begun it.
LEMMA DisconnectPreserves ==
    ASSUME IInv, NEW r \in Requests, Disconnect(r)
    PROVE  IInv'
<1> USE DEF IInv
<1>1. /\ reader[r] \in {"ready", "awaiting"}
      /\ reader' = [reader EXCEPT ![r] = "gone"]
      /\ result' = [result EXCEPT ![r] = <<>>]
      /\ CancelJob(r)
      /\ UNCHANGED <<asked, phase, stream, taken, thread, received>>
  BY DEF Disconnect, schedulerVars
<1>2. jobs \in Seq(Requests) /\ IsInjective(jobs)
  BY DEF Types, OneJob
<1>3. /\ jobs' \in Seq(Requests) /\ IsInjective(jobs')
      /\ Range(jobs') = Range(jobs) \ {r}
  <2>1. CASE r \in Range(jobs)
    <3>1. PICK i \in 1 .. Len(jobs) : jobs' = RemoveAt(jobs, i) /\ jobs[i] = r
      <4>1. DOMAIN jobs = 1 .. Len(jobs) /\ \E i \in DOMAIN jobs : jobs[i] = r
        BY <2>1, <1>2, RangeType
      <4>2. jobs' = RemoveAt(jobs, CHOOSE i \in DOMAIN jobs : jobs[i] = r)
        BY <1>1, <2>1 DEF CancelJob
      <4> QED BY <4>1, <4>2
    <3> QED BY <3>1, <1>2, RemoveAtRange
  <2>2. CASE r \notin Range(jobs)
    BY <2>2, <1>1, <1>2 DEF CancelJob
  <2> QED BY <2>1, <2>2
<1>4. <<>> \in Seq(Nat) /\ Len(<<>>) = 0
  OBVIOUS
<1>5. Types'
  BY <1>1, <1>3, <1>4 DEF Types
<1>6. OneJob'
  BY <1>1, <1>3 DEF OneJob, OnThread, Types
<1>7. Sent'
  <2>1. ASSUME NEW s \in Requests \ {r} PROVE SentTo(s)'
    <3>1. /\ received'[s] = received[s] /\ result'[s] = result[s] /\ reader'[s] = reader[s]
          /\ stream'[s] = stream[s] /\ taken'[s] = taken[s]
      BY <1>1 DEF Types
    <3> QED BY <3>1, SentToUnchanged
  <2>2. SentTo(r)'
    <3>1. /\ received'[r] = received[r] /\ result'[r] = <<>> /\ reader'[r] = "gone"
          /\ stream'[r] = stream[r]
      BY <1>1 DEF Types
    <3>2. /\ \A i \in 1 .. Len(received[r]) :
                i <= Len(stream[r]) /\ received[r][i] = stream[r][i]
          /\ Len(received[r]) + Len(result[r]) <= Len(stream[r])
      BY DEF Sent, SentTo
    <3>3. Len(received[r]) \in Nat /\ Len(result[r]) \in Nat /\ Len(stream[r]) \in Nat
      BY DEF Types
    <3>4. Len(received[r]) <= Len(stream[r])
      BY <3>2, <3>3
    <3> QED BY <3>1, <3>2, <3>3, <3>4, <1>4 DEF SentTo
  <2> QED BY <2>1, <2>2 DEF Sent
<1> QED BY <1>5, <1>6, <1>7

\* A job leaves the list for the one thread that executes it.
LEMMA TakeJobPreserves ==
    ASSUME IInv, NEW t \in Threads, TakeJob(t)
    PROVE  IInv'
<1> USE DEF IInv
<1>1. jobs \in Seq(Requests) /\ jobs # <<>> /\ IsInjective(jobs)
  BY DEF Types, OneJob, TakeJob
<1>2. PICK r \in Requests : r = Head(jobs)
  BY <1>1, TailRange
<1>3. /\ thread[t] = None /\ thread' = [thread EXCEPT ![t] = r]
      /\ jobs' = Tail(jobs)
      /\ UNCHANGED <<asked, phase, stream, taken, reader, result, received>>
  BY <1>2 DEF TakeJob, schedulerVars
<1>4. /\ jobs' \in Seq(Requests) /\ IsInjective(jobs')
      /\ r \in Range(jobs) /\ Range(jobs') = Range(jobs) \ {r}
  BY <1>1, <1>2, <1>3, TailRange
<1>5. Types'
  BY <1>3, <1>4 DEF Types
<1>6. /\ r # None
      /\ \A s \in Requests \ {r} : OnThread(s)' <=> OnThread(s)
      /\ OnThread(r)' /\ ~OnThread(r)
  <2>1. thread \in [Threads -> Requests \cup {None}] /\ None \notin Requests
    BY DeliveryAssumption DEF Types
  <2>2. ~OnThread(r)
    BY <1>4 DEF OneJob
  <2> QED BY <2>1, <2>2, <1>3 DEF OnThread
<1>7. OneJob'
  <2>1. \A u, v \in Threads : thread'[u] # None /\ thread'[u] = thread'[v] => u = v
    <3>1. \A u \in Threads : thread[u] # r
      BY <1>6 DEF OnThread
    <3> QED BY <3>1, <1>3 DEF OneJob, Types
  <2>2. ASSUME NEW s \in Requests
        PROVE  /\ phase'[s] = "new" => reader'[s] = "none"
               /\ s \in Range(jobs') => reader'[s] = "awaiting" /\ result'[s] = <<>>
                                        /\ ~OnThread(s)'
               /\ OnThread(s)' => reader'[s] \in {"awaiting", "gone"} /\ result'[s] = <<>>
               /\ result'[s] # <<>> => reader'[s] = "awaiting" /\ Len(result'[s]) = 1
               /\ reader'[s] = "awaiting" => \/ s \in Range(jobs') \/ OnThread(s)'
                                             \/ result'[s] # <<>>
    <3>1. /\ phase'[s] = phase[s] /\ reader'[s] = reader[s] /\ result'[s] = result[s]
      BY <1>3
    <3>2. CASE s = r
      BY <3>1, <3>2, <1>4, <1>6 DEF OneJob
    <3>3. CASE s # r
      BY <3>1, <3>3, <1>4, <1>6 DEF OneJob
    <3> QED BY <3>2, <3>3
  <2> QED BY <2>1, <2>2, <1>4 DEF OneJob
<1>8. Sent'
  BY <1>3 DEF Sent, SentTo
<1> QED BY <1>5, <1>7, <1>8

\* A get returns the output after those its client has been sent, or one for nobody.
LEMMA GetPreserves ==
    ASSUME IInv, NEW t \in Threads, Get(t)
    PROVE  IInv'
<1> USE DEF IInv
<1>1. PICK r \in Requests : r = thread[t]
  BY DEF Get, Types
<1>2. /\ taken[r] < Len(stream[r])
      /\ taken' = [taken EXCEPT ![r] = @ + 1]
      /\ result' = IF reader[r] = "gone" THEN result
                   ELSE [result EXCEPT ![r] = Append(@, stream[r][taken[r] + 1])]
      /\ thread' = [thread EXCEPT ![t] = None]
      /\ UNCHANGED <<asked, phase, stream, reader, jobs, received>>
  BY <1>1 DEF Get, TakeOutput, GiveBack, schedulerVars
<1>3. /\ reader[r] \in {"awaiting", "gone"} /\ result[r] = <<>> /\ r \notin Range(jobs)
      /\ r # None
  BY <1>1, DeliveryAssumption DEF OneJob, OnThread
<1>4. PICK n \in Nat : n = taken[r]
  BY DEF Types
<1>5. PICK output \in Nat : output = stream[r][n + 1]
  <2>1. stream[r] \in Seq(Nat)
    BY DEF Types
  <2>2. n + 1 \in 1 .. Len(stream[r])
    BY <1>2, <1>4, <2>1
  <2> QED BY <2>1, <2>2
<1>6. PICK answer \in Seq(Nat) : /\ answer = Append(<<>>, output)
                                 /\ Len(answer) = 1 /\ answer[1] = output /\ answer # <<>>
  <2>1. <<>> \in Seq(Nat) /\ Len(<<>>) = 0
    OBVIOUS
  <2>2. /\ Append(<<>>, output) \in Seq(Nat) /\ Len(Append(<<>>, output)) = 0 + 1
        /\ Append(<<>>, output)[0 + 1] = output
    BY <2>1, AppendProperties
  <2> DEFINE one == Append(<<>>, output)
  <2>3. /\ one \in Seq(Nat) /\ Len(one) = 1 /\ one[1] = output
        /\ one = Append(<<>>, output)
    BY <2>2
  <2> HIDE DEF one
  <2>4. one # <<>>
    BY <2>1, <2>3
  <2> QED BY <2>3, <2>4
<1>7. result' = IF reader[r] = "gone" THEN result ELSE [result EXCEPT ![r] = answer]
  BY <1>2, <1>3, <1>4, <1>5, <1>6
<1>8. Types'
  <2>1. taken' \in [Requests -> Nat]
    BY <1>2, <1>4 DEF Types
  <2>2. result' \in [Requests -> Seq(Nat)]
    BY <1>7 DEF Types
  <2>3. thread' \in [Threads -> Requests \cup {None}]
    BY <1>2 DEF Types
  <2> QED BY <2>1, <2>2, <2>3, <1>2 DEF Types
<1>9. /\ \A s \in Requests \ {r} : OnThread(s)' <=> OnThread(s)
      /\ ~OnThread(r)'
  <2>1. /\ thread'[t] = None /\ None \notin Requests
        /\ \A u \in Threads \ {t} : thread'[u] = thread[u]
    BY <1>2, DeliveryAssumption DEF Types
  <2>2. \A u \in Threads \ {t} : thread[u] # r
    BY <1>1, <1>3 DEF OneJob
  <2>3. ~OnThread(r)'
    BY <2>1, <2>2, <1>3 DEF OnThread
  <2>4. ASSUME NEW s \in Requests \ {r} PROVE OnThread(s)' <=> OnThread(s)
    BY <2>1, <1>1 DEF OnThread
  <2> QED BY <2>3, <2>4
<1>10. OneJob'
  <2>1. \A u, v \in Threads : thread'[u] # None /\ thread'[u] = thread'[v] => u = v
    BY <1>2 DEF OneJob, Types
  <2>2. ASSUME NEW s \in Requests
        PROVE  /\ phase'[s] = "new" => reader'[s] = "none"
               /\ s \in Range(jobs') => reader'[s] = "awaiting" /\ result'[s] = <<>>
                                        /\ ~OnThread(s)'
               /\ OnThread(s)' => reader'[s] \in {"awaiting", "gone"} /\ result'[s] = <<>>
               /\ result'[s] # <<>> => reader'[s] = "awaiting" /\ Len(result'[s]) = 1
               /\ reader'[s] = "awaiting" => \/ s \in Range(jobs') \/ OnThread(s)'
                                             \/ result'[s] # <<>>
    <3>1. /\ phase'[s] = phase[s] /\ reader'[s] = reader[s] /\ jobs' = jobs
      BY <1>2
    <3>2. CASE s = r
      <4>1. result'[r] = IF reader[r] = "gone" THEN <<>> ELSE answer
        BY <1>3, <1>7 DEF Types
      <4> QED BY <3>1, <3>2, <4>1, <1>3, <1>6, <1>9 DEF OneJob
    <3>3. CASE s # r
      <4>1. result'[s] = result[s]
        BY <1>7, <3>3 DEF Types
      <4> QED BY <3>1, <3>3, <4>1, <1>9 DEF OneJob
    <3> QED BY <3>2, <3>3
  <2> QED BY <2>1, <2>2, <1>2 DEF OneJob
<1>11. Sent'
  <2>1. ASSUME NEW s \in Requests \ {r} PROVE SentTo(s)'
    <3>1. /\ received'[s] = received[s] /\ result'[s] = result[s] /\ reader'[s] = reader[s]
          /\ stream'[s] = stream[s] /\ taken'[s] = taken[s]
      BY <1>2, <1>7 DEF Types
    <3> QED BY <3>1, SentToUnchanged
  <2>2. SentTo(r)'
    <3>1. /\ received'[r] = received[r] /\ reader'[r] = reader[r] /\ stream'[r] = stream[r]
          /\ taken'[r] = n + 1
          /\ result'[r] = IF reader[r] = "gone" THEN <<>> ELSE answer
      BY <1>2, <1>3, <1>4, <1>7 DEF Types
    <3>2. SentTo(r) /\ Len(result[r]) = 0
      BY <1>3 DEF Sent
    <3>3. Len(received[r]) \in Nat /\ Len(stream[r]) \in Nat
      BY DEF Types
    <3>4. \A i \in 1 .. Len(received[r]) : i <= Len(stream[r]) /\ received[r][i] = stream[r][i]
      BY <3>2 DEF SentTo
    <3>5. CASE reader[r] = "gone"
      <4>1. SentTo(r)' <=> SentTo(r)
        BY <3>1, <3>5, <1>3 DEF SentTo
      <4> QED BY <4>1, <3>2
    <3>6. CASE reader[r] # "gone"
      <4>1. n = Len(received[r])
        BY <3>2, <3>3, <3>6, <1>4 DEF SentTo
      <4>2. /\ n + 1 <= Len(stream[r]) /\ answer[1] = stream[r][n + 1]
            /\ n + Len(answer) = n + 1
        BY <1>2, <1>4, <1>5, <1>6, <3>3
      <4>3. result'[r] = answer
        BY <3>1, <3>6
      <4> QED BY <3>1, <3>4, <4>1, <4>2, <4>3 DEF SentTo
    <3> QED BY <3>5, <3>6
  <2> QED BY <2>1, <2>2 DEF Sent
<1> QED BY <1>8, <1>10, <1>11

\* Every step keeps the invariant.
LEMMA StepPreserves == IInv /\ [Next]_vars => IInv'
<1> SUFFICES ASSUME IInv, [Next]_vars PROVE IInv'
  OBVIOUS
<1>1. CASE UNCHANGED vars
  BY <1>1, UnchangedPreserves DEF vars, schedulerVars, deliveryVars
<1>2. ASSUME NEW r \in Requests, SchedulerStep(r) \/ Strand(r) PROVE IInv'
  BY <1>2, SchedulerPreserves
<1>3. ASSUME NEW r \in Requests, ChatCompletions(r) PROVE IInv'
  BY <1>3, ChatPreserves
<1>4. ASSUME NEW r \in Requests, CoroutineStep(r) PROVE IInv'
  BY <1>4, RequestNextPreserves, DeliverPreserves DEF CoroutineStep
<1>5. ASSUME NEW r \in Requests, Disconnect(r) PROVE IInv'
  BY <1>5, DisconnectPreserves
<1>6. ASSUME NEW t \in Threads, ThreadStep(t) PROVE IInv'
  BY <1>6, TakeJobPreserves, GetPreserves DEF ThreadStep
<1> QED BY <1>1, <1>2, <1>3, <1>4, <1>5, <1>6 DEF Next

\* The invariant holds in every behaviour of the server.
THEOREM Invariance == Spec => []IInv
BY InitInv, StepPreserves, PTL DEF Spec

\* Two pieces, one after the other, of a sequence are its beginning.
LEMMA TwoPieces ==
    ASSUME NEW a \in Seq(Nat), NEW b \in Seq(Nat), NEW c \in Seq(Nat),
           \A i \in 1 .. Len(a) : a[i] = c[i],
           \A i \in 1 .. Len(b) : b[i] = c[Len(a) + i],
           Len(a) + Len(b) <= Len(c)
    PROVE  /\ a \o b = SubSeq(c, 1, Len(a \o b))
           /\ Len(a \o b) = Len(a) + Len(b)
<1> DEFINE s == a \o b
<1>1. Len(a) \in Nat /\ Len(b) \in Nat /\ Len(c) \in Nat
  OBVIOUS
<1>2. /\ s \in Seq(Nat) /\ Len(s) = Len(a) + Len(b)
      /\ \A i \in 1 .. Len(a) + Len(b) :
            s[i] = IF i <= Len(a) THEN a[i] ELSE b[i - Len(a)]
  BY ConcatProperties
<1> HIDE DEF s
<1>3. ASSUME NEW i \in 1 .. Len(s) PROVE s[i] = c[i]
  <2>1. CASE i <= Len(a)
    <3>1. i \in 1 .. Len(a)
      BY <2>1, <1>1, <1>2
    <3>2. s[i] = a[i]
      BY <3>1, <2>1, <1>2
    <3>3. a[i] = c[i]
      BY <3>1
    <3> QED BY <3>2, <3>3
  <2>2. CASE ~(i <= Len(a))
    <3>1. i - Len(a) \in 1 .. Len(b) /\ Len(a) + (i - Len(a)) = i
      BY <2>2, <1>1, <1>2
    <3> QED BY <3>1, <2>2, <1>2
  <2> QED BY <2>1, <2>2
<1>4. /\ SubSeq(c, 1, Len(s)) \in Seq(Nat) /\ Len(SubSeq(c, 1, Len(s))) = Len(s)
      /\ \A i \in 1 .. Len(s) : SubSeq(c, 1, Len(s))[i] = c[i]
  BY <1>1, <1>2
<1>5. s = SubSeq(c, 1, Len(s))
  BY <1>2, <1>3, <1>4
<1> QED BY <1>2, <1>5 DEF s

\* The parts of the invariant, put as DeliveredInOrder puts them.
LEMMA InOrder == IInv => DeliveredInOrder
<1> SUFFICES ASSUME IInv, NEW r \in Requests
             PROVE  /\ received[r] \o result[r]
                          = SubSeq(stream[r], 1, Len(received[r] \o result[r]))
                    /\ reader[r] # "gone" => taken[r] = Len(received[r] \o result[r])
  BY DEF DeliveredInOrder
<1>1. PICK a \in Seq(Nat) : a = received[r]
  BY DEF IInv, Types
<1>2. PICK b \in Seq(Nat) : b = result[r]
  BY DEF IInv, Types
<1>3. PICK c \in Seq(Nat) : c = stream[r]
  BY DEF IInv, Types
<1>4. /\ \A i \in 1 .. Len(a) : a[i] = c[i]
      /\ Len(a) + Len(b) <= Len(c)
      /\ b # <<>> => b[1] = c[Len(a) + 1] /\ Len(b) = 1
      /\ reader[r] # "gone" => taken[r] = Len(a) + Len(b)
  BY <1>1, <1>2, <1>3 DEF IInv, Sent, SentTo, OneJob
<1>5. \A i \in 1 .. Len(b) : b[i] = c[Len(a) + i]
  <2>1. CASE b = <<>>
    BY <2>1
  <2>2. CASE b # <<>>
    <3>1. Len(b) = 1 /\ b[1] = c[Len(a) + 1]
      BY <2>2, <1>4
    <3>2. \A i \in 1 .. 1 : i = 1
      OBVIOUS
    <3> QED BY <3>1, <3>2
  <2> QED BY <2>1, <2>2
<1>6. a \o b = SubSeq(c, 1, Len(a \o b)) /\ Len(a \o b) = Len(a) + Len(b)
  BY <1>4, <1>5, TwoPieces
<1> QED BY <1>1, <1>2, <1>3, <1>4, <1>6

\* A set whose elements are equal has at most one.
LEMMA AtMostOne ==
    ASSUME NEW S, \A x, y \in S : x = y
    PROVE  Cardinality(S) = IF S = {} THEN 0 ELSE 1
<1>1. CASE S = {}
  BY <1>1, FS_EmptySet
<1>2. CASE S # {}
  <2>1. PICK x \in S : S = {x}
    BY <1>2
  <2> QED BY <1>2, <2>1, FS_Singleton
<1> QED BY <1>1, <1>2

\* The parts of the invariant, counted as OneGetPerRequest counts them.
LEMMA OneGet == IInv => OneGetPerRequest
<1> SUFFICES ASSUME IInv, NEW r \in Requests
             PROVE  LET pending == Cardinality({i \in DOMAIN jobs : jobs[i] = r})
                        executing == Cardinality({t \in Threads : thread[t] = r})
                    IN  /\ reader[r] = "awaiting" => pending + executing + Len(result[r]) = 1
                        /\ reader[r] = "gone" => pending = 0 /\ executing <= 1
                        /\ reader[r] \in {"none", "ready", "closed"} => pending + executing = 0
  BY DEF OneGetPerRequest
<1> DEFINE P == {i \in DOMAIN jobs : jobs[i] = r}
           E == {t \in Threads : thread[t] = r}
<1>1. /\ P = {} <=> r \notin Range(jobs)
      /\ E = {} <=> ~OnThread(r)
  BY DEF Range, OnThread
<1>2. Cardinality(P) = IF r \in Range(jobs) THEN 1 ELSE 0
  <2>1. \A x, y \in P : x = y
    BY DEF IInv, OneJob, IsInjective
  <2> HIDE DEF P
  <2> QED BY <2>1, <1>1, AtMostOne
<1>3. Cardinality(E) = IF OnThread(r) THEN 1 ELSE 0
  <2>1. r # None
    BY DeliveryAssumption
  <2>2. \A x, y \in E : x = y
    BY <2>1 DEF IInv, OneJob
  <2> HIDE DEF E
  <2> QED BY <2>2, <1>1, AtMostOne
<1>4. Len(result[r]) = IF result[r] = <<>> THEN 0 ELSE 1
  <2>1. result[r] # <<>> => Len(result[r]) = 1
    BY DEF IInv, OneJob
  <2>2. Len(<<>>) = 0
    OBVIOUS
  <2> QED BY <2>1, <2>2
<1>5. /\ r \in Range(jobs) => reader[r] = "awaiting" /\ result[r] = <<>> /\ ~OnThread(r)
      /\ OnThread(r) => reader[r] \in {"awaiting", "gone"} /\ result[r] = <<>>
      /\ reader[r] = "awaiting" => r \in Range(jobs) \/ OnThread(r) \/ result[r] # <<>>
  BY DEF IInv, OneJob
<1> HIDE DEF P, E
<1>6. /\ reader[r] = "awaiting" => Cardinality(P) + Cardinality(E) + Len(result[r]) = 1
      /\ reader[r] = "gone" => Cardinality(P) = 0 /\ Cardinality(E) <= 1
      /\ reader[r] \in {"none", "ready", "closed"} => Cardinality(P) + Cardinality(E) = 0
  BY <1>2, <1>3, <1>4, <1>5
<1> QED BY <1>6 DEF P, E

\* Each client is sent what the scheduler put on its queue, each output once and in
\* order, and while it is there nothing else is taken (server.py, _stream_response).
THEOREM DeliveryInOrder == Spec => []DeliveredInOrder
BY Invariance, InOrder, PTL

\* A request has one get at most, in the list, on a thread or answered, and a cancelled
\* coroutine leaves at most the one a thread is in (server.py, run_in_executor).
THEOREM OneGetAtATime == Spec => []OneGetPerRequest
BY Invariance, OneGet, PTL

----------------------------------------------------------------------------
\* Where a stream ends.

\* The end mark is the last output of a finished request, and of no other; a reader
\* that is closed has been given one.
Ended(r) ==
    /\ phase[r] = "new" => stream[r] = <<>>
    /\ \A k \in 1 .. Len(stream[r]) :
          stream[r][k] = EndMark <=> phase[r] = "FINISHED" /\ k = Len(stream[r])
    /\ phase[r] = "FINISHED" => Len(stream[r]) >= 1
    /\ reader[r] = "closed" => /\ Len(received[r]) >= 1
                               /\ received[r][Len(received[r])] = EndMark

Ends == \A r \in Requests : Ended(r)

\* A step of the server ends no stream twice.
LEMMA ProduceEnds ==
    ASSUME IInv, Ends, NEW r \in Requests, Produce(r), UNCHANGED <<reader, received>>
    PROVE  /\ Ends'
           /\ \A s \in Requests : phase[s] = "FINISHED" => /\ phase'[s] = "FINISHED"
                                                           /\ stream'[s] = stream[s]
<1> USE DEF IInv, Types
<1>1. PICK n \in Nat : n = Len(stream[r])
  OBVIOUS
<1>2. Scheduler!Token(r) \in Nat /\ Scheduler!Token(r) # EndMark /\ EndMark = 0
  <2>1. asked[r] \in [prompt : PromptLens, maxNew : MaxNews]
    OBVIOUS
  <2>2. PICK p \in Nat : p = asked[r].prompt
    BY <2>1, DeliveryAssumption
  <2>3. Scheduler!Token(r) = p + n + 1
    BY <1>1, <2>2 DEF Scheduler!Token
  <2>4. EndMark = 0
    BY DEF EndMark, Scheduler!EndMark
  <2>5. p + n + 1 \in Nat /\ p + n + 1 # 0
    OBVIOUS
  <2> QED BY <2>3, <2>4, <2>5
<1>3. phase[r] # "FINISHED" /\ phase'[r] # "new"
      /\ \A s \in Requests \ {r} : phase'[s] = phase[s] /\ stream'[s] = stream[s]
  BY DEF Produce, Scheduler!Start, Scheduler!Emit, Scheduler!EmitLast, Scheduler!Refuse
<1>4. ASSUME NEW s \in Requests \ {r} PROVE Ended(s)'
  <2>1. phase'[s] = phase[s] /\ stream'[s] = stream[s]
    BY <1>3
  <2>2. Ended(s)
    BY DEF Ends
  <2> QED BY <2>1, <2>2 DEF Ended, EndMark, Scheduler!EndMark
<1>5. \A k \in 1 .. n : stream[r][k] # EndMark
  BY <1>1, <1>3 DEF Ends, Ended
<1>6. reader[r] = "closed" => /\ Len(received[r]) >= 1
                              /\ received[r][Len(received[r])] = EndMark
  BY DEF Ends, Ended
<1>7. Ended(r)'
  <2>0. stream[r] \in Seq(Nat) /\ EndMark' = EndMark
    BY DEF EndMark, Scheduler!EndMark
  <2>1. CASE Scheduler!Start({r})
    <3>1. stream'[r] = stream[r] /\ phase'[r] = "RUNNING"
      BY <2>1 DEF Scheduler!Start
    <3> QED BY <1>5, <1>1, <1>6, <2>0, <3>1 DEF Ended
  <2>2. CASE Scheduler!Emit(r)
    <3>1. stream'[r] = Append(stream[r], Scheduler!Token(r)) /\ phase'[r] = "RUNNING"
      BY <2>2 DEF Scheduler!Emit
    <3>2. PICK t : t = Append(stream[r], Scheduler!Token(r))
      OBVIOUS
    <3>3. /\ Len(t) = n + 1 /\ t[n + 1] # EndMark
          /\ \A k \in 1 .. n : t[k] = stream[r][k]
      BY <1>1, <1>2, <2>0, <3>2, AppendProperties
    <3>4. \A k \in 1 .. n + 1 : t[k] # EndMark
      <4>1. \A k \in 1 .. n + 1 : k \in 1 .. n \/ k = n + 1
        OBVIOUS
      <4> QED BY <1>5, <3>3, <4>1
    <3> QED BY <1>6, <2>0, <3>1, <3>2, <3>3, <3>4 DEF Ended
  <2>3. CASE Scheduler!EmitLast(r)
    <3>1. /\ stream'[r] = stream[r] \o <<Scheduler!Token(r), EndMark>>
          /\ phase'[r] = "FINISHED"
      BY <2>3 DEF Scheduler!EmitLast, EndMark
    <3>2. PICK t : t = stream[r] \o <<Scheduler!Token(r), EndMark>>
      OBVIOUS
    <3>3. /\ Len(t) = n + 2 /\ t[n + 1] # EndMark /\ t[n + 2] = EndMark
          /\ \A k \in 1 .. n : t[k] = stream[r][k]
      <4>1. EndMark \in Nat
        BY <1>2
      <4> QED BY <1>1, <1>2, <2>0, <3>2, <4>1, AppendTwo
    <3>4. \A k \in 1 .. n + 2 : t[k] = EndMark <=> k = n + 2
      <4> TAKE k \in 1 .. n + 2
      <4>1. k \in 1 .. n \/ k = n + 1 \/ k = n + 2
        OBVIOUS
      <4>2. CASE k \in 1 .. n
        <5>1. k # n + 2
          BY <4>2
        <5>2. t[k] # EndMark
          BY <1>5, <3>3, <4>2
        <5> QED BY <5>1, <5>2
      <4>3. CASE k = n + 1
        <5>1. k # n + 2
          BY <4>3
        <5> QED BY <3>3, <4>3, <5>1
      <4>4. CASE k = n + 2
        BY <3>3, <4>4
      <4> QED BY <4>1, <4>2, <4>3, <4>4
    <3>5. n + 2 >= 1
      OBVIOUS
    <3> QED BY <1>6, <2>0, <3>1, <3>2, <3>3, <3>4, <3>5 DEF Ended
  <2>4. CASE Scheduler!Refuse(r)
    <3>1. stream'[r] = <<EndMark>> /\ phase'[r] = "FINISHED"
      BY <2>4 DEF Scheduler!Refuse, EndMark
    <3>2. PICK t : t = <<EndMark>>
      OBVIOUS
    <3>3. Len(t) = 1 /\ t[1] = EndMark
      BY <3>2
    <3>4. \A k \in 1 .. 1 : k = 1
      OBVIOUS
    <3> QED BY <1>6, <2>0, <3>1, <3>2, <3>3, <3>4 DEF Ended
  <2> QED BY <2>1, <2>2, <2>3, <2>4 DEF Produce
<1> QED BY <1>3, <1>4, <1>7 DEF Ends

\* What a step of the server or of a reader does to the ends of streams.
LEMMA StepEnds ==
    ASSUME IInv, IInv', Ends, [Next]_vars
    PROVE  /\ Ends'
           /\ \A s \in Requests : phase[s] = "FINISHED" => /\ phase'[s] = "FINISHED"
                                                           /\ stream'[s] = stream[s]
<1>0. EndMark' = EndMark
  BY DEF EndMark, Scheduler!EndMark
<1>1. CASE \E r \in Requests : SchedulerStep(r)
  BY <1>1, ProduceEnds DEF SchedulerStep, deliveryVars
<1>2. CASE UNCHANGED <<phase, stream, reader, received>>
  BY <1>0, <1>2 DEF Ends, Ended
<1>3. CASE \E r \in Requests : Strand(r)
  BY <1>2, <1>3 DEF Strand, deliveryVars
<1>4. ASSUME NEW r \in Requests, ChatCompletions(r)
      PROVE  /\ Ends'
             /\ \A s \in Requests : phase[s] = "FINISHED" => /\ phase'[s] = "FINISHED"
                                                             /\ stream'[s] = stream[s]
  <2>1. /\ phase[r] = "new" /\ phase' = [phase EXCEPT ![r] = "WAITING"]
        /\ reader' = [reader EXCEPT ![r] = "ready"]
        /\ UNCHANGED <<stream, received>>
    BY <1>4 DEF ChatCompletions, Scheduler!Submit
  <2>2. /\ phase'[r] = "WAITING" /\ reader'[r] = "ready"
        /\ \A s \in Requests \ {r} : phase'[s] = phase[s] /\ reader'[s] = reader[s]
    BY <2>1 DEF IInv, Types
  <2>3. Ended(r)'
    BY <1>0, <2>1, <2>2 DEF Ends, Ended
  <2>4. \A s \in Requests \ {r} : Ended(s)'
    BY <1>0, <2>1, <2>2 DEF Ends, Ended
  <2> QED BY <2>1, <2>2, <2>3, <2>4 DEF Ends
<1>5. ASSUME NEW r \in Requests, RequestNext(r) \/ Disconnect(r)
      PROVE  /\ Ends'
             /\ \A s \in Requests : phase[s] = "FINISHED" => /\ phase'[s] = "FINISHED"
                                                             /\ stream'[s] = stream[s]
  <2>1. /\ UNCHANGED <<phase, stream, received>>
        /\ reader' = [reader EXCEPT ![r] = "awaiting"] \/ reader' = [reader EXCEPT ![r] = "gone"]
    BY <1>5 DEF RequestNext, Await, Disconnect, schedulerVars
  <2>2. /\ reader'[r] # "closed"
        /\ \A s \in Requests \ {r} : reader'[s] = reader[s]
    BY <2>1 DEF IInv, Types
  <2>3. Ended(r)'
    BY <1>0, <2>1, <2>2 DEF Ends, Ended
  <2>4. \A s \in Requests \ {r} : Ended(s)'
    BY <1>0, <2>1, <2>2 DEF Ends, Ended
  <2> QED BY <2>1, <2>3, <2>4 DEF Ends
<1>6. ASSUME NEW r \in Requests, Deliver(r)
      PROVE  /\ Ends'
             /\ \A s \in Requests : phase[s] = "FINISHED" => /\ phase'[s] = "FINISHED"
                                                             /\ stream'[s] = stream[s]
  <2>1. /\ UNCHANGED <<phase, stream>>
        /\ reader' = [reader EXCEPT ![r] = After(Head(result[r]))]
        /\ received' = [received EXCEPT ![r] = Append(@, Head(result[r]))]
        /\ result[r] # <<>>
    BY <1>6 DEF Deliver, schedulerVars
  <2>2. PICK output \in Nat : output = Head(result[r])
    BY <2>1, HeadTailProperties DEF IInv, Types
  <2>3. /\ reader'[r] = After(output) /\ received'[r] = Append(received[r], output)
        /\ \A s \in Requests \ {r} : reader'[s] = reader[s] /\ received'[s] = received[s]
    BY <2>1, <2>2 DEF IInv, Types
  <2>4. /\ Len(received'[r]) >= 1 /\ received'[r][Len(received'[r])] = output
    <3>1. received[r] \in Seq(Nat)
      BY DEF IInv, Types
    <3>2. PICK n \in Nat : n = Len(received[r])
      BY <3>1
    <3>3. Len(Append(received[r], output)) = n + 1 /\ Append(received[r], output)[n + 1] = output
      BY <3>1, <3>2, AppendProperties
    <3> QED BY <2>3, <3>3
  <2>5. reader'[r] = "closed" => output = EndMark
    BY <2>3 DEF After
  <2>6. Ended(r)'
    BY <1>0, <2>1, <2>4, <2>5 DEF Ends, Ended
  <2>7. \A s \in Requests \ {r} : Ended(s)'
    BY <1>0, <2>1, <2>3 DEF Ends, Ended
  <2> QED BY <2>1, <2>6, <2>7 DEF Ends
<1>7. CASE \E t \in Threads : ThreadStep(t)
  BY <1>2, <1>7 DEF ThreadStep, TakeJob, Get, schedulerVars
<1>8. CASE UNCHANGED vars
  BY <1>2, <1>8 DEF vars, schedulerVars, deliveryVars
<1> QED BY <1>1, <1>3, <1>4, <1>5, <1>6, <1>7, <1>8 DEF Next, CoroutineStep


\* Before the first request there is no stream.
LEMMA InitEnds == Init => Ends
BY DEF Init, Ends, Ended, Scheduler!Init

----------------------------------------------------------------------------
\* The load generators.

\* Each request of S is waiting to be sent, is sent, or is reported, once.
Account(S, waiting, sent, reports) ==
    /\ waiting \in Seq(S) /\ IsInjective(waiting)
    /\ sent \subseteq S /\ sent \cap Range(waiting) = {}
    /\ reports \in Seq([request : S, failed : BOOLEAN, tokens : Nat])
    /\ Len(waiting) + Cardinality(sent) + Len(reports) = Cardinality(S)
    /\ Range(waiting) \cup sent \cup {reports[i].request : i \in DOMAIN reports} = S

Accounted(c) ==
    IF Replaying(c) /\ aborted
    THEN backlog[c] = <<>> /\ inflight[c] = {} /\ results[c] = <<>>
    ELSE Account(RequestsOf(c), backlog[c], inflight[c], results[c])

\* The outputs in s, a stream of r or a part of it, that a client counts.
Texts(r, s) == {k \in DOMAIN s : s[k] # EndMark /\ r \notin Silent}

\* A client has counted what it was sent, and nothing before it posts the request.
CountedFor(r) ==
    /\ r \in Range(backlog[ClientOf(r)]) => counted[r] = 0
    /\ r \in inflight[ClientOf(r)] => counted[r] = Cardinality(Texts(r, received[r]))

\* A report without an error is one of a stream that has ended.
Truthful(report) ==
    ~report.failed => /\ phase[report.request] = "FINISHED"
                      /\ report.tokens = Cardinality(Texts(report.request, stream[report.request]))

ClientTypes ==
    /\ counted \in [Requests -> Nat]
    /\ backlog \in [Clients -> Seq(Requests)]
    /\ inflight \in [Clients -> SUBSET Requests]
    /\ results \in [Clients -> Seq([request : Requests, failed : BOOLEAN, tokens : Nat])]

LoadInv ==
    /\ ClientTypes
    /\ \A c \in Clients : Accounted(c)
    /\ \A r \in Requests : CountedFor(r)
    /\ \A c \in Clients : \A i \in 1 .. Len(results[c]) : Truthful(results[c][i])

\* At the start every request is in the queue of its client, once.
LEMMA AccountStart ==
    ASSUME NEW S, IsFiniteSet(S)
    PROVE  Account(S, SetToSeq(S), {}, <<>>)
<1> DEFINE n == Cardinality(S)
           q == SetToSeq(S)
<1>1. n \in Nat /\ ExistsBijection(1 .. n, S)
  BY FS_CardinalityType
<1>2. \E f \in [1 .. n -> S] : IsInjective(f)
  BY <1>1 DEF ExistsBijection, Bijection, Injection
<1>3. q \in [1 .. n -> S] /\ IsInjective(q)
  BY <1>2 DEF SetToSeq
<1> HIDE DEF q
<1>4. \A t \in S : \E i \in 1 .. n : q[i] = t
  <2>1. q \in Injection(1 .. n, S)
    BY <1>3 DEF Injection
  <2>2. Cardinality(1 .. n) = n
    <3>1. 1 \in Int /\ n \in Int
      BY <1>1
    <3> QED BY <1>1, <3>1, FS_Interval
  <2>3. q \in Surjection(1 .. n, S)
    BY <2>1, <2>2, FS_Injection
  <2> QED BY <2>3 DEF Surjection
<1>5. q \in Seq(S) /\ Len(q) = n
  BY <1>1, <1>3
<1>6. Range(q) = S
  BY <1>3, <1>4 DEF Range
<1>7. Len(<<>>) = 0 /\ Cardinality({}) = 0 /\ DOMAIN <<>> = {}
  BY FS_EmptySet
<1>8. <<>> \in Seq([request : S, failed : BOOLEAN, tokens : Nat])
  OBVIOUS
<1> QED BY <1>1, <1>3, <1>5, <1>6, <1>7, <1>8 DEF Account, q

\* A request that is sent has left the queue.
LEMMA AccountSend ==
    ASSUME NEW S, IsFiniteSet(S), NEW w, NEW sent, NEW reports,
           Account(S, w, sent, reports), w # <<>>
    PROVE  /\ Head(w) \in S /\ Head(w) \notin sent
           /\ Head(w) \notin Range(Tail(w)) /\ Range(Tail(w)) \subseteq Range(w)
           /\ Account(S, Tail(w), sent \cup {Head(w)}, reports)
<1>1. PICK r : r = Head(w)
  OBVIOUS
<1>2. PICK v : v = Tail(w)
  OBVIOUS
<1>3. w \in Seq(S) /\ IsInjective(w)
  BY DEF Account
<1>4. /\ r \in S /\ r \in Range(w) /\ v \in Seq(S) /\ Len(v) = Len(w) - 1
      /\ Range(v) \subseteq Range(w) /\ Range(w) = Range(v) \cup {r}
      /\ IsInjective(v) /\ r \notin Range(v)
  BY <1>1, <1>2, <1>3, TailRange
<1>5. sent \subseteq S /\ sent \cap Range(w) = {}
  BY DEF Account
<1>6. IsFiniteSet(sent) /\ Cardinality(sent) \in Nat
  <2>1. IsFiniteSet(sent)
    BY <1>5, FS_Subset
  <2> QED BY <2>1, FS_CardinalityType
<1>7. r \notin sent /\ Cardinality(sent \cup {r}) = Cardinality(sent) + 1
  <2>1. r \notin sent
    BY <1>4, <1>5
  <2> QED BY <2>1, <1>6, FS_AddElement
<1>8. Len(v) + Cardinality(sent \cup {r}) + Len(reports) = Cardinality(S)
  <2>1. Len(w) \in Nat
    BY <1>3
  <2>2. Len(w) + Cardinality(sent) + Len(reports) = Cardinality(S)
    BY DEF Account
  <2>3. reports \in Seq([request : S, failed : BOOLEAN, tokens : Nat])
    BY DEF Account
  <2>4. Len(reports) \in Nat
    BY <2>3
  <2> QED BY <1>4, <1>6, <1>7, <2>1, <2>2, <2>4
<1>9. Range(v) \cup (sent \cup {r}) \cup {reports[i].request : i \in DOMAIN reports} = S
  BY <1>4 DEF Account
<1>10. (sent \cup {r}) \cap Range(v) = {}
  BY <1>4, <1>5
<1>11. Account(S, v, sent \cup {r}, reports)
  BY <1>4, <1>5, <1>8, <1>9, <1>10 DEF Account
<1> QED BY <1>1, <1>2, <1>4, <1>7, <1>11

\* A request that is reported is no longer in flight.
LEMMA AccountReport ==
    ASSUME NEW S, IsFiniteSet(S), NEW w, NEW sent, NEW reports,
           Account(S, w, sent, reports), NEW r \in sent,
           NEW failed \in BOOLEAN, NEW tokens \in Nat
    PROVE  Account(S, w, sent \ {r},
                   Append(reports, [request |-> r, failed |-> failed, tokens |-> tokens]))
<1>1. PICK report : report = [request |-> r, failed |-> failed, tokens |-> tokens]
  OBVIOUS
<1>2. PICK more : more = Append(reports, report)
  OBVIOUS
<1>3. sent \subseteq S /\ sent \cap Range(w) = {} /\ w \in Seq(S) /\ IsInjective(w)
  BY DEF Account
<1>4. report \in [request : S, failed : BOOLEAN, tokens : Nat] /\ report.request = r
  BY <1>1, <1>3
<1>5. reports \in Seq([request : S, failed : BOOLEAN, tokens : Nat])
  BY DEF Account
<1>6. /\ more \in Seq([request : S, failed : BOOLEAN, tokens : Nat])
      /\ Len(more) = Len(reports) + 1 /\ Len(reports) \in Nat
      /\ DOMAIN reports = 1 .. Len(reports)
      /\ DOMAIN more = 1 .. Len(reports) + 1
      /\ more[Len(reports) + 1] = report
      /\ \A i \in 1 .. Len(reports) : more[i] = reports[i]
  BY <1>2, <1>4, <1>5, AppendProperties
<1>7. IsFiniteSet(sent) /\ Cardinality(sent) \in Nat
  <2>1. IsFiniteSet(sent)
    BY <1>3, FS_Subset
  <2> QED BY <2>1, FS_CardinalityType
<1>8. Cardinality(sent \ {r}) = Cardinality(sent) - 1
  BY <1>7, FS_RemoveElement
<1>9. Len(w) + Cardinality(sent \ {r}) + Len(more) = Cardinality(S)
  <2>1. Len(w) \in Nat
    BY <1>3
  <2>2. Len(w) + Cardinality(sent) + Len(reports) = Cardinality(S)
    BY DEF Account
  <2> QED BY <1>6, <1>7, <1>8, <2>1, <2>2
<1>10. {more[i].request : i \in DOMAIN more}
          = {reports[i].request : i \in DOMAIN reports} \cup {r}
  <2>1. PICK n \in Nat : n = Len(reports)
    BY <1>6
  <2>2. \A i : i \in 1 .. n + 1 <=> i \in 1 .. n \/ i = n + 1
    OBVIOUS
  <2>3. \A x : (\E i \in DOMAIN more : x = more[i].request)
                  <=> (\E i \in DOMAIN reports : x = reports[i].request) \/ x = r
    BY <1>4, <1>6, <2>1, <2>2
  <2> QED BY <2>3
<1>11. Range(w) \cup (sent \ {r}) \cup {more[i].request : i \in DOMAIN more} = S
  <2>1. Range(w) \cup sent \cup {reports[i].request : i \in DOMAIN reports} = S
    BY DEF Account
  <2> QED BY <1>10, <2>1
<1>12. Account(S, w, sent \ {r}, more)
  BY <1>3, <1>6, <1>9, <1>11 DEF Account
<1> QED BY <1>1, <1>2, <1>12


\* The requests of a client are finitely many.
LEMMA RequestsOfFinite == \A c : RequestsOf(c) \subseteq Requests /\ IsFiniteSet(RequestsOf(c))
<1> SUFFICES ASSUME NEW c
             PROVE  RequestsOf(c) \subseteq Requests /\ IsFiniteSet(RequestsOf(c))
  OBVIOUS
<1>1. RequestsOf(c) \subseteq Requests
  BY DEF RequestsOf
<1> QED BY <1>1, LoadAssumption, FS_Subset

\* Nothing has been posted or reported.
LEMMA LoadInitInv == LoadInit => Init /\ LoadInv
<1> SUFFICES ASSUME LoadInit PROVE Init /\ LoadInv
  OBVIOUS
<1> USE DEF LoadInit
<1>1. <<>> \in Seq([request : Requests, failed : BOOLEAN, tokens : Nat]) /\ Len(<<>>) = 0
  OBVIOUS
<1>2. ASSUME NEW c \in Clients
      PROVE  /\ Account(RequestsOf(c), SetToSeq(RequestsOf(c)), {}, <<>>)
             /\ SetToSeq(RequestsOf(c)) \in Seq(Requests)
  <2>1. Account(RequestsOf(c), SetToSeq(RequestsOf(c)), {}, <<>>)
    BY RequestsOfFinite, AccountStart
  <2>2. PICK q : q = SetToSeq(RequestsOf(c))
    OBVIOUS
  <2>3. q \in Seq(RequestsOf(c)) /\ RequestsOf(c) \subseteq Requests
    BY <2>1, <2>2, RequestsOfFinite DEF Account
  <2>4. q \in Seq(Requests)
    BY <2>3
  <2> QED BY <2>1, <2>2, <2>4
<1>3. ClientTypes
  BY <1>1, <1>2 DEF ClientTypes
<1>4. \A c \in Clients : Accounted(c)
  BY <1>2 DEF Accounted, Replaying
<1>5. \A r \in Requests : CountedFor(r)
  BY DEF CountedFor, ClientOf, Clients
<1>6. \A c \in Clients : \A i \in 1 .. Len(results[c]) : Truthful(results[c][i])
  BY <1>1
<1> QED BY <1>3, <1>4, <1>5, <1>6 DEF LoadInv

\* With its clients, the server takes the steps it takes with any clients.
LEMMA LoadStepIsServerStep ==
    ASSUME ClientTypes, [LoadNext]_allVars
    PROVE  [Next]_vars
<1>1. CASE ServerStep
  BY <1>1 DEF ServerStep, Next, CoroutineStep
<1>2. CASE \E c \in Clients : Send(c)
  <2>1. PICK c \in Clients : Send(c)
    BY <1>2
  <2>2. backlog[c] \in Seq(Requests) /\ backlog[c] # <<>>
    BY <2>1 DEF ClientTypes, Send
  <2>3. Head(backlog[c]) \in Requests
    BY <2>2
  <2> QED BY <2>1, <2>3 DEF Send, Next
<1>3. CASE \E r \in Requests : Receive(r)
  BY <1>3 DEF Receive, Next, CoroutineStep
<1>4. CASE \E r \in Requests : Answered(r) \/ TimedOut(r) \/ ReplayAborts(r)
  BY <1>4 DEF Answered, TimedOut, ReplayAborts
<1>5. CASE \E r \in Requests : ConnectionClosed(r)
  BY <1>5 DEF ConnectionClosed, Next
<1>6. CASE UNCHANGED allVars
  BY <1>6 DEF allVars
<1> QED BY <1>1, <1>2, <1>3, <1>4, <1>5, <1>6 DEF LoadNext

\* What has ended stays as it is.
Frozen == \A s \in Requests : phase[s] = "FINISHED" => /\ phase'[s] = "FINISHED"
                                                       /\ stream'[s] = stream[s]

\* A report that is right stays right.
LEMMA OldReport ==
    ASSUME LoadInv, Frozen, NEW c \in Clients, NEW i \in 1 .. Len(results[c]),
           results'[c][i] = results[c][i]
    PROVE  Truthful(results[c][i])'
<1>0. EndMark' = EndMark
  BY DEF EndMark, Scheduler!EndMark
<1>1. PICK report : report = results[c][i]
  OBVIOUS
<1>3. report.request \in Requests
  <2> DEFINE R == [request : Requests, failed : BOOLEAN, tokens : Nat]
  <2>1. results[c] \in Seq(R)
    BY DEF LoadInv, ClientTypes
  <2> HIDE DEF R
  <2>2. report \in R
    BY <1>1, <2>1
  <2> QED BY <2>2 DEF R
<1>4. Truthful(report)
  BY <1>1 DEF LoadInv
<1>5. Truthful(report)'
  BY <1>0, <1>3, <1>4 DEF Truthful, Frozen, Texts
<1> QED BY <1>1, <1>5 DEF Truthful

\* A client's count stays right while it is sent nothing and posts no more.
LEMMA OldCount ==
    ASSUME NEW r \in Requests, CountedFor(r),
           counted'[r] = counted[r], received'[r] = received[r],
           Range(backlog'[ClientOf(r)]) \subseteq Range(backlog[ClientOf(r)]),
           inflight'[ClientOf(r)] \subseteq inflight[ClientOf(r)]
    PROVE  CountedFor(r)'
<1>0. EndMark' = EndMark
  BY DEF EndMark, Scheduler!EndMark
<1>1. ClientOf(r)' = ClientOf(r)
  BY DEF ClientOf
<1> QED BY <1>0, <1>1 DEF CountedFor, Texts

\* The accounts of a client stay right while it does nothing.
LEMMA OldAccount ==
    ASSUME NEW c \in Clients, Accounted(c), backlog'[c] = backlog[c], inflight'[c] = inflight[c],
           results'[c] = results[c], driver' = driver, aborted' = aborted
    PROVE  Accounted(c)'
BY DEF Accounted, Replaying, RequestsOf, ClientOf, Account

\* The accounts of a client that has not been aborted.
LEMMA NewAccount ==
    ASSUME NEW c \in Clients, ~(Replaying(c) /\ aborted), driver' = driver, aborted' = aborted,
           Account(RequestsOf(c), backlog'[c], inflight'[c], results'[c])
    PROVE  Accounted(c)'
BY DEF Accounted, Replaying, RequestsOf, ClientOf, Account

\* An output with content is one more to count.
LEMMA TextsAppend ==
    ASSUME NEW r, NEW s \in Seq(Nat), NEW output \in Nat
    PROVE  Cardinality(Texts(r, Append(s, output)))
               = IF HasContent(r, output) THEN Cardinality(Texts(r, s)) + 1
                                          ELSE Cardinality(Texts(r, s))
<1>1. PICK n \in Nat : n = Len(s)
  OBVIOUS
<1>2. PICK t : t = Append(s, output)
  OBVIOUS
<1>3. /\ DOMAIN s = 1 .. n /\ DOMAIN t = 1 .. n + 1 /\ t[n + 1] = output
      /\ \A i \in 1 .. n : t[i] = s[i]
  BY <1>1, <1>2, AppendProperties
<1>4. n + 1 \notin 1 .. n /\ 1 .. n + 1 = (1 .. n) \cup {n + 1}
  OBVIOUS
<1>5. n + 1 \notin Texts(r, s) /\ Texts(r, s) \subseteq 1 .. n
  BY <1>3, <1>4 DEF Texts
<1>6. IsFiniteSet(Texts(r, s))
  <2>1. 1 \in Int /\ n \in Int
    OBVIOUS
  <2>2. IsFiniteSet(1 .. n)
    BY <2>1, FS_Interval
  <2> QED BY <1>5, <2>2, FS_Subset
<1>7. CASE HasContent(r, output)
  <2>1. Texts(r, t) = Texts(r, s) \cup {n + 1}
    BY <1>3, <1>4, <1>7 DEF Texts, HasContent
  <2>2. Cardinality(Texts(r, s) \cup {n + 1}) = Cardinality(Texts(r, s)) + 1
    BY <1>5, <1>6, FS_AddElement
  <2> QED BY <1>2, <1>7, <2>1, <2>2
<1>8. CASE ~HasContent(r, output)
  <2>1. Texts(r, t) = Texts(r, s)
    BY <1>3, <1>4, <1>8 DEF Texts, HasContent
  <2> QED BY <1>2, <1>8, <2>1
<1> QED BY <1>7, <1>8


\* Neither the server alone nor a connection that closes touches an account.
LEMMA ServerStepLoad ==
    ASSUME LoadInv, Frozen, UNCHANGED loadVars, UNCHANGED received
    PROVE  LoadInv'
<1> USE DEF loadVars
<1>1. ClientTypes'
  BY DEF LoadInv, ClientTypes
<1>2. ASSUME NEW c \in Clients PROVE Accounted(c)'
  BY OldAccount DEF LoadInv
<1>3. ASSUME NEW r \in Requests PROVE CountedFor(r)'
  BY OldCount DEF LoadInv
<1>4. ASSUME NEW c \in Clients, NEW i \in 1 .. Len(results'[c]) PROVE Truthful(results[c][i])'
  BY OldReport
<1> QED BY <1>1, <1>2, <1>3, <1>4 DEF LoadInv

\* A worker that posts the next request has counted nothing for it.
LEMMA SendLoad ==
    ASSUME IInv, Ends, LoadInv, Frozen, NEW c \in Clients, Send(c)
    PROVE  LoadInv'
<1> USE DEF LoadInv
<1>0. PICK r : r = Head(backlog[c])
  OBVIOUS
<1>1. PICK v : v = Tail(backlog[c])
  OBVIOUS
<1>2. /\ backlog[c] # <<>> /\ ChatCompletions(r)
      /\ inflight' = [inflight EXCEPT ![c] = @ \cup {r}]
      /\ backlog' = [backlog EXCEPT ![c] = v]
      /\ UNCHANGED <<driver, counted, results, aborted>>
  BY <1>0, <1>1 DEF Send
<1>3. phase[r] = "new" /\ UNCHANGED received
  BY <1>2 DEF ChatCompletions, Scheduler!Submit
<1>4. /\ ~(Replaying(c) /\ aborted)
      /\ Account(RequestsOf(c), backlog[c], inflight[c], results[c])
  BY <1>2 DEF Accounted
<1>5. /\ r \in RequestsOf(c) /\ r \notin inflight[c]
      /\ r \notin Range(v) /\ Range(v) \subseteq Range(backlog[c])
      /\ Account(RequestsOf(c), v, inflight[c] \cup {r}, results[c])
  BY <1>0, <1>1, <1>2, <1>4, RequestsOfFinite, AccountSend
<1>6. r \in Requests /\ ClientOf(r) = c
  BY <1>5 DEF RequestsOf
<1>7. /\ backlog'[c] = v /\ inflight'[c] = inflight[c] \cup {r}
      /\ \A d \in Clients \ {c} : backlog'[d] = backlog[d] /\ inflight'[d] = inflight[d]
  BY <1>2 DEF ClientTypes
<1>8. ClientTypes'
  <2>1. v \in Seq(Requests)
    <3>1. backlog[c] \in Seq(Requests)
      BY DEF ClientTypes
    <3> QED BY <1>1, <1>2, <3>1
  <2> QED BY <1>2, <1>6, <2>1 DEF ClientTypes
<1>9. ASSUME NEW d \in Clients PROVE Accounted(d)'
  <2>1. CASE d = c
    <3>1. Account(RequestsOf(c), backlog'[c], inflight'[c], results'[c])
      BY <1>2, <1>5, <1>7
    <3>2. Accounted(c)'
      BY <1>2, <1>4, <3>1, NewAccount
    <3> QED BY <2>1, <3>2
  <2>2. CASE d # c
    BY <1>2, <1>7, <2>2, OldAccount
  <2> QED BY <2>1, <2>2
<1>10. received[r] = <<>>
  <2>1. stream[r] = <<>>
    BY <1>3, <1>6 DEF Ends, Ended
  <2>2. received[r] \in Seq(Nat) /\ result[r] \in Seq(Nat)
    BY <1>6 DEF IInv, Types
  <2>3. Len(received[r]) + Len(result[r]) <= Len(stream[r])
    BY <1>6 DEF IInv, Sent, SentTo
  <2>4. Len(stream[r]) = 0
    BY <2>1
  <2>5. PICK n \in Nat : n = Len(received[r])
    BY <2>2
  <2>6. PICK m \in Nat : m = Len(result[r])
    BY <2>2
  <2>7. n + m <= 0
    BY <2>3, <2>4, <2>5, <2>6
  <2>8. Len(received[r]) = 0
    BY <2>5, <2>7
  <2> QED BY <2>2, <2>8
<1>11. CountedFor(r)'
  <2>1. r \in Range(backlog[c])
    <3>1. backlog[c] \in Seq(Requests)
      BY DEF ClientTypes
    <3> QED BY <1>0, <1>2, <3>1, TailRange
  <2>2. counted'[r] = 0
    BY <1>2, <1>6, <2>1 DEF CountedFor
  <2>3. Texts(r, received[r])' = {}
    BY <1>3, <1>10 DEF Texts
  <2>4. Cardinality(Texts(r, received[r])') = 0
    BY <2>3, FS_EmptySet
  <2>5. r \notin Range(backlog'[ClientOf(r)])
    BY <1>5, <1>6, <1>7
  <2> QED BY <2>2, <2>4, <2>5 DEF CountedFor, ClientOf
<1>12. ASSUME NEW s \in Requests \ {r} PROVE CountedFor(s)'
  <2>1. CountedFor(s)
    OBVIOUS
  <2>2. /\ counted'[s] = counted[s] /\ received'[s] = received[s]
        /\ Range(backlog'[ClientOf(s)]) \subseteq Range(backlog[ClientOf(s)])
    BY <1>2, <1>3, <1>5, <1>7 DEF ClientOf, Clients
  <2>3. /\ s \in inflight'[ClientOf(s)] => s \in inflight[ClientOf(s)]
        /\ s \in Range(backlog'[ClientOf(s)]) => s \in Range(backlog[ClientOf(s)])
    BY <1>7, <2>2 DEF ClientOf, Clients
  <2>4. EndMark' = EndMark
    BY DEF EndMark, Scheduler!EndMark
  <2> QED BY <2>1, <2>2, <2>3, <2>4 DEF CountedFor, ClientOf, Texts
<1>13. ASSUME NEW d \in Clients, NEW i \in 1 .. Len(results'[d]) PROVE Truthful(results[d][i])'
  BY <1>2, OldReport
<1> QED BY <1>8, <1>9, <1>11, <1>12, <1>13

\* A client counts each output that it is sent, if it has content.
LEMMA ReceiveLoad ==
    ASSUME IInv, LoadInv, Frozen, NEW r \in Requests, Receive(r)
    PROVE  LoadInv'
<1> USE DEF LoadInv
<1>0. EndMark' = EndMark
  BY DEF EndMark, Scheduler!EndMark
<1>1. PICK c \in Clients : c = ClientOf(r)
  BY DEF ClientOf, Clients
<1>2. result[r] \in Seq(Nat) /\ result[r] # <<>> /\ received[r] \in Seq(Nat)
  BY DEF Receive, Deliver, IInv, Types
<1>3. PICK output \in Nat : output = Head(result[r])
  BY <1>2
<1>4. /\ received' = [received EXCEPT ![r] = Append(@, output)]
      /\ counted' = IF r \in inflight[c] /\ HasContent(r, output)
                    THEN [counted EXCEPT ![r] = @ + 1] ELSE counted
      /\ UNCHANGED <<driver, backlog, inflight, results, aborted>>
  BY <1>1, <1>3 DEF Receive, Deliver
<1>5. ClientTypes'
  <2>1. counted[r] \in Nat
    BY DEF ClientTypes
  <2>2. PICK n \in Nat : n = counted[r] + 1
    BY <2>1
  <2>3. counted' = [counted EXCEPT ![r] = n] \/ counted' = counted
    BY <1>4, <2>2
  <2>4. counted' \in [Requests -> Nat]
    BY <2>3 DEF ClientTypes
  <2> QED BY <1>4, <2>4 DEF ClientTypes
<1>6. ASSUME NEW d \in Clients PROVE Accounted(d)'
  BY <1>4, OldAccount
<1>7. ASSUME NEW s \in Requests \ {r} PROVE CountedFor(s)'
  <2>1. counted'[s] = counted[s] /\ received'[s] = received[s]
    BY <1>4 DEF ClientTypes, IInv, Types
  <2> QED BY <1>4, <2>1, OldCount
<1>8. CountedFor(r)'
  <2>1. CountedFor(r) /\ Accounted(c)
    OBVIOUS
  <2>2. received'[r] = Append(received[r], output)
    BY <1>4 DEF IInv, Types
  <2>3. CASE r \in inflight[c]
    <3>1. r \notin Range(backlog[c])
      BY <2>1, <2>3 DEF Accounted, Account
    <3>2. counted[r] = Cardinality(Texts(r, received[r])) /\ counted[r] \in Nat
      BY <1>1, <2>1, <2>3 DEF CountedFor, ClientTypes
    <3>3. counted'[r] = IF HasContent(r, output) THEN counted[r] + 1 ELSE counted[r]
      BY <1>4, <2>3 DEF ClientTypes
    <3>4. counted'[r] = Cardinality(Texts(r, Append(received[r], output)))
      BY <1>2, <3>2, <3>3, TextsAppend
    <3>5. Texts(r, received[r])' = Texts(r, Append(received[r], output))
      BY <1>0, <2>2 DEF Texts
    <3>6. ClientOf(r)' = c
      BY <1>1 DEF ClientOf
    <3> QED BY <1>4, <3>1, <3>4, <3>5, <3>6 DEF CountedFor
  <2>4. CASE r \notin inflight[c]
    <3>1. counted' = counted
      BY <1>4, <2>4
    <3>2. ClientOf(r)' = c
      BY <1>1 DEF ClientOf
    <3> QED BY <1>1, <1>4, <2>1, <2>4, <3>1, <3>2 DEF CountedFor
  <2> QED BY <2>3, <2>4
<1>9. ASSUME NEW d \in Clients, NEW i \in 1 .. Len(results'[d]) PROVE Truthful(results[d][i])'
  BY <1>4, OldReport
<1> QED BY <1>5, <1>6, <1>7, <1>8, <1>9


\* A client that has read to the end mark has counted the whole stream.
LEMMA WholeStreamCounted ==
    ASSUME IInv, Ends, LoadInv, NEW r \in Requests,
           r \in inflight[ClientOf(r)], reader[r] = "closed"
    PROVE  phase[r] = "FINISHED" /\ counted[r] = Cardinality(Texts(r, stream[r]))
<1>1. PICK s \in Seq(Nat) : s = received[r]
  BY DEF IInv, Types
<1>2. PICK t \in Seq(Nat) : t = stream[r]
  BY DEF IInv, Types
<1>3. /\ Len(s) >= 1 /\ s[Len(s)] = EndMark
      /\ \A k \in 1 .. Len(t) : t[k] = EndMark <=> phase[r] = "FINISHED" /\ k = Len(t)
  BY <1>1, <1>2 DEF Ends, Ended
<1>4. \A i \in 1 .. Len(s) : i <= Len(t) /\ s[i] = t[i]
  BY <1>1, <1>2 DEF IInv, Sent, SentTo
<1>5. PICK n \in Nat : n = Len(s)
  OBVIOUS
<1>6. n >= 1 /\ n <= Len(t) /\ t[n] = EndMark
  BY <1>3, <1>4, <1>5
<1>7. n \in 1 .. Len(t)
  BY <1>6
<1>8. phase[r] = "FINISHED" /\ n = Len(t)
  BY <1>3, <1>6, <1>7
<1>9. DOMAIN s = DOMAIN t /\ \A k \in DOMAIN t : s[k] = t[k]
  <2>0. DOMAIN s = 1 .. Len(s) /\ DOMAIN t = 1 .. Len(t)
    OBVIOUS
  <2>1. DOMAIN s = 1 .. n /\ DOMAIN t = 1 .. n
    BY <1>5, <1>8, <2>0
  <2>2. \A k \in 1 .. n : s[k] = t[k]
    BY <1>4, <1>5
  <2> QED BY <2>1, <2>2
<1>10. Texts(r, s) = Texts(r, t)
  BY <1>9 DEF Texts
<1>11. counted[r] = Cardinality(Texts(r, received[r]))
  BY DEF LoadInv, CountedFor
<1> QED BY <1>1, <1>2, <1>8, <1>10, <1>11

\* A report frees the worker or the permit; one without an error is right.
LEMMA ReportLoad ==
    ASSUME LoadInv, Frozen, NEW r \in Requests, NEW failed \in BOOLEAN,
           r \in inflight[ClientOf(r)], Report(r, failed),
           ~failed => phase[r] = "FINISHED" /\ counted[r] = Cardinality(Texts(r, stream[r])),
           UNCHANGED <<vars, driver, concurrency, backlog, counted, aborted>>
    PROVE  LoadInv'
<1> USE DEF LoadInv
<1>0. EndMark' = EndMark
  BY DEF EndMark, Scheduler!EndMark
<1>1. PICK c \in Clients : c = ClientOf(r)
  BY DEF ClientOf, Clients
<1>2. PICK n \in Nat : n = counted[r]
  BY DEF ClientTypes
<1>3. PICK report : report = [request |-> r, failed |-> failed, tokens |-> n]
  OBVIOUS
<1>4. /\ results' = [results EXCEPT ![c] = Append(@, report)]
      /\ inflight' = [inflight EXCEPT ![c] = @ \ {r}]
      /\ UNCHANGED <<driver, backlog, counted, aborted, phase, stream, received>>
  BY <1>1, <1>2, <1>3 DEF Report, vars, schedulerVars, deliveryVars
<1>5. /\ results'[c] = Append(results[c], report) /\ inflight'[c] = inflight[c] \ {r}
      /\ \A d \in Clients \ {c} : results'[d] = results[d] /\ inflight'[d] = inflight[d]
  BY <1>4 DEF ClientTypes
<1>6. ClientTypes'
  <2> DEFINE R == [request : Requests, failed : BOOLEAN, tokens : Nat]
  <2>1. report \in R
    BY <1>3
  <2>2. results \in [Clients -> Seq(R)]
    BY DEF ClientTypes
  <2> HIDE DEF R
  <2>3. results' \in [Clients -> Seq(R)]
    BY <1>4, <2>1, <2>2
  <2>4. inflight' \in [Clients -> SUBSET Requests]
    BY <1>4 DEF ClientTypes
  <2> QED BY <1>4, <2>3, <2>4 DEF ClientTypes, R
<1>7. ASSUME NEW d \in Clients PROVE Accounted(d)'
  <2>1. CASE d = c
    <3>1. /\ ~(Replaying(c) /\ aborted)
          /\ Account(RequestsOf(c), backlog[c], inflight[c], results[c])
      BY <1>1 DEF Accounted
    <3>2. Account(RequestsOf(c), backlog[c], inflight[c] \ {r}, Append(results[c], report))
      <4>1. r \in inflight[c] /\ IsFiniteSet(RequestsOf(c))
        BY <1>1, RequestsOfFinite
      <4> QED BY <1>3, <3>1, <4>1, AccountReport
    <3>3. Account(RequestsOf(c), backlog'[c], inflight'[c], results'[c])
      BY <1>4, <1>5, <3>2
    <3>4. Accounted(c)'
      BY <1>4, <3>1, <3>3, NewAccount
    <3> QED BY <2>1, <3>4
  <2>2. CASE d # c
    BY <1>4, <1>5, <2>2, OldAccount
  <2> QED BY <2>1, <2>2
<1>8. ASSUME NEW s \in Requests PROVE CountedFor(s)'
  <2>1. inflight'[ClientOf(s)] \subseteq inflight[ClientOf(s)]
    BY <1>5 DEF ClientOf, Clients
  <2> QED BY <1>4, <2>1, OldCount
<1>9. ASSUME NEW d \in Clients, NEW i \in 1 .. Len(results'[d]) PROVE Truthful(results[d][i])'
  <2>1. PICK m \in Nat : m = Len(results[d])
    BY DEF ClientTypes
  <2>2. CASE d = c
    <3>1. /\ Len(Append(results[d], report)) = m + 1
          /\ Append(results[d], report)[m + 1] = report
          /\ \A k \in 1 .. m : Append(results[d], report)[k] = results[d][k]
      <4>1. results[d] \in Seq([request : Requests, failed : BOOLEAN, tokens : Nat])
        BY DEF ClientTypes
      <4>2. report \in [request : Requests, failed : BOOLEAN, tokens : Nat]
        BY <1>3
      <4> QED BY <2>1, <4>1, <4>2, AppendProperties
    <3>2. results'[d] = Append(results[d], report)
      BY <1>5, <2>2
    <3>3. i \in 1 .. m \/ i = m + 1
      BY <3>1, <3>2
    <3>4. CASE i \in 1 .. m
      <4>1. results'[d][i] = results[d][i]
        BY <3>1, <3>2, <3>4
      <4> QED BY <2>1, <3>4, <4>1, OldReport
    <3>5. CASE i = m + 1
      <4>1. results'[d][i] = report
        BY <3>1, <3>2, <3>5
      <4>2. report.request = r /\ report.failed = failed /\ report.tokens = n
        BY <1>3
      <4>3. ~failed => phase'[r] = "FINISHED" /\ n = Cardinality(Texts(r, stream[r])')
        BY <1>0, <1>2, <1>4 DEF Texts
      <4> QED BY <4>1, <4>2, <4>3 DEF Truthful
    <3> QED BY <3>3, <3>4, <3>5
  <2>3. CASE d # c
    <3>1. results'[d] = results[d]
      BY <1>5, <2>3
    <3> QED BY <3>1, OldReport
  <2> QED BY <2>2, <2>3
<1> QED BY <1>6, <1>7, <1>8, <1>9

\* A replay that is aborted accounts for nothing any more.
LEMMA AbortLoad ==
    ASSUME LoadInv, Frozen, NEW r \in Requests, ReplayAborts(r)
    PROVE  LoadInv'
<1> USE DEF LoadInv
<1>1. /\ driver = "replay" /\ aborted' = TRUE /\ driver' = driver
      /\ inflight' = [inflight EXCEPT !["load"] = {}]
      /\ backlog' = [backlog EXCEPT !["load"] = <<>>]
      /\ results' = [results EXCEPT !["load"] = <<>>]
      /\ UNCHANGED <<counted, received>>
  BY DEF ReplayAborts, Replaying, vars, deliveryVars
<1>2. /\ backlog'["load"] = <<>> /\ inflight'["load"] = {} /\ results'["load"] = <<>>
      /\ backlog'["eval"] = backlog["eval"] /\ inflight'["eval"] = inflight["eval"]
      /\ results'["eval"] = results["eval"]
  BY <1>1 DEF ClientTypes, Clients
<1>3. ClientTypes'
  <2> DEFINE R == [request : Requests, failed : BOOLEAN, tokens : Nat]
  <2>1. results \in [Clients -> Seq(R)]
    BY DEF ClientTypes
  <2> HIDE DEF R
  <2>2. <<>> \in Seq(R) /\ <<>> \in Seq(Requests)
    OBVIOUS
  <2>3. results' \in [Clients -> Seq(R)]
    BY <1>1, <2>1, <2>2
  <2>4. inflight' \in [Clients -> SUBSET Requests] /\ backlog' \in [Clients -> Seq(Requests)]
    BY <1>1, <2>2 DEF ClientTypes
  <2> QED BY <1>1, <2>3, <2>4 DEF ClientTypes, R
<1>4. Accounted("load")'
  BY <1>1, <1>2 DEF Accounted, Replaying
<1>5. Accounted("eval")'
  <2>1. Account(RequestsOf("eval"), backlog["eval"], inflight["eval"], results["eval"])
    BY DEF Accounted, Replaying, Clients
  <2>2. Account(RequestsOf("eval"), backlog'["eval"], inflight'["eval"], results'["eval"])
    BY <1>2, <2>1
  <2> QED BY <2>2 DEF Accounted, Replaying, RequestsOf, ClientOf, Account
<1>6. ASSUME NEW s \in Requests PROVE CountedFor(s)'
  <2>1. /\ Range(backlog'[ClientOf(s)]) \subseteq Range(backlog[ClientOf(s)])
        /\ inflight'[ClientOf(s)] \subseteq inflight[ClientOf(s)]
    BY <1>2, RangeEmpty DEF ClientOf
  <2> QED BY <1>1, <2>1, OldCount
<1>7. ASSUME NEW d \in Clients, NEW i \in 1 .. Len(results'[d]) PROVE Truthful(results[d][i])'
  <2>1. d = "eval"
    <3>1. Len(<<>>) = 0
      OBVIOUS
    <3> QED BY <1>2, <3>1 DEF Clients
  <2>2. results'[d] = results[d]
    BY <1>2, <2>1
  <2> QED BY <2>2, OldReport
<1>8. \A c \in Clients : Accounted(c)'
  BY <1>4, <1>5 DEF Clients
<1> QED BY <1>3, <1>6, <1>7, <1>8


\* Every step of the server and its clients keeps the whole invariant.
LEMMA LoadStepInv ==
    ASSUME IInv, Ends, LoadInv, [LoadNext]_allVars
    PROVE  IInv' /\ Ends' /\ LoadInv'
<1>1. [Next]_vars
  BY LoadStepIsServerStep DEF LoadInv
<1>2. IInv'
  BY <1>1, StepPreserves
<1>3. Ends' /\ Frozen
  BY <1>1, <1>2, StepEnds DEF Frozen
<1>4. LoadInv'
  <2>1. CASE ServerStep
    <3>1. UNCHANGED loadVars /\ UNCHANGED received
      BY <2>1 DEF ServerStep, SchedulerStep, Strand, RequestNext, ThreadStep, TakeJob, Get,
                  deliveryVars
    <3> QED BY <1>3, <3>1, ServerStepLoad
  <2>2. CASE \E c \in Clients : Send(c)
    BY <1>3, <2>2, SendLoad
  <2>3. CASE \E r \in Requests : Receive(r)
    BY <1>3, <2>3, ReceiveLoad
  <2>4. ASSUME NEW r \in Requests, Answered(r) PROVE LoadInv'
    <3>1. /\ r \in inflight[ClientOf(r)] /\ reader[r] = "closed" /\ Report(r, FALSE)
          /\ UNCHANGED <<vars, driver, concurrency, backlog, counted, aborted>>
      BY <2>4 DEF Answered
    <3>2. phase[r] = "FINISHED" /\ counted[r] = Cardinality(Texts(r, stream[r]))
      BY <3>1, WholeStreamCounted
    <3> QED BY <1>3, <3>1, <3>2, ReportLoad
  <2>5. ASSUME NEW r \in Requests, TimedOut(r) PROVE LoadInv'
    <3>1. /\ r \in inflight[ClientOf(r)] /\ Report(r, TRUE)
          /\ UNCHANGED <<vars, driver, concurrency, backlog, counted, aborted>>
      BY <2>5 DEF TimedOut
    <3> QED BY <1>3, <3>1, ReportLoad
  <2>6. CASE \E r \in Requests : ReplayAborts(r)
    BY <1>3, <2>6, AbortLoad
  <2>7. ASSUME NEW r \in Requests, ConnectionClosed(r) PROVE LoadInv'
    <3>1. UNCHANGED loadVars /\ UNCHANGED received
      BY <2>7 DEF ConnectionClosed, Disconnect
    <3> QED BY <1>3, <3>1, ServerStepLoad
  <2>8. CASE UNCHANGED allVars
    <3>1. UNCHANGED loadVars /\ UNCHANGED received
      BY <2>8 DEF allVars, vars, deliveryVars
    <3> QED BY <1>3, <3>1, ServerStepLoad
  <2> QED BY <2>1, <2>2, <2>3, <2>4, <2>5, <2>6, <2>7, <2>8 DEF LoadNext
<1> QED BY <1>2, <1>3, <1>4

\* The server, its readers and the load generators together.
THEOREM LoadInvariance == LoadSpec => [](IInv /\ Ends /\ LoadInv)
<1>1. LoadInit => IInv /\ Ends /\ LoadInv
  BY LoadInitInv, InitInv, InitEnds
<1>2. IInv /\ Ends /\ LoadInv /\ [LoadNext]_allVars => (IInv /\ Ends /\ LoadInv)'
  BY LoadStepInv
<1> QED BY <1>1, <1>2, PTL DEF LoadSpec

\* With its load generators the server behaves as it does with any clients, so that
\* whatever is proved of TokenDelivery holds of it (bench_serving.py, server.py).
THEOREM LoadIsDelivery == LoadSpec => Spec
<1>1. LoadInit => Init
  BY LoadInitInv
<1>2. LoadInv /\ [LoadNext]_allVars => [Next]_vars
  BY LoadStepIsServerStep DEF LoadInv
<1> QED BY <1>1, <1>2, LoadInvariance, PTL DEF LoadSpec, Spec

\* The accounts, put as EachReportedOnce puts them.
LEMMA ReportedOnce == LoadInv => EachReportedOnce
<1> SUFFICES ASSUME LoadInv, NEW c \in Clients
             PROVE  /\ Len(backlog[c]) + Cardinality(inflight[c]) + Len(results[c])
                         = IF Replaying(c) /\ aborted THEN 0 ELSE Cardinality(RequestsOf(c))
                    /\ ~(Replaying(c) /\ aborted)
                         => ToSet(backlog[c]) \cup inflight[c] \cup Reported(c) = RequestsOf(c)
  BY DEF EachReportedOnce
<1>1. Accounted(c)
  BY DEF LoadInv
<1>2. CASE Replaying(c) /\ aborted
  <2>1. backlog[c] = <<>> /\ inflight[c] = {} /\ results[c] = <<>>
    BY <1>1, <1>2 DEF Accounted
  <2>2. Len(<<>>) = 0 /\ Cardinality({}) = 0
    BY FS_EmptySet
  <2> QED BY <1>2, <2>1, <2>2
<1>3. CASE ~(Replaying(c) /\ aborted)
  BY <1>1, <1>3 DEF Accounted, Account, Reported, ToSet, Range
<1> QED BY <1>2, <1>3

\* The reports, put as CountsWhatWasStreamed puts them.
LEMMA CountedRight == Types /\ Ends /\ LoadInv => CountsWhatWasStreamed
<1> SUFFICES ASSUME Types, Ends, LoadInv, NEW c \in Clients, NEW i \in DOMAIN results[c],
                    ~results[c][i].failed
             PROVE  LET r == results[c][i].request
                        texts == {k \in DOMAIN stream[r] :
                                     stream[r][k] # EndMark /\ r \notin Silent}
                    IN  /\ EndMark \in ToSet(stream[r])
                        /\ results[c][i].tokens = Cardinality(texts)
  BY DEF CountsWhatWasStreamed
<1> DEFINE R == [request : Requests, failed : BOOLEAN, tokens : Nat]
<1>1. results[c] \in Seq(R)
  BY DEF LoadInv, ClientTypes
<1> HIDE DEF R
<1>2. DOMAIN results[c] = 1 .. Len(results[c]) /\ results[c][i] \in R
  BY <1>1
<1>3. PICK report \in R : report = results[c][i]
  BY <1>2
<1>4. PICK r \in Requests : r = report.request
  BY DEF R
<1>5. phase[r] = "FINISHED" /\ report.tokens = Cardinality(Texts(r, stream[r]))
  BY <1>2, <1>3, <1>4 DEF LoadInv, Truthful
<1>6. PICK s \in Seq(Nat) : s = stream[r]
  BY DEF Types
<1>7. Len(s) >= 1 /\ \A k \in 1 .. Len(s) : s[k] = EndMark <=> k = Len(s)
  BY <1>5, <1>6 DEF Ends, Ended
<1>8. Len(s) \in 1 .. Len(s) /\ DOMAIN s = 1 .. Len(s)
  BY <1>7
<1>9. EndMark \in ToSet(s)
  BY <1>7, <1>8 DEF ToSet
<1> QED BY <1>3, <1>4, <1>5, <1>6, <1>9 DEF Texts

\* Every request is reported once, waits or is in flight (bench_serving.py, worker;
\* bench_accuracy.py; mooncake_trace_replay.py, gather).
THEOREM ReportsAddUp == LoadSpec => []EachReportedOnce
BY LoadInvariance, ReportedOnce, PTL

\* A report without an error counts the outputs with content of the whole stream, and
\* no late ones (bench_serving.py, num_output_tokens; mooncake_trace_replay.py).
THEOREM CountsAreTrue == LoadSpec => []CountsWhatWasStreamed
<1>1. IInv => Types
  BY DEF IInv
<1> QED BY <1>1, LoadInvariance, CountedRight, PTL

=============================================================================
