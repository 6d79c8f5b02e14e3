------------------------ MODULE BatchedSchedulerProofs ------------------------
(***************************************************************************)
(* The scheduler in modes "batched" and "baseline", for every number of    *)
(* requests, every max_running and every pattern of engine failures.       *)
(*                                                                         *)
(* The inductive invariant rests on one picture: arrivals is the requests  *)
(* taken so far, then to_prefill, then the waiting queue, in that order    *)
(* (Queues).  A request that was taken is being decoded or is finished,    *)
(* unless an engine call raised; one that was not has no token yet, except *)
(* the one whose prefill is being answered.                                *)
(*                                                                         *)
(* The caches need a hypothesis on the engine, FailingAfter = {0}: a       *)
(* batched decode that raises does so before it replaces any cache.  The   *)
(* run BatchedExtraction shows what happens without it.                    *)
(***************************************************************************)
EXTENDS BatchedScheduler, SequenceLemmas, FiniteSetTheorems

\* TypeOK without the bounds on outputs and caches.
Types ==
    /\ mode \in Modes
    /\ asked \in [Requests -> [prompt : PromptLens, maxNew : MaxNews]]
    /\ status \in [Requests -> {"WAITING", "RUNNING", "FINISHED"}]
    /\ numOutput \in [Requests -> Nat]
    /\ stream \in [Requests -> Seq(Nat)]
    /\ waiting \in Seq(Requests) /\ running \in Seq(Requests)
    /\ toPrefill \in Seq(Requests) /\ batch \in Seq(Requests)
    /\ stillRunning \in Seq(Requests)
    /\ arrivals \in Seq(Requests)
    /\ runningFlag \in BOOLEAN
    /\ totalFinished \in Nat /\ failures \in Nat
    /\ pc \in {"unstarted", "loop", "prefill", "prefilled", "decode", "emitDecode",
               "decodeAlone", "stopped"}

\* Which of the locals of a step are in use where.
Control ==
    /\ pc \in {"unstarted", "loop", "decode", "emitDecode", "stopped"} => toPrefill = <<>>
    /\ pc \in {"prefilled", "decodeAlone"} => toPrefill # <<>>
    /\ pc # "emitDecode" => batch = <<>> /\ stillRunning = <<>>
    /\ mode = "baseline" => /\ running = <<>> /\ Len(toPrefill) <= 1
                            /\ pc \notin {"decode", "emitDecode"}
    /\ mode = "batched" => pc # "decodeAlone"

\* to_prefill and the queue are the end of arrivals.
Queues ==
    /\ IsInjective(arrivals)
    /\ Len(toPrefill) + Len(waiting) <= Len(arrivals)
    /\ \A i \in 1 .. Len(waiting) :
          waiting[i] = arrivals[Len(arrivals) - Len(waiting) + i]
    /\ \A i \in 1 .. Len(toPrefill) :
          toPrefill[i] = arrivals[Len(arrivals) - Len(waiting) - Len(toPrefill) + i]

\* The requests that have left both.
Taken == Range(arrivals) \ (Range(waiting) \cup Range(toPrefill))

\* The requests that the decoding goes on with.
InBatch == IF pc = "emitDecode" THEN Range(batch) \cup Range(stillRunning)
                                 ELSE Range(running)

Descending(s) == \A i, j \in 1 .. Len(s) : i < j => numOutput[s[i]] >= numOutput[s[j]]

\* The batch is a list of requests, the ones with more tokens first; during the zip
\* those that have their token of this step are ahead of those that have not.
Rows ==
    /\ IsInjective(running) /\ IsInjective(batch) /\ IsInjective(stillRunning)
    /\ Range(batch) \cap Range(stillRunning) = {}
    /\ Len(running) + Len(toPrefill) <= MaxRunning
    /\ Len(batch) + Len(stillRunning) <= Len(running)
    /\ pc # "emitDecode" => Descending(running)
    /\ Descending(batch) /\ Descending(stillRunning)
    /\ \A r \in Range(stillRunning), s \in Range(batch) : numOutput[r] > numOutput[s]

\* The request whose prefill, or whose decoding alone, is under way.
Begun(r) == pc \in {"prefilled", "decodeAlone"} /\ r = Head(toPrefill)

Members ==
    /\ \A r \in Range(waiting) : status[r] = "WAITING"
    /\ \A r \in Range(toPrefill) : status[r] = IF Begun(r) THEN "RUNNING" ELSE "WAITING"
    /\ pc = "prefilled" /\ mode = "batched" => numOutput[Head(toPrefill)] = 0
    /\ InBatch \subseteq Taken
    /\ \A r \in InBatch : status[r] = "RUNNING" /\ numOutput[r] >= 1

\* What a request's status says of its outputs and of its stream.
Book(r) ==
    /\ r \notin Range(arrivals) => status[r] = "WAITING"
    /\ status[r] = "WAITING" => numOutput[r] = 0
    /\ numOutput[r] <= asked[r].maxNew
    /\ status[r] # "FINISHED" => /\ Len(stream[r]) = numOutput[r]
                                 /\ numOutput[r] < asked[r].maxNew
    /\ status[r] = "FINISHED" => stream[r] # <<>>

Books == \A r \in Requests : Book(r)

NobodyDropped ==
    failures = 0 =>
        \A r \in Taken : stream[r] # <<>> /\ (status[r] = "FINISHED" \/ r \in InBatch)

IInv == Types /\ Control /\ Queues /\ Rows /\ Members /\ Books /\ NobodyDropped

----------------------------------------------------------------------------
\* The queues.

\* Nobody is in the queues twice, and everybody in them was added.
LEMMA QueueFacts ==
    ASSUME Types, Queues
    PROVE  /\ IsInjective(waiting) /\ IsInjective(toPrefill)
           /\ Range(waiting) \cap Range(toPrefill) = {}
           /\ Range(waiting) \subseteq Range(arrivals)
           /\ Range(toPrefill) \subseteq Range(arrivals)
           /\ Range(arrivals) \subseteq Requests
<1>1. /\ waiting \in Seq(Requests) /\ toPrefill \in Seq(Requests)
      /\ arrivals \in Seq(Requests)
  BY DEF Types
<1>2. PICK a \in Nat, w \in Nat, t \in Nat :
          a = Len(arrivals) /\ w = Len(waiting) /\ t = Len(toPrefill)
  BY <1>1, RangeType
<1>3. /\ DOMAIN arrivals = 1 .. a /\ DOMAIN waiting = 1 .. w /\ DOMAIN toPrefill = 1 .. t
      /\ t + w <= a
      /\ \A i \in 1 .. w : waiting[i] = arrivals[a - w + i]
      /\ \A i \in 1 .. t : toPrefill[i] = arrivals[a - w - t + i]
      /\ \A i, j \in 1 .. a : arrivals[i] = arrivals[j] => i = j
  <2>1. DOMAIN arrivals = 1 .. a /\ DOMAIN waiting = 1 .. w /\ DOMAIN toPrefill = 1 .. t
    BY <1>1, <1>2
  <2>2. /\ t + w <= a
        /\ \A i \in 1 .. w : waiting[i] = arrivals[a - w + i]
        /\ \A i \in 1 .. t : toPrefill[i] = arrivals[a - w - t + i]
    BY <1>2 DEF Queues
  <2>3. \A i, j \in 1 .. a : arrivals[i] = arrivals[j] => i = j
    BY <2>1 DEF Queues, IsInjective
  <2> QED BY <2>1, <2>2, <2>3
<1>4. \A i \in 1 .. w : a - w + i \in 1 .. a
  BY <1>3
<1>5. \A i \in 1 .. t : a - w - t + i \in 1 .. a
  BY <1>3
<1>6. IsInjective(waiting)
  <2> SUFFICES ASSUME NEW i \in 1 .. w, NEW j \in 1 .. w, waiting[i] = waiting[j]
               PROVE  i = j
    BY <1>3 DEF IsInjective
  <2>1. a - w + i = a - w + j
    BY <1>3, <1>4
  <2> QED BY <2>1
<1>7. IsInjective(toPrefill)
  <2> SUFFICES ASSUME NEW i \in 1 .. t, NEW j \in 1 .. t, toPrefill[i] = toPrefill[j]
               PROVE  i = j
    BY <1>3 DEF IsInjective
  <2>1. a - w - t + i = a - w - t + j
    BY <1>3, <1>5
  <2> QED BY <2>1
<1>8. ASSUME NEW i \in 1 .. w, NEW j \in 1 .. t PROVE waiting[i] # toPrefill[j]
  <2>1. a - w + i # a - w - t + j
    OBVIOUS
  <2> QED BY <2>1, <1>3, <1>4, <1>5
<1>9. Range(waiting) \cap Range(toPrefill) = {}
  BY <1>3, <1>8 DEF Range
<1>10. Range(waiting) \subseteq Range(arrivals)
  <2>1. \A i \in 1 .. w : waiting[i] \in Range(arrivals)
    <3>1. \A i \in 1 .. a : arrivals[i] \in Range(arrivals)
      BY <1>3 DEF Range
    <3> QED BY <3>1, <1>3, <1>4
  <2> QED BY <2>1, <1>3 DEF Range
<1>11. Range(toPrefill) \subseteq Range(arrivals)
  <2>1. \A i \in 1 .. t : toPrefill[i] \in Range(arrivals)
    <3>1. \A i \in 1 .. a : arrivals[i] \in Range(arrivals)
      BY <1>3 DEF Range
    <3> QED BY <3>1, <1>3, <1>5
  <2> QED BY <2>1, <1>3 DEF Range
<1> QED BY <1>1, <1>6, <1>7, <1>9, <1>10, <1>11, RangeType

\* add_request: the new request is last in both lists.
LEMMA QueuesAdd ==
    ASSUME Types, Queues, NEW r \in Requests, AddRequest(r)
    PROVE  /\ arrivals' \in Seq(Requests) /\ waiting' \in Seq(Requests)
           /\ Queues'
           /\ Range(waiting') = Range(waiting) \cup {r}
           /\ Range(arrivals') = Range(arrivals) \cup {r}
           /\ Taken' = Taken
<1>1. /\ r \notin Range(arrivals) /\ toPrefill' = toPrefill
      /\ waiting' = Append(waiting, r) /\ arrivals' = Append(arrivals, r)
  BY DEF AddRequest, localVars
<1>2. /\ waiting \in Seq(Requests) /\ toPrefill \in Seq(Requests)
      /\ arrivals \in Seq(Requests) /\ IsInjective(arrivals)
  BY DEF Types, Queues
<1>3. /\ waiting' \in Seq(Requests) /\ Len(waiting') = Len(waiting) + 1
      /\ Range(waiting') = Range(waiting) \cup {r}
  BY <1>1, <1>2, AppendRange
<1>4. /\ arrivals' \in Seq(Requests) /\ Len(arrivals') = Len(arrivals) + 1
      /\ Range(arrivals') = Range(arrivals) \cup {r} /\ IsInjective(arrivals')
  BY <1>1, <1>2, AppendRange
<1>5. PICK a \in Nat, w \in Nat, t \in Nat :
          a = Len(arrivals) /\ w = Len(waiting) /\ t = Len(toPrefill)
  BY <1>2, RangeType
<1>6. /\ \A i \in 1 .. w : waiting'[i] = waiting[i]
      /\ waiting'[w + 1] = r
      /\ \A i \in 1 .. a : arrivals'[i] = arrivals[i]
      /\ arrivals'[a + 1] = r
  BY <1>1, <1>2, <1>5, AppendProperties
<1>7. /\ t + w <= a
      /\ \A i \in 1 .. w : waiting[i] = arrivals[a - w + i]
      /\ \A i \in 1 .. t : toPrefill[i] = arrivals[a - w - t + i]
  BY <1>5 DEF Queues
<1>8. ASSUME NEW i \in 1 .. w + 1 PROVE waiting'[i] = arrivals'[(a + 1) - (w + 1) + i]
  <2>1. CASE i = w + 1
    <3>1. (a + 1) - (w + 1) + i = a + 1
      BY <2>1
    <3> QED BY <2>1, <3>1, <1>6
  <2>2. CASE i # w + 1
    <3>1. i \in 1 .. w /\ (a + 1) - (w + 1) + i = a - w + i /\ a - w + i \in 1 .. a
      BY <2>2, <1>7
    <3> QED BY <3>1, <1>6, <1>7
  <2> QED BY <2>1, <2>2
<1>9. ASSUME NEW i \in 1 .. t PROVE toPrefill[i] = arrivals'[(a + 1) - (w + 1) - t + i]
  <2>1. (a + 1) - (w + 1) - t + i = a - w - t + i /\ a - w - t + i \in 1 .. a
    BY <1>7
  <2> QED BY <2>1, <1>6, <1>7
<1>10. t + (w + 1) <= a + 1
  BY <1>7
<1>11. Queues'
  <2>1. /\ Len(arrivals') = a + 1 /\ Len(waiting') = w + 1
        /\ toPrefill' = toPrefill /\ Len(toPrefill) = t
    BY <1>1, <1>3, <1>4, <1>5
  <2>2. IsInjective(arrivals')
    BY <1>2, <1>4
  <2> QED BY <1>8, <1>9, <1>10, <2>1, <2>2 DEF Queues
<1>12. Taken' = Taken
  BY <1>1, <1>3, <1>4, QueueFacts DEF Taken
<1> QED BY <1>3, <1>4, <1>11, <1>12

\* Admission: the first n of the queue become to_prefill.
LEMMA QueuesAdmit ==
    ASSUME Types, Queues, toPrefill = <<>>, NEW n \in Nat, n <= Len(waiting), Admit(n),
           arrivals' = arrivals
    PROVE  /\ toPrefill' \in Seq(Requests) /\ waiting' \in Seq(Requests)
           /\ Len(toPrefill') = n
           /\ Queues'
           /\ Range(waiting') \cup Range(toPrefill') = Range(waiting)
           /\ Taken' = Taken
<1>1. /\ toPrefill' = SubSeq(waiting, 1, n)
      /\ waiting' = SubSeq(waiting, n + 1, Len(waiting))
  BY DEF Admit
<1>2. /\ waiting \in Seq(Requests) /\ arrivals \in Seq(Requests)
  BY DEF Types
<1>3. /\ toPrefill' \in Seq(Requests) /\ waiting' \in Seq(Requests)
      /\ Len(toPrefill') = n /\ Len(waiting') = Len(waiting) - n
      /\ Range(toPrefill') \cup Range(waiting') = Range(waiting)
  BY <1>1, <1>2, SplitRange
<1>4. PICK a \in Nat, w \in Nat : a = Len(arrivals) /\ w = Len(waiting)
  BY <1>2, RangeType
<1>5. /\ w <= a /\ n <= w
      /\ \A i \in 1 .. w : waiting[i] = arrivals[a - w + i]
  BY <1>2, <1>4, EmptySeq DEF Queues
<1>6. \A i \in 1 .. n : toPrefill'[i] = waiting[i]
  BY <1>1, <1>2, SubSeqProperties
<1>7. \A i \in 1 .. w - n : waiting'[i] = waiting[n + i]
  <2>1. \A i \in n + 1 .. w : waiting[i] \in Requests
    BY <1>2, <1>4
  <2>2. \A i \in 1 .. w - (n + 1) + 1 : waiting'[i] = waiting[(n + 1) + i - 1]
    BY <1>1, <1>2, <1>4, <2>1, SubSeqProperties
  <2>3. \A i \in 1 .. w - n : i \in 1 .. w - (n + 1) + 1 /\ (n + 1) + i - 1 = n + i
    OBVIOUS
  <2> QED BY <2>2, <2>3
<1>8. ASSUME NEW i \in 1 .. w - n PROVE waiting'[i] = arrivals[a - (w - n) + i]
  <2>1. n + i \in 1 .. w /\ a - w + (n + i) = a - (w - n) + i
    BY <1>5
  <2> QED BY <2>1, <1>5, <1>7
<1>9. ASSUME NEW i \in 1 .. n PROVE toPrefill'[i] = arrivals[a - (w - n) - n + i]
  <2>1. i \in 1 .. w /\ a - w + i = a - (w - n) - n + i
    BY <1>5
  <2> QED BY <2>1, <1>5, <1>6
<1>10. n + (w - n) <= a
  BY <1>5
<1>11. Queues'
  BY <1>3, <1>4, <1>8, <1>9, <1>10 DEF Queues
<1>12. Taken' = Taken
  BY <1>3, RangeEmpty DEF Taken
<1> QED BY <1>3, <1>11, <1>12

\* The head of to_prefill is done with.
LEMMA QueuesNext ==
    ASSUME Types, Queues, toPrefill # <<>>, toPrefill' = Tail(toPrefill),
           UNCHANGED <<waiting, arrivals>>
    PROVE  /\ toPrefill' \in Seq(Requests)
           /\ Len(toPrefill') = Len(toPrefill) - 1
           /\ Queues'
           /\ Head(toPrefill) \in Range(toPrefill) /\ Head(toPrefill) \notin Taken
           /\ Range(toPrefill') = Range(toPrefill) \ {Head(toPrefill)}
           /\ Taken' = Taken \cup {Head(toPrefill)}
<1>1. toPrefill \in Seq(Requests) /\ waiting \in Seq(Requests) /\ arrivals \in Seq(Requests)
  BY DEF Types
<1>2. PICK a \in Nat, w \in Nat, t \in Nat :
          a = Len(arrivals) /\ w = Len(waiting) /\ t = Len(toPrefill)
  BY <1>1, RangeType
<1>3. /\ toPrefill' \in Seq(Requests) /\ Len(toPrefill') = t - 1 /\ t >= 1
      /\ \A i \in 1 .. t - 1 : toPrefill'[i] = toPrefill[i + 1]
  BY <1>1, <1>2, HeadTailProperties
<1>4. /\ t + w <= a
      /\ \A i \in 1 .. w : waiting[i] = arrivals[a - w + i]
      /\ \A i \in 1 .. t : toPrefill[i] = arrivals[a - w - t + i]
      /\ IsInjective(arrivals)
  BY <1>2 DEF Queues
<1>5. ASSUME NEW i \in 1 .. t - 1 PROVE toPrefill'[i] = arrivals[a - w - (t - 1) + i]
  <2>1. i + 1 \in 1 .. t /\ a - w - t + (i + 1) = a - w - (t - 1) + i
    OBVIOUS
  <2> QED BY <2>1, <1>3, <1>4
<1>6. (t - 1) + w <= a
  BY <1>4
<1>7. Queues'
  BY <1>2, <1>3, <1>4, <1>5, <1>6 DEF Queues
<1>8. /\ IsInjective(toPrefill)
      /\ Range(waiting) \cap Range(toPrefill) = {}
      /\ Range(toPrefill) \subseteq Range(arrivals)
  BY QueueFacts
<1>9. /\ Head(toPrefill) \in Range(toPrefill)
      /\ Range(toPrefill') = Range(toPrefill) \ {Head(toPrefill)}
  BY <1>1, <1>8, TailRange
<1>10. Taken' = Taken \cup {Head(toPrefill)}
  BY <1>8, <1>9 DEF Taken
<1> QED BY <1>2, <1>3, <1>7, <1>9, <1>10 DEF Taken

\* An engine call raises: to_prefill is gone.
LEMMA QueuesDrop ==
    ASSUME Types, Queues, toPrefill' = <<>>, UNCHANGED <<waiting, arrivals>>
    PROVE  /\ toPrefill' \in Seq(Requests) /\ Len(toPrefill') = 0 /\ Range(toPrefill') = {}
           /\ Queues'
           /\ Taken' = Taken \cup Range(toPrefill)
<1>1. toPrefill \in Seq(Requests) /\ waiting \in Seq(Requests) /\ arrivals \in Seq(Requests)
  BY DEF Types
<1>2. PICK a \in Nat, w \in Nat, t \in Nat :
          a = Len(arrivals) /\ w = Len(waiting) /\ t = Len(toPrefill)
  BY <1>1, RangeType
<1>3. <<>> \in Seq(Requests) /\ Len(<<>>) = 0 /\ Range(<<>>) = {}
  BY RangeEmpty
<1>4. 0 + w <= a
  BY <1>2 DEF Queues
<1>5. Queues'
  BY <1>2, <1>3, <1>4 DEF Queues
<1>6. Taken' = Taken \cup Range(toPrefill)
  BY <1>3, QueueFacts DEF Taken
<1> QED BY <1>3, <1>5, <1>6

----------------------------------------------------------------------------
\* Tokens.

\* What a client asks for is positive, and the next token is a number.
LEMMA AskedTyped ==
    ASSUME Types, NEW r \in Requests
    PROVE  /\ asked[r].prompt \in Nat \ {0} /\ asked[r].maxNew \in Nat \ {0}
           /\ numOutput[r] \in Nat
           /\ LastPlace(r) \in Nat /\ NextToken(r) \in Nat
           /\ LastPlace(r) = asked[r].prompt + numOutput[r]
<1>1. asked[r] \in [prompt : PromptLens, maxNew : MaxNews] /\ numOutput[r] \in Nat
  BY DEF Types
<1>2. asked[r].prompt \in Nat \ {0} /\ asked[r].maxNew \in Nat \ {0}
  BY <1>1, BatchedAssumption
<1> QED BY <1>1, <1>2 DEF NextToken, LastPlace

\* A token that is handled: one output more, something in the stream, and the request
\* has ended or has budget left.
LEMMA TokenHandled ==
    ASSUME Types, Books, NEW r \in Requests, status[r] = "RUNNING",
           FinishRequest(r, NextToken(r)) \/ KeepGoing(r, NextToken(r)),
           arrivals' = arrivals
    PROVE  /\ asked' = asked
           /\ status' \in [Requests -> {"WAITING", "RUNNING", "FINISHED"}]
           /\ numOutput' \in [Requests -> Nat]
           /\ stream' \in [Requests -> Seq(Nat)]
           /\ totalFinished' \in Nat
           /\ \A s \in Requests \ {r} : /\ status'[s] = status[s]
                                        /\ numOutput'[s] = numOutput[s]
                                        /\ stream'[s] = stream[s]
           /\ numOutput'[r] = numOutput[r] + 1
           /\ stream'[r] # <<>>
           /\ \/ FinishRequest(r, NextToken(r)) /\ status'[r] = "FINISHED"
              \/ KeepGoing(r, NextToken(r)) /\ status'[r] = "RUNNING"
           /\ Books'
<1>1. /\ stream[r] \in Seq(Nat) /\ Len(stream[r]) = numOutput[r]
      /\ numOutput[r] \in Nat /\ numOutput[r] < asked[r].maxNew
      /\ r \in Range(arrivals)
  BY DEF Types, Books, Book
<1>2. NextToken(r) \in Nat /\ asked[r].maxNew \in Nat
  BY AskedTyped
<1>3. CASE FinishRequest(r, NextToken(r))
  <2> DEFINE t == stream[r] \o <<NextToken(r), EndMark>>
  <2>1. EndMark \in Nat
    BY DEF EndMark
  <2>2. t \in Seq(Nat) /\ Len(t) = Len(stream[r]) + 2
    BY <1>1, <1>2, <2>1, AppendTwo
  <2>3. stream' = [stream EXCEPT ![r] = t]
    BY <1>3 DEF FinishRequest
  <2> HIDE DEF t
  <2>4. t # <<>>
    BY <1>1, <2>2
  <2>5. /\ asked' = asked
        /\ status' = [status EXCEPT ![r] = "FINISHED"]
        /\ numOutput' = [numOutput EXCEPT ![r] = @ + 1]
        /\ totalFinished' = totalFinished + 1
    BY <1>3 DEF FinishRequest
  <2>6. /\ status' \in [Requests -> {"WAITING", "RUNNING", "FINISHED"}]
        /\ status'[r] = "FINISHED"
        /\ \A s \in Requests \ {r} : status'[s] = status[s]
    BY <2>5 DEF Types
  <2>7. /\ numOutput' \in [Requests -> Nat]
        /\ numOutput'[r] = numOutput[r] + 1
        /\ \A s \in Requests \ {r} : numOutput'[s] = numOutput[s]
    BY <2>5 DEF Types
  <2>8. /\ stream' \in [Requests -> Seq(Nat)] /\ stream'[r] = t
        /\ \A s \in Requests \ {r} : stream'[s] = stream[s]
    BY <2>2, <2>3 DEF Types
  <2>9. totalFinished' \in Nat
    BY <2>5 DEF Types
  <2>10. ASSUME NEW s \in Requests \ {r} PROVE Book(s)'
    <3>1. /\ status'[s] = status[s] /\ numOutput'[s] = numOutput[s]
          /\ stream'[s] = stream[s]
      BY <2>6, <2>7, <2>8
    <3>2. Book(s)
      BY DEF Books
    <3> QED BY <3>1, <3>2, <2>5 DEF Book
  <2>11. Book(r)'
    BY <1>1, <1>2, <2>4, <2>5, <2>6, <2>7, <2>8 DEF Book
  <2> QED BY <1>3, <2>4, <2>5, <2>6, <2>7, <2>8, <2>9, <2>10, <2>11 DEF Books
<1>4. CASE KeepGoing(r, NextToken(r))
  <2> DEFINE t == Append(stream[r], NextToken(r))
  <2>1. t \in Seq(Nat) /\ Len(t) = Len(stream[r]) + 1
    BY <1>1, <1>2, AppendProperties
  <2>2. stream' = [stream EXCEPT ![r] = t]
    BY <1>4 DEF KeepGoing
  <2> HIDE DEF t
  <2>3. t # <<>>
    BY <1>1, <2>1
  <2>4. /\ asked' = asked /\ status' = status /\ totalFinished' = totalFinished
        /\ numOutput' = [numOutput EXCEPT ![r] = @ + 1]
        /\ ~(numOutput[r] + 1 >= asked[r].maxNew)
    BY <1>4 DEF KeepGoing, OutOfBudget
  <2>5. /\ numOutput' \in [Requests -> Nat]
        /\ numOutput'[r] = numOutput[r] + 1
        /\ \A s \in Requests \ {r} : numOutput'[s] = numOutput[s]
    BY <2>4 DEF Types
  <2>6. /\ stream' \in [Requests -> Seq(Nat)] /\ stream'[r] = t
        /\ \A s \in Requests \ {r} : stream'[s] = stream[s]
    BY <2>1, <2>2 DEF Types
  <2>7. ASSUME NEW s \in Requests \ {r} PROVE Book(s)'
    <3>1. numOutput'[s] = numOutput[s] /\ stream'[s] = stream[s]
      BY <2>5, <2>6
    <3>2. Book(s)
      BY DEF Books
    <3> QED BY <3>1, <3>2, <2>4 DEF Book
  <2>8. Book(r)'
    BY <1>1, <1>2, <2>1, <2>4, <2>5, <2>6 DEF Book
  <2> QED BY <1>4, <2>3, <2>4, <2>5, <2>6, <2>7, <2>8 DEF Books, Types
<1> QED BY <1>3, <1>4

\* A step that changes no request, and forgets no arrival, keeps their books.
LEMMA BooksUnchanged ==
    ASSUME Books, UNCHANGED <<asked, status, numOutput, stream>>,
           \A r \in Requests : r \notin Range(arrivals') => r \notin Range(arrivals)
    PROVE  Books'
BY DEF Books, Book

----------------------------------------------------------------------------
\* The invariant is preserved, action by action.

\* The batch of a step that changes nobody's outputs and leaves the lists alone.
LEMMA RowsUnchanged ==
    ASSUME Types, Rows, UNCHANGED <<numOutput, running, batch, stillRunning>>,
           toPrefill' \in Seq(Requests), Len(toPrefill') <= Len(toPrefill),
           pc = "emitDecode" => pc' = "emitDecode"
    PROVE  Rows'
<1>1. /\ Len(running) \in Nat /\ Len(toPrefill) \in Nat /\ Len(toPrefill') \in Nat
      /\ MaxRunning \in Nat
  BY BatchedAssumption DEF Types
<1>2. Len(running') + Len(toPrefill') <= MaxRunning
  BY <1>1 DEF Rows
<1> QED BY <1>2 DEF Rows, Descending

\* What is known of a request at the head of to_prefill.
LEMMA HeadOfPrefill ==
    ASSUME IInv, toPrefill # <<>>
    PROVE  /\ Head(toPrefill) \in Requests
           /\ Head(toPrefill) \in Range(toPrefill)
           /\ Head(toPrefill) \notin Taken /\ Head(toPrefill) \notin Range(waiting)
           /\ Head(toPrefill) \in Range(arrivals)
           /\ Head(toPrefill) \notin InBatch
           /\ status[Head(toPrefill)] = IF Begun(Head(toPrefill)) THEN "RUNNING"
                                                                  ELSE "WAITING"
<1>1. toPrefill \in Seq(Requests)
  BY DEF IInv, Types
<1>2. Head(toPrefill) \in Requests /\ Head(toPrefill) \in Range(toPrefill)
  BY <1>1, TailRange
<1>3. /\ Head(toPrefill) \notin Range(waiting) /\ Head(toPrefill) \in Range(arrivals)
  BY <1>2, QueueFacts DEF IInv
<1>4. Head(toPrefill) \notin Taken
  BY <1>2 DEF Taken
<1> QED BY <1>2, <1>3, <1>4 DEF IInv, Members

\* add_request.
LEMMA AddPreserves ==
    ASSUME IInv, NEW r \in Requests, AddRequest(r)
    PROVE  IInv'
<1> USE DEF IInv
<1>1. /\ r \notin Range(arrivals)
      /\ UNCHANGED <<mode, asked, status, numOutput, stream, running, runningFlag,
                     totalFinished, pc, toPrefill, batch, stillRunning, failures>>
  BY DEF AddRequest, requestVars, localVars
<1>2. /\ arrivals' \in Seq(Requests) /\ waiting' \in Seq(Requests)
      /\ Queues'
      /\ Range(waiting') = Range(waiting) \cup {r}
      /\ Range(arrivals') = Range(arrivals) \cup {r}
      /\ Taken' = Taken
  BY QueuesAdd
<1>3. Types'
  BY <1>1, <1>2 DEF Types
<1>4. Control'
  BY <1>1 DEF Control
<1>5. Rows'
  <2>1. Len(toPrefill) \in Nat /\ toPrefill' \in Seq(Requests)
    BY <1>3 DEF Types
  <2> QED BY <1>1, <2>1, RowsUnchanged
<1>6. InBatch' = InBatch
  BY <1>1 DEF InBatch
<1>7. Members'
  <2>1. \A s \in Range(waiting') : status'[s] = "WAITING"
    BY <1>1, <1>2 DEF Members, Books, Book
  <2> QED BY <1>1, <1>2, <1>6, <2>1 DEF Members, Begun
<1>8. Books'
  BY <1>1, <1>2, BooksUnchanged
<1>9. NobodyDropped'
  BY <1>1, <1>2, <1>6 DEF NobodyDropped
<1> QED BY <1>2, <1>3, <1>4, <1>5, <1>7, <1>8, <1>9

\* The steps that only move the scheduler thread on, or touch the flag.
Quiet == \/ Start \/ Stop \/ Idle \/ Exit \/ Stopped
         \/ EndPrefill
         \/ UNCHANGED vars

\* Quiet steps change no request and no list, and move only along these edges.
LEMMA QuietChanges ==
    ASSUME IInv, Quiet
    PROVE  /\ UNCHANGED <<mode, asked, status, numOutput, stream, cache, attended, waiting,
                          running, totalFinished, toPrefill, batch, stillRunning, arrivals,
                          failures>>
           /\ runningFlag' \in BOOLEAN
           /\ \/ pc' = pc
              \/ /\ pc \in {"unstarted", "loop", "prefill"} /\ toPrefill = <<>>
                 /\ pc' \in {"loop", "stopped", "decode"}
                 /\ pc' = "decode" => running # <<>>
<1>1. CASE Start
  BY <1>1 DEF Start, requestVars, localVars, IInv, Control
<1>2. CASE Stop
  BY <1>2 DEF Stop, requestVars, localVars
<1>3. CASE Exit
  BY <1>3 DEF Exit, requestVars, localVars, IInv, Control, Types
<1>4. CASE EndPrefill
  BY <1>4 DEF EndPrefill, requestVars, localVars, IInv, Types
<1>5. CASE UNCHANGED vars \/ Idle \/ Stopped
  BY <1>5 DEF Idle, Stopped, vars, requestVars, localVars, IInv, Types
<1> QED BY <1>1, <1>2, <1>3, <1>4, <1>5 DEF Quiet

LEMMA QuietPreserves ==
    ASSUME IInv, Quiet
    PROVE  IInv'
<1> USE DEF IInv
<1>1. /\ UNCHANGED <<mode, asked, status, numOutput, stream, waiting,
                     running, totalFinished, toPrefill, batch, stillRunning, arrivals,
                     failures>>
      /\ runningFlag' \in BOOLEAN
      /\ \/ pc' = pc
         \/ /\ pc \in {"unstarted", "loop", "prefill"} /\ toPrefill = <<>>
            /\ pc' \in {"loop", "stopped", "decode"}
            /\ pc' = "decode" => running # <<>>
  BY QuietChanges
<1>2. Types'
  BY <1>1 DEF Types
<1>3. Control'
  BY <1>1 DEF Control
<1>4. Queues' /\ Taken' = Taken
  BY <1>1 DEF Queues, Taken
<1>5. Rows'
  <2>1. Len(toPrefill) \in Nat /\ toPrefill' \in Seq(Requests)
    BY <1>1 DEF Types
  <2> QED BY <1>1, <2>1, RowsUnchanged
<1>6. InBatch' = InBatch
  BY <1>1 DEF InBatch
<1>7. Members'
  <2>1. CASE pc' = pc
    BY <1>1, <1>4, <1>6, <2>1 DEF Members, Begun
  <2>2. CASE pc' # pc
    BY <1>1, <1>4, <1>6, <2>2, RangeEmpty DEF Members
  <2> QED BY <2>1, <2>2
<1>8. Books'
  BY <1>1, BooksUnchanged
<1>9. NobodyDropped'
  BY <1>1, <1>4, <1>6 DEF NobodyDropped
<1> QED BY <1>2, <1>3, <1>4, <1>5, <1>7, <1>8, <1>9

\* Admission, in either mode, of no more than there is room for.
LEMMA AdmitPreserves ==
    ASSUME IInv, pc = "loop", NEW n \in Nat, n <= Len(waiting), Admit(n),
           Len(running) + n <= MaxRunning, mode = "baseline" => n <= 1,
           pc' = "prefill",
           UNCHANGED <<mode, asked, status, numOutput, stream, running, runningFlag,
                       totalFinished, batch, stillRunning, arrivals, failures>>
    PROVE  IInv'
<1> USE DEF IInv
<1>1. toPrefill = <<>> /\ batch = <<>> /\ stillRunning = <<>> /\ Range(toPrefill) = {}
  BY RangeEmpty DEF Control
<1>2. /\ toPrefill' \in Seq(Requests) /\ waiting' \in Seq(Requests)
      /\ Len(toPrefill') = n
      /\ Queues'
      /\ Range(waiting') \cup Range(toPrefill') = Range(waiting)
      /\ Taken' = Taken
  BY <1>1, QueuesAdmit
<1>3. Types'
  BY <1>2 DEF Types
<1>4. Control'
  BY <1>1, <1>2 DEF Control
<1>5. Rows'
  BY <1>2 DEF Rows, Descending
<1>6. InBatch' = InBatch
  BY DEF InBatch
<1>7. Members'
  BY <1>2, <1>6 DEF Members, Begun
<1>8. Books'
  BY BooksUnchanged
<1>9. NobodyDropped'
  BY <1>2, <1>6 DEF NobodyDropped
<1> QED BY <1>2, <1>3, <1>4, <1>5, <1>7, <1>8, <1>9

LEMMA BeginStepPreserves == IInv /\ BeginStep => IInv'
<1> SUFFICES ASSUME IInv, BeginStep PROVE IInv'
  OBVIOUS
<1>1. /\ Len(waiting) \in Nat /\ Len(running) \in Nat /\ Len(running) <= MaxRunning
      /\ MaxRunning \in Nat
  <2>1. /\ Len(running) \in Nat /\ Len(toPrefill) \in Nat /\ Len(waiting) \in Nat
        /\ MaxRunning \in Nat
    BY BatchedAssumption DEF IInv, Types
  <2> QED BY <2>1 DEF IInv, Rows
<1>2. PICK n : n = IF Len(waiting) <= FreePlaces THEN Len(waiting) ELSE FreePlaces
  OBVIOUS
<1>3. n \in Nat /\ n <= Len(waiting) /\ Len(running) + n <= MaxRunning
  BY <1>1, <1>2 DEF FreePlaces
<1>4. /\ pc = "loop" /\ mode # "baseline" /\ Admit(n) /\ pc' = "prefill"
      /\ UNCHANGED <<mode, asked, status, numOutput, stream, running, runningFlag,
                     totalFinished, batch, stillRunning, arrivals, failures>>
  BY <1>2 DEF BeginStep, requestVars
<1> QED BY <1>3, <1>4, AdmitPreserves

LEMMA TakeOneIsAdmit ==
    ASSUME IInv, TakeOne
    PROVE  1 <= Len(waiting) /\ Len(running) = 0 /\ Admit(1)
<1>1. waiting \in Seq(Requests) /\ waiting # <<>> /\ running = <<>>
  BY DEF IInv, Types, TakeOne, Control
<1>2. Len(waiting) \in Nat /\ 1 <= Len(waiting) /\ Len(running) = 0
  BY <1>1
<1>3. SubSeq(waiting, 1, 1) = <<Head(waiting)>>
  <2> DEFINE u == SubSeq(waiting, 1, 1)
             v == <<Head(waiting)>>
  <2>1. u \in Seq(Requests) /\ Len(u) = 1 /\ u[1] = waiting[1]
    BY <1>1, <1>2, SubSeqProperties
  <2>2. Head(waiting) = waiting[1] /\ Head(waiting) \in Requests
    BY <1>1, HeadTailProperties
  <2>3. v \in Seq(Requests) /\ Len(v) = 1 /\ v[1] = waiting[1]
    BY <2>2
  <2> HIDE DEF u, v
  <2>4. u = v
    BY <2>1, <2>3, SeqEqual
  <2> QED BY <2>4 DEF u, v
<1>4. SubSeq(waiting, 1 + 1, Len(waiting)) = Tail(waiting)
  <2> DEFINE u == SubSeq(waiting, 2, Len(waiting))
             v == Tail(waiting)
  <2>1. \A i \in 2 .. Len(waiting) : waiting[i] \in Requests
    BY <1>1
  <2>2. /\ u \in Seq(Requests)
        /\ Len(u) = IF 2 <= Len(waiting) THEN Len(waiting) - 2 + 1 ELSE 0
        /\ \A i \in 1 .. Len(waiting) - 2 + 1 : u[i] = waiting[2 + i - 1]
    BY <1>2, <2>1, SubSeqProperties
  <2>3. /\ v \in Seq(Requests) /\ Len(v) = Len(waiting) - 1
        /\ \A i \in 1 .. Len(v) : v[i] = waiting[i + 1]
    BY <1>1, HeadTailProperties
  <2> HIDE DEF u, v
  <2>4. Len(u) = Len(v) /\ \A i \in 1 .. Len(u) : u[i] = v[i]
    <3>1. PICK w \in Nat : w = Len(waiting) /\ 1 <= w
      BY <1>2
    <3>2. Len(u) = w - 1 /\ Len(v) = w - 1
      BY <3>1, <2>2, <2>3
    <3>3. \A i \in 1 .. w - 1 : i \in 1 .. w - 2 + 1 /\ 2 + i - 1 = i + 1
      BY <3>1
    <3>4. \A i \in 1 .. w - 1 : u[i] = waiting[i + 1] /\ v[i] = waiting[i + 1]
      BY <3>1, <3>2, <3>3, <2>2, <2>3
    <3> QED BY <3>2, <3>4
  <2>5. u = v
    BY <2>2, <2>3, <2>4, SeqEqual
  <2> QED BY <2>5 DEF u, v
<1> QED BY <1>2, <1>3, <1>4 DEF TakeOne, Admit

LEMMA TakeOnePreserves == IInv /\ TakeOne => IInv'
<1> SUFFICES ASSUME IInv, TakeOne PROVE IInv'
  OBVIOUS
<1>1. 1 <= Len(waiting) /\ Len(running) = 0 /\ Admit(1)
  BY TakeOneIsAdmit
<1>2. Len(running) + 1 <= MaxRunning
  BY <1>1, BatchedAssumption
<1>3. /\ pc = "loop" /\ pc' = "prefill"
      /\ UNCHANGED <<mode, asked, status, numOutput, stream, running, runningFlag,
                     totalFinished, batch, stillRunning, arrivals, failures>>
  BY DEF TakeOne, requestVars
<1>4. 1 \in Nat /\ 1 <= 1
  OBVIOUS
<1> QED BY <1>1, <1>2, <1>3, <1>4, AdmitPreserves

\* engine.prefill returned: the head of to_prefill has begun.
LEMMA PrefillPreserves == IInv /\ Prefill => IInv'
<1> SUFFICES ASSUME IInv, Prefill PROVE IInv'
  OBVIOUS
<1> USE DEF IInv
<1>0. PICK r : r = Head(toPrefill)
  OBVIOUS
<1>1. /\ pc = "prefill" /\ toPrefill # <<>> /\ pc' = "prefilled"
      /\ status' = [status EXCEPT ![r] = "RUNNING"]
      /\ UNCHANGED <<mode, asked, numOutput, stream, waiting, running, runningFlag,
                     totalFinished, toPrefill, batch, stillRunning, arrivals, failures>>
  BY <1>0 DEF Prefill, localVars
<1>2. /\ r \in Requests /\ r \in Range(toPrefill) /\ r \notin Taken /\ r \notin Range(waiting)
      /\ r \in Range(arrivals) /\ r \notin InBatch /\ status[r] = "WAITING"
  BY <1>0, <1>1, HeadOfPrefill DEF Begun
<1>3. /\ status' \in [Requests -> {"WAITING", "RUNNING", "FINISHED"}]
      /\ status'[r] = "RUNNING"
      /\ \A s \in Requests \ {r} : status'[s] = status[s]
  BY <1>1, <1>2 DEF Types
<1>4. Types'
  BY <1>1, <1>3 DEF Types
<1>5. Control'
  BY <1>1 DEF Control
<1>6. Queues' /\ Taken' = Taken
  BY <1>1 DEF Queues, Taken
<1>7. Rows'
  <2>1. Len(toPrefill) \in Nat /\ toPrefill' \in Seq(Requests)
    BY <1>1 DEF Types
  <2> QED BY <1>1, <2>1, RowsUnchanged
<1>8. InBatch' = InBatch
  BY <1>1 DEF InBatch
<1>9. numOutput[r] = 0
  BY <1>2 DEF Books, Book
<1>10. Members'
  <2>0. /\ Range(waiting) \subseteq Requests /\ Range(toPrefill) \subseteq Requests
        /\ Taken \subseteq Requests
    BY QueueFacts DEF Taken
  <2>1. \A s \in Range(waiting') : status'[s] = "WAITING"
    BY <1>1, <1>2, <1>3, <2>0 DEF Members
  <2>2. \A s \in Range(toPrefill') : status'[s] = IF Begun(s)' THEN "RUNNING" ELSE "WAITING"
    <3>1. \A s : Begun(s)' <=> s = r
      BY <1>0, <1>1 DEF Begun
    <3>2. \A s \in Range(toPrefill) : status[s] = "WAITING"
      BY <1>1 DEF Members, Begun
    <3> QED BY <1>1, <1>3, <2>0, <3>1, <3>2
  <2>3. numOutput'[Head(toPrefill')] = 0
    BY <1>0, <1>1, <1>9
  <2>4. \A s \in InBatch' : status'[s] = "RUNNING" /\ numOutput'[s] >= 1
    BY <1>1, <1>2, <1>3, <1>8, <2>0 DEF Members
  <2>5. InBatch' \subseteq Taken'
    BY <1>6, <1>8 DEF Members
  <2> QED BY <2>1, <2>2, <2>3, <2>4, <2>5 DEF Members
<1>11. Books'
  <2>1. \A s \in Requests \ {r} : Book(s)'
    BY <1>1, <1>3 DEF Books, Book
  <2>2. Book(r)'
    BY <1>1, <1>2, <1>3, <1>9 DEF Books, Book
  <2> QED BY <2>1, <2>2 DEF Books
<1>12. NobodyDropped'
  <2>1. \A s \in Taken : s \in Requests \ {r}
    BY <1>2, QueueFacts DEF Taken
  <2> QED BY <1>1, <1>3, <1>6, <1>8, <2>1 DEF NobodyDropped
<1> QED BY <1>4, <1>5, <1>6, <1>7, <1>10, <1>11, <1>12

\* An engine call raised: to_prefill is dropped, at most one request that was in it
\* has become RUNNING, and the promises about everybody are off.
LEMMA FailPreserves ==
    ASSUME IInv, pc # "emitDecode", Fail,
           \/ status' = status
           \/ toPrefill # <<>> /\ status' = [status EXCEPT ![Head(toPrefill)] = "RUNNING"]
    PROVE  IInv'
<1> USE DEF IInv
<1>1. /\ pc' = "loop" /\ toPrefill' = <<>> /\ failures' = failures + 1
      /\ UNCHANGED <<mode, asked, numOutput, stream, waiting, running, runningFlag,
                     totalFinished, batch, stillRunning, arrivals>>
  BY DEF Fail
<1>2. /\ toPrefill' \in Seq(Requests) /\ Len(toPrefill') = 0 /\ Range(toPrefill') = {}
      /\ Queues' /\ Taken' = Taken \cup Range(toPrefill)
  BY <1>1, QueuesDrop
<1>3. /\ status' \in [Requests -> {"WAITING", "RUNNING", "FINISHED"}]
      /\ \A s \in Requests : \/ status'[s] = status[s]
                             \/ /\ s \in Range(toPrefill) /\ status'[s] = "RUNNING"
                                /\ status[s] \in {"WAITING", "RUNNING"}
  <2>1. CASE status' = status
    BY <2>1 DEF Types
  <2>2. CASE toPrefill # <<>> /\ status' = [status EXCEPT ![Head(toPrefill)] = "RUNNING"]
    <3>1. /\ Head(toPrefill) \in Requests /\ Head(toPrefill) \in Range(toPrefill)
          /\ status[Head(toPrefill)] \in {"WAITING", "RUNNING"}
      BY <2>2, HeadOfPrefill
    <3> QED BY <2>2, <3>1 DEF Types
  <2> QED BY <2>1, <2>2
<1>4. Types'
  BY <1>1, <1>2, <1>3 DEF Types
<1>5. Control'
  BY <1>1, <1>2 DEF Control
<1>6. Rows'
  <2>1. Len(toPrefill) \in Nat
    BY DEF Types
  <2> QED BY <1>1, <1>2, <2>1, RowsUnchanged
<1>7. InBatch' = InBatch /\ InBatch \cap Range(toPrefill) = {}
  BY <1>1 DEF InBatch, Members, Taken
<1>8. Members'
  <2>0. /\ Range(waiting) \subseteq Requests /\ Taken \subseteq Requests
        /\ Range(waiting) \cap Range(toPrefill) = {}
    BY QueueFacts DEF Taken
  <2>1. \A s \in Range(waiting') : status'[s] = "WAITING"
    BY <1>1, <1>3, <2>0 DEF Members
  <2>2. \A s \in InBatch' : status'[s] = "RUNNING" /\ numOutput'[s] >= 1
    BY <1>1, <1>3, <1>7, <2>0 DEF Members
  <2> QED BY <1>1, <1>2, <1>7, <2>1, <2>2 DEF Members
<1>9. Books'
  <2>1. Range(toPrefill) \subseteq Range(arrivals)
    BY QueueFacts
  <2> QED BY <1>1, <1>3, <2>1 DEF Books, Book
<1>10. NobodyDropped'
  <2>1. failures \in Nat
    BY DEF Types
  <2> QED BY <1>1, <2>1 DEF NobodyDropped
<1> QED BY <1>2, <1>4, <1>5, <1>6, <1>8, <1>9, <1>10

LEMMA FailuresPreserve == IInv /\ (PrefillFails \/ DecodeFails \/ DecodeAloneFails) => IInv'
<1>1. ASSUME IInv, PrefillFails PROVE IInv'
  BY <1>1, FailPreserves DEF PrefillFails
<1>2. ASSUME IInv, DecodeFails PROVE IInv'
  BY <1>2, FailPreserves DEF DecodeFails
<1>3. ASSUME IInv, DecodeAloneFails PROVE IInv'
  BY <1>3, FailPreserves DEF DecodeAloneFails
<1> QED BY <1>1, <1>2, <1>3

\* A list keeps its order when somebody with no more tokens joins it.
LEMMA DescendingJoin ==
    ASSUME NEW s \in Seq(Requests), NEW r \in Requests, Descending(s),
           \A x \in Range(s) : /\ numOutput'[x] = numOutput[x]
                               /\ numOutput'[x] >= numOutput'[r]
    PROVE  LET t == Append(s, r)
           IN  \A i, j \in 1 .. Len(t) : i < j => numOutput'[t[i]] >= numOutput'[t[j]]
<1>0. PICK t : t = Append(s, r)
  OBVIOUS
<1>1. PICK n \in Nat : n = Len(s)
  OBVIOUS
<1>2. /\ Len(t) = n + 1 /\ t[n + 1] = r
      /\ \A i \in 1 .. n : t[i] = s[i] /\ s[i] \in Range(s)
  <2>1. Len(t) = n + 1 /\ t[n + 1] = r /\ \A i \in 1 .. n : t[i] = s[i]
    BY <1>0, <1>1, AppendProperties
  <2> QED BY <2>1, <1>1, RangeType
<1> SUFFICES ASSUME NEW i \in 1 .. n + 1, NEW j \in 1 .. n + 1, i < j
             PROVE  numOutput'[t[i]] >= numOutput'[t[j]]
  BY <1>0, <1>2
<1>3. i \in 1 .. n /\ t[i] = s[i] /\ s[i] \in Range(s)
  <2>1. i \in 1 .. n
    OBVIOUS
  <2> QED BY <2>1, <1>2
<1>4. CASE j = n + 1
  BY <1>2, <1>3, <1>4
<1>5. CASE j # n + 1
  <2>1. j \in 1 .. n
    BY <1>5
  <2>2. t[j] = s[j] /\ s[j] \in Range(s)
    BY <1>2, <2>1
  <2>3. numOutput[s[i]] >= numOutput[s[j]]
    BY <1>1, <1>3, <2>1 DEF Descending
  <2> QED BY <1>3, <2>2, <2>3
<1> QED BY <1>4, <1>5

\* A list keeps its order when nobody in it is sent a token.
LEMMA DescendingKept ==
    ASSUME NEW s \in Seq(Requests), Descending(s),
           \A x \in Range(s) : numOutput'[x] = numOutput[x]
    PROVE  \A i, j \in 1 .. Len(s) : i < j => numOutput'[s[i]] >= numOutput'[s[j]]
<1>1. \A i \in 1 .. Len(s) : s[i] \in Range(s)
  BY RangeType
<1> QED BY <1>1 DEF Descending

\* The first token of a request of mode "batched": it joins running or has ended.
LEMMA EmitPrefillPreserves == IInv /\ EmitPrefill => IInv'
<1> SUFFICES ASSUME IInv, EmitPrefill PROVE IInv'
  OBVIOUS
<1> USE DEF IInv
<1>0. PICK r : r = Head(toPrefill)
  OBVIOUS
<1>1. /\ pc = "prefilled" /\ mode = "batched" /\ pc' = "prefill"
      /\ toPrefill # <<>> /\ toPrefill' = Tail(toPrefill)
      /\ batch = <<>> /\ stillRunning = <<>>
      /\ \/ FinishRequest(r, NextToken(r)) /\ running' = running
         \/ KeepGoing(r, NextToken(r)) /\ running' = Append(running, r)
      /\ UNCHANGED <<mode, waiting, runningFlag, batch, stillRunning, arrivals, failures>>
  BY <1>0 DEF EmitPrefill, Join, Control
<1>2. /\ r \in Requests /\ r \in Range(toPrefill) /\ r \notin Taken /\ r \notin Range(waiting)
      /\ r \in Range(arrivals) /\ r \notin InBatch /\ status[r] = "RUNNING"
  BY <1>0, <1>1, HeadOfPrefill DEF Begun
<1>3. numOutput[r] = 0
  BY <1>0, <1>1 DEF Members
<1>4. /\ asked' = asked
      /\ status' \in [Requests -> {"WAITING", "RUNNING", "FINISHED"}]
      /\ numOutput' \in [Requests -> Nat]
      /\ stream' \in [Requests -> Seq(Nat)]
      /\ totalFinished' \in Nat
      /\ \A s \in Requests \ {r} : /\ status'[s] = status[s]
                                   /\ numOutput'[s] = numOutput[s]
                                   /\ stream'[s] = stream[s]
      /\ numOutput'[r] = 1
      /\ stream'[r] # <<>>
      /\ \/ running' = running /\ status'[r] = "FINISHED"
         \/ running' = Append(running, r) /\ status'[r] = "RUNNING"
      /\ Books'
  <2>1. FinishRequest(r, NextToken(r)) => status'[r] = "FINISHED"
    BY <1>2 DEF FinishRequest, Types
  <2>2. KeepGoing(r, NextToken(r)) => status'[r] = "RUNNING"
    BY <1>2 DEF KeepGoing
  <2> QED BY <1>1, <1>2, <1>3, <2>1, <2>2, TokenHandled
<1>5. /\ toPrefill' \in Seq(Requests) /\ Len(toPrefill') = Len(toPrefill) - 1
      /\ Queues'
      /\ Range(toPrefill') = Range(toPrefill) \ {r}
      /\ Taken' = Taken \cup {r}
  BY <1>0, <1>1, QueuesNext
<1>6. /\ InBatch = Range(running) /\ InBatch' = Range(running')
      /\ running \in Seq(Requests) /\ IsInjective(running)
      /\ Range(running) \subseteq Requests \ {r}
  BY <1>1, <1>2, RangeType DEF InBatch, Types, Rows
<1>7. /\ running' \in Seq(Requests) /\ IsInjective(running')
      /\ Len(running') <= Len(running) + 1
      /\ Range(running') \subseteq Range(running) \cup {r}
      /\ status'[r] = "RUNNING" => r \in Range(running')
      /\ status'[r] = "FINISHED" => running' = running
      /\ Range(running) \subseteq Range(running')
  <2>1. CASE running' = running /\ status'[r] = "FINISHED"
    <3>1. Len(running) \in Nat
      BY <1>6
    <3> QED BY <1>6, <2>1, <3>1
  <2>2. CASE running' = Append(running, r) /\ status'[r] = "RUNNING"
    <3>1. Len(running) \in Nat
      BY <1>6
    <3> QED BY <1>2, <1>6, <2>2, <3>1, AppendRange
  <2> QED BY <1>4, <2>1, <2>2
<1>8. Types'
  BY <1>1, <1>4, <1>5, <1>7 DEF Types
<1>9. Control'
  BY <1>1 DEF Control
<1>10. Descending(running)'
  <2>1. Descending(running)
    BY <1>1 DEF Rows
  <2>2. \A x \in Range(running) : numOutput'[x] = numOutput[x] /\ numOutput'[x] >= numOutput'[r]
    BY <1>4, <1>6 DEF Members
  <2>3. CASE running' = running
    <3>1. \A i, j \in 1 .. Len(running) :
             i < j => numOutput'[running[i]] >= numOutput'[running[j]]
      BY <1>6, <2>1, <2>2, DescendingKept
    <3> QED BY <2>3, <3>1 DEF Descending
  <2>4. CASE running' = Append(running, r)
    <3> DEFINE t == Append(running, r)
    <3>1. \A i, j \in 1 .. Len(t) : i < j => numOutput'[t[i]] >= numOutput'[t[j]]
      BY <1>2, <1>6, <2>1, <2>2, DescendingJoin
    <3> QED BY <2>4, <3>1 DEF Descending
  <2> QED BY <1>4, <2>3, <2>4
<1>11. Rows'
  <2>1. Len(running') + Len(toPrefill') <= MaxRunning
    <3>1. PICK n \in Nat, m \in Nat, k \in Nat :
              n = Len(running) /\ m = Len(toPrefill) /\ k = Len(running')
      BY <1>7 DEF Types
    <3>2. n + m <= MaxRunning /\ k <= n + 1 /\ Len(toPrefill') = m - 1
      BY <1>5, <1>7, <3>1 DEF Rows
    <3>3. MaxRunning \in Nat
      BY BatchedAssumption
    <3> QED BY <3>1, <3>2, <3>3
  <2>2. Len(batch') + Len(stillRunning') <= Len(running')
    <3>1. Len(batch') + Len(stillRunning') = 0
      BY <1>1
    <3>2. Len(running') \in Nat
      BY <1>7
    <3> QED BY <3>1, <3>2
  <2>3. Range(batch') = {} /\ Range(stillRunning') = {}
    BY <1>1, RangeEmpty
  <2>4. Descending(batch)' /\ Descending(stillRunning)'
    BY <1>1 DEF Descending
  <2> QED BY <1>1, <1>7, <1>10, <2>1, <2>2, <2>3, <2>4 DEF Rows
<1>12. Members'
  <2>0. Range(waiting) \subseteq Requests /\ Range(toPrefill) \subseteq Requests
    BY QueueFacts
  <2>1. \A s \in Range(waiting') : status'[s] = "WAITING"
    BY <1>1, <1>2, <1>4, <2>0 DEF Members
  <2>2. \A s \in Range(toPrefill') : status'[s] = "WAITING"
    <3>1. \A s \in Range(toPrefill') : s # r /\ s \in Range(toPrefill) /\ s \in Requests
      BY <1>5, <2>0
    <3>2. \A s \in Range(toPrefill') : status[s] = "WAITING"
      BY <1>0, <3>1 DEF Members, Begun
    <3> QED BY <1>4, <3>1, <3>2
  <2>3. \A s \in InBatch' : status'[s] = "RUNNING" /\ numOutput'[s] >= 1
    <3>1. \A s \in Range(running) : status'[s] = "RUNNING" /\ numOutput'[s] >= 1
      BY <1>4, <1>6 DEF Members
    <3>2. r \in Range(running') => status'[r] = "RUNNING" /\ numOutput'[r] >= 1
      BY <1>4, <1>6, <1>7
    <3> QED BY <1>6, <1>7, <3>1, <3>2
  <2>4. InBatch' \subseteq Taken'
    BY <1>5, <1>6, <1>7 DEF Members
  <2> QED BY <1>1, <2>1, <2>2, <2>3, <2>4 DEF Members, Begun
<1>13. NobodyDropped'
  <2>1. ASSUME failures = 0, NEW s \in Taken
        PROVE  stream'[s] # <<>> /\ (status'[s] = "FINISHED" \/ s \in InBatch')
    <3>1. s \in Requests \ {r}
      BY <1>2, QueueFacts DEF Taken
    <3>2. stream[s] # <<>> /\ (status[s] = "FINISHED" \/ s \in InBatch)
      BY <2>1 DEF NobodyDropped
    <3> QED BY <1>4, <1>6, <1>7, <3>1, <3>2
  <2>2. stream'[r] # <<>> /\ (status'[r] = "FINISHED" \/ r \in InBatch')
    BY <1>4, <1>6, <1>7
  <2> QED BY <1>1, <1>5, <2>1, <2>2 DEF NobodyDropped
<1> QED BY <1>4, <1>5, <1>8, <1>9, <1>11, <1>12, <1>13

\* A token of a request of mode "baseline": it goes on decoding or has ended.
LEMMA EmitAlonePreserves == IInv /\ EmitAlone => IInv'
<1> SUFFICES ASSUME IInv, EmitAlone PROVE IInv'
  OBVIOUS
<1> USE DEF IInv
<1>0. PICK r : r = Head(toPrefill)
  OBVIOUS
<1>1. /\ pc = "prefilled" /\ mode = "baseline" /\ toPrefill # <<>>
      /\ running = <<>> /\ batch = <<>> /\ stillRunning = <<>>
      /\ \/ FinishRequest(r, NextToken(r)) /\ toPrefill' = <<>> /\ pc' = "loop"
         \/ KeepGoing(r, NextToken(r)) /\ toPrefill' = toPrefill /\ pc' = "decodeAlone"
      /\ UNCHANGED <<mode, waiting, running, runningFlag, batch, stillRunning, arrivals,
                     failures>>
  BY <1>0 DEF EmitAlone, Control
<1>2. /\ r \in Requests /\ r \in Range(toPrefill) /\ r \notin Taken /\ r \notin Range(waiting)
      /\ r \in Range(arrivals) /\ status[r] = "RUNNING"
  BY <1>0, <1>1, HeadOfPrefill DEF Begun
<1>3. /\ asked' = asked
      /\ status' \in [Requests -> {"WAITING", "RUNNING", "FINISHED"}]
      /\ numOutput' \in [Requests -> Nat]
      /\ stream' \in [Requests -> Seq(Nat)]
      /\ totalFinished' \in Nat
      /\ \A s \in Requests \ {r} : /\ status'[s] = status[s]
                                   /\ numOutput'[s] = numOutput[s]
                                   /\ stream'[s] = stream[s]
      /\ stream'[r] # <<>>
      /\ \/ status'[r] = "FINISHED" /\ toPrefill' = <<>> /\ pc' = "loop"
         \/ status'[r] = "RUNNING" /\ toPrefill' = toPrefill /\ pc' = "decodeAlone"
      /\ Books'
  <2>1. FinishRequest(r, NextToken(r)) => status'[r] = "FINISHED"
    BY <1>2 DEF FinishRequest, Types
  <2>2. KeepGoing(r, NextToken(r)) => status'[r] = "RUNNING"
    BY <1>2 DEF KeepGoing
  <2> QED BY <1>1, <1>2, <2>1, <2>2, TokenHandled
<1>4. Range(toPrefill) = {r}
  <2>1. toPrefill \in Seq(Requests)
    BY DEF Types
  <2>2. PICK n \in Nat : n = Len(toPrefill)
    BY <2>1
  <2>3. n = 1 /\ r = toPrefill[1]
    <3>1. n <= 1
      BY <1>1, <2>2 DEF Control
    <3>2. n >= 1 /\ r = toPrefill[1]
      BY <1>0, <1>1, <2>1, <2>2, HeadTailProperties
    <3> QED BY <3>1, <3>2
  <2>4. \A e \in Range(toPrefill) : \E i \in 1 .. n : e = toPrefill[i]
    BY <2>1, <2>2, RangeType
  <2>5. \A e \in Range(toPrefill) : e = r
    BY <2>3, <2>4
  <2> QED BY <1>2, <2>5
<1>5. /\ toPrefill' \in Seq(Requests) /\ Len(toPrefill') <= Len(toPrefill) /\ Queues'
      /\ \/ status'[r] = "FINISHED" /\ Range(toPrefill') = {} /\ Taken' = Taken \cup {r}
            /\ pc' = "loop" /\ toPrefill' = <<>>
         \/ status'[r] = "RUNNING" /\ toPrefill' = toPrefill /\ Taken' = Taken
            /\ pc' = "decodeAlone"
  <2>1. Len(toPrefill) \in Nat /\ toPrefill \in Seq(Requests)
    BY DEF Types
  <2>2. CASE status'[r] = "FINISHED" /\ toPrefill' = <<>> /\ pc' = "loop"
    <3>1. /\ toPrefill' \in Seq(Requests) /\ Len(toPrefill') = 0 /\ Range(toPrefill') = {}
          /\ Queues' /\ Taken' = Taken \cup Range(toPrefill)
      BY <1>1, <2>2, QueuesDrop
    <3> QED BY <1>4, <2>1, <2>2, <3>1
  <2>3. CASE status'[r] = "RUNNING" /\ toPrefill' = toPrefill /\ pc' = "decodeAlone"
    <3>1. Queues' /\ Taken' = Taken
      BY <1>1, <2>3 DEF Queues, Taken
    <3> QED BY <2>1, <2>3, <3>1
  <2> QED BY <1>3, <2>2, <2>3
<1>6. Types'
  BY <1>1, <1>3, <1>5 DEF Types
<1>7. Control'
  BY <1>1, <1>5 DEF Control
<1>8. Rows'
  <2>1. Len(running') + Len(toPrefill') <= MaxRunning
    <3>1. PICK n \in Nat, m \in Nat, k \in Nat :
              n = Len(running) /\ m = Len(toPrefill) /\ k = Len(toPrefill')
      BY <1>5 DEF Types
    <3>2. n + m <= MaxRunning /\ k <= m
      BY <1>5, <3>1 DEF Rows
    <3>3. MaxRunning \in Nat
      BY BatchedAssumption
    <3> QED BY <1>1, <3>1, <3>2, <3>3
  <2>2. Descending(running)' /\ Descending(batch)' /\ Descending(stillRunning)'
    BY <1>1 DEF Descending
  <2>3. Range(batch') = {} /\ Range(stillRunning') = {}
    BY <1>1, RangeEmpty
  <2> QED BY <1>1, <2>1, <2>2, <2>3 DEF Rows
<1>9. InBatch = {} /\ InBatch' = {}
  BY <1>1, RangeEmpty DEF InBatch
<1>10. Members'
  <2>1. \A s \in Range(waiting') : status'[s] = "WAITING"
    <3>1. Range(waiting) \subseteq Requests
      BY QueueFacts
    <3> QED BY <1>1, <1>2, <1>3, <3>1 DEF Members
  <2>2. \A s \in Range(toPrefill') : status'[s] = IF Begun(s)' THEN "RUNNING" ELSE "WAITING"
    BY <1>0, <1>4, <1>5 DEF Begun
  <2> QED BY <1>1, <1>5, <1>9, <2>1, <2>2 DEF Members
<1>11. NobodyDropped'
  <2>1. ASSUME failures = 0, NEW s \in Taken
        PROVE  stream'[s] # <<>> /\ status'[s] = "FINISHED"
    <3>1. s \in Requests \ {r}
      BY <1>2, QueueFacts DEF Taken
    <3> QED BY <1>3, <1>9, <2>1, <3>1 DEF NobodyDropped
  <2> QED BY <1>1, <1>3, <1>5, <2>1 DEF NobodyDropped
<1> QED BY <1>3, <1>5, <1>6, <1>7, <1>8, <1>10, <1>11

\* One forward pass for the whole batch: nobody has been sent its token yet.
LEMMA DecodePreserves == IInv /\ Decode => IInv'
<1> SUFFICES ASSUME IInv, Decode PROVE IInv'
  OBVIOUS
<1> USE DEF IInv
<1>1. /\ pc = "decode" /\ pc' = "emitDecode" /\ batch' = running
      /\ toPrefill = <<>> /\ stillRunning = <<>> /\ mode # "baseline"
      /\ UNCHANGED <<mode, asked, status, numOutput, stream, waiting, running, runningFlag,
                     totalFinished, toPrefill, stillRunning, arrivals, failures>>
  BY DEF Decode, Control
<1>2. Types'
  BY <1>1 DEF Types
<1>3. Control'
  BY <1>1 DEF Control
<1>4. Queues' /\ Taken' = Taken
  BY <1>1 DEF Queues, Taken
<1>5. Range(stillRunning') = {} /\ InBatch' = InBatch
  BY <1>1, RangeEmpty DEF InBatch
<1>6. Rows'
  <2>1. Len(batch') + Len(stillRunning') <= Len(running')
    <3>1. Len(running) \in Nat
      BY DEF Types
    <3> QED BY <1>1, <3>1
  <2>2. Descending(batch)' /\ Descending(stillRunning)'
    BY <1>1 DEF Rows, Descending
  <2> QED BY <1>1, <1>5, <2>1, <2>2 DEF Rows
<1>7. Members'
  BY <1>1, <1>4, <1>5, RangeEmpty DEF Members
<1>8. Books'
  BY <1>1, BooksUnchanged
<1>9. NobodyDropped'
  BY <1>1, <1>4, <1>5 DEF NobodyDropped
<1> QED BY <1>2, <1>3, <1>4, <1>6, <1>7, <1>8, <1>9

\* The whole batch has its tokens: those that go on are the running ones.
LEMMA EndDecodePreserves == IInv /\ EndDecode => IInv'
<1> SUFFICES ASSUME IInv, EndDecode PROVE IInv'
  OBVIOUS
<1> USE DEF IInv
<1>1. /\ pc = "emitDecode" /\ pc' = "loop" /\ batch = <<>>
      /\ running' = stillRunning /\ stillRunning' = <<>> /\ toPrefill = <<>>
      /\ mode # "baseline"
      /\ UNCHANGED <<mode, asked, status, numOutput, stream, waiting, runningFlag,
                     totalFinished, toPrefill, batch, arrivals, failures>>
  BY DEF EndDecode, requestVars, Control
<1>2. Types'
  BY <1>1 DEF Types
<1>3. Control'
  BY <1>1 DEF Control
<1>4. Queues' /\ Taken' = Taken
  BY <1>1 DEF Queues, Taken
<1>5. Range(batch) = {} /\ Range(stillRunning') = {} /\ InBatch' = InBatch
  BY <1>1, RangeEmpty DEF InBatch
<1>6. Rows'
  <2>1. PICK n \in Nat, k \in Nat : n = Len(running) /\ k = Len(stillRunning)
    BY DEF Types
  <2>2. k <= n /\ n <= MaxRunning /\ MaxRunning \in Nat
    BY <1>1, <2>1, BatchedAssumption DEF Rows
  <2>3. Len(running') + Len(toPrefill') <= MaxRunning
    BY <1>1, <2>1, <2>2
  <2>4. Len(batch') + Len(stillRunning') <= Len(running')
    BY <1>1, <2>1
  <2>5. Descending(running)' /\ Descending(batch)' /\ Descending(stillRunning)'
    BY <1>1 DEF Rows, Descending
  <2>6. IsInjective(running') /\ IsInjective(batch') /\ IsInjective(stillRunning')
    BY <1>1, RangeEmpty DEF Rows
  <2> QED BY <1>1, <1>5, <2>3, <2>4, <2>5, <2>6 DEF Rows
<1>7. Members'
  BY <1>1, <1>4, <1>5, RangeEmpty DEF Members
<1>8. Books'
  BY <1>1, BooksUnchanged
<1>9. NobodyDropped'
  BY <1>1, <1>4, <1>5 DEF NobodyDropped
<1> QED BY <1>2, <1>3, <1>4, <1>6, <1>7, <1>8, <1>9

\* engine.decode_step returned.
LEMMA DecodeAlonePreserves == IInv /\ DecodeAlone => IInv'
<1> SUFFICES ASSUME IInv, DecodeAlone PROVE IInv'
  OBVIOUS
<1> USE DEF IInv
<1>1. /\ pc = "decodeAlone" /\ pc' = "prefilled" /\ toPrefill # <<>> /\ mode # "batched"
      /\ UNCHANGED <<mode, asked, status, numOutput, stream, waiting, running, runningFlag,
                     totalFinished, toPrefill, batch, stillRunning, arrivals, failures>>
  BY DEF DecodeAlone, localVars, Control
<1>2. Types'
  BY <1>1 DEF Types
<1>3. Control'
  BY <1>1 DEF Control
<1>4. Queues' /\ Taken' = Taken
  BY <1>1 DEF Queues, Taken
<1>5. Rows'
  <2>1. Len(toPrefill) \in Nat /\ toPrefill' \in Seq(Requests)
    BY <1>1 DEF Types
  <2> QED BY <1>1, <2>1, RowsUnchanged
<1>6. InBatch' = InBatch
  BY <1>1 DEF InBatch
<1>7. Members'
  BY <1>1, <1>4, <1>6 DEF Members, Begun
<1>8. Books'
  BY <1>1, BooksUnchanged
<1>9. NobodyDropped'
  BY <1>1, <1>4, <1>6 DEF NobodyDropped
<1> QED BY <1>2, <1>3, <1>4, <1>5, <1>7, <1>8, <1>9

\* The batch after the next request of the zip has its token.
LEMMA EmitDecodeRows ==
    ASSUME IInv, pc = "emitDecode", batch # <<>>, NEW r \in Requests, r = Head(batch),
           numOutput' \in [Requests -> Nat], numOutput'[r] = numOutput[r] + 1,
           \A s \in Requests \ {r} : numOutput'[s] = numOutput[s],
           batch' = Tail(batch),
           stillRunning' = stillRunning \/ stillRunning' = Append(stillRunning, r),
           UNCHANGED <<running, toPrefill>>, pc' = pc
    PROVE  /\ Rows'
           /\ batch' \in Seq(Requests) /\ stillRunning' \in Seq(Requests)
           /\ r \in Range(batch) /\ r \notin Range(batch') /\ r \notin Range(stillRunning)
           /\ Range(batch) = Range(batch') \cup {r}
           /\ \/ stillRunning' = stillRunning
              \/ /\ stillRunning' = Append(stillRunning, r)
                 /\ Range(stillRunning') = Range(stillRunning) \cup {r}
<1> USE DEF IInv
<1>1. /\ batch \in Seq(Requests) /\ stillRunning \in Seq(Requests)
      /\ IsInjective(batch) /\ IsInjective(stillRunning)
      /\ Range(batch) \cap Range(stillRunning) = {}
      /\ Descending(batch) /\ Descending(stillRunning)
      /\ \A x \in Range(stillRunning), y \in Range(batch) : numOutput[x] > numOutput[y]
  BY DEF Types, Rows
<1>2. /\ batch' \in Seq(Requests) /\ Len(batch') = Len(batch) - 1
      /\ IsInjective(batch')
      /\ r \in Range(batch) /\ r \notin Range(batch')
      /\ Range(batch) = Range(batch') \cup {r}
  BY <1>1, TailRange
<1>3. r \notin Range(stillRunning)
  BY <1>1, <1>2
<1>4. /\ stillRunning' \in Seq(Requests) /\ IsInjective(stillRunning')
      /\ Len(stillRunning') <= Len(stillRunning) + 1
      /\ Range(stillRunning') \subseteq Range(stillRunning) \cup {r}
      /\ stillRunning' = Append(stillRunning, r) =>
            Range(stillRunning') = Range(stillRunning) \cup {r}
  <2>1. /\ Append(stillRunning, r) \in Seq(Requests)
        /\ Len(Append(stillRunning, r)) = Len(stillRunning) + 1
        /\ Range(Append(stillRunning, r)) = Range(stillRunning) \cup {r}
        /\ IsInjective(Append(stillRunning, r))
    BY <1>1, <1>3, AppendRange
  <2>2. Len(stillRunning) \in Nat
    BY <1>1
  <2>3. CASE stillRunning' = stillRunning
    <3>1. stillRunning # Append(stillRunning, r)
      BY <2>1, <2>2
    <3> QED BY <1>1, <2>2, <2>3, <3>1
  <2>4. CASE stillRunning' = Append(stillRunning, r)
    BY <2>1, <2>2, <2>4
  <2> QED BY <2>3, <2>4
<1>5. Range(batch) \subseteq Requests /\ Range(stillRunning) \subseteq Requests
  BY <1>1, RangeType
<1>6. Descending(batch)'
  <2>1. PICK n \in Nat : n = Len(batch)
    BY <1>1
  <2>2. \A i \in 1 .. n - 1 : batch'[i] = batch[i + 1] /\ batch'[i] \in Range(batch')
    <3>1. Len(batch') = n - 1 /\ \A i \in 1 .. n - 1 : batch'[i] = batch[i + 1]
      BY <1>1, <1>2, <2>1, HeadTailProperties
    <3>2. \A i \in 1 .. Len(batch') : batch'[i] \in Range(batch')
      BY <1>2, RangeType
    <3> QED BY <3>1, <3>2
  <2>3. \A i \in 1 .. n - 1 : numOutput'[batch'[i]] = numOutput[batch[i + 1]]
    BY <1>2, <1>5, <2>2
  <2>4. \A i, j \in 1 .. n - 1 : i < j => numOutput[batch[i + 1]] >= numOutput[batch[j + 1]]
    <3>1. \A i, j \in 1 .. n - 1 : i < j => i + 1 \in 1 .. n /\ j + 1 \in 1 .. n
                                            /\ i + 1 < j + 1
      OBVIOUS
    <3> QED BY <1>1, <2>1, <3>1 DEF Descending
  <2>5. Len(batch') = n - 1
    BY <1>2, <2>1
  <2> QED BY <2>3, <2>4, <2>5 DEF Descending
<1>7. \A x \in Range(stillRunning) : numOutput'[x] = numOutput[x] /\ numOutput'[x] >= numOutput'[r]
  <2>1. \A x \in Range(stillRunning) : /\ numOutput'[x] = numOutput[x]
                                       /\ numOutput[x] > numOutput[r]
                                       /\ numOutput[x] \in Nat
    BY <1>1, <1>2, <1>3, <1>5 DEF Types
  <2>2. numOutput[r] \in Nat
    BY DEF Types
  <2> QED BY <2>1, <2>2
<1>8. Descending(stillRunning)'
  <2>1. CASE stillRunning' = stillRunning
    <3>1. \A i, j \in 1 .. Len(stillRunning) :
             i < j => numOutput'[stillRunning[i]] >= numOutput'[stillRunning[j]]
      BY <1>1, <1>7, DescendingKept
    <3> QED BY <2>1, <3>1 DEF Descending
  <2>2. CASE stillRunning' = Append(stillRunning, r)
    <3> DEFINE t == Append(stillRunning, r)
    <3>1. \A i, j \in 1 .. Len(t) : i < j => numOutput'[t[i]] >= numOutput'[t[j]]
      BY <1>1, <1>7, DescendingJoin
    <3> QED BY <2>2, <3>1 DEF Descending
  <2> QED BY <2>1, <2>2
<1>9. \A x \in Range(stillRunning'), y \in Range(batch') : numOutput'[x] > numOutput'[y]
  <2> SUFFICES ASSUME NEW x \in Range(stillRunning'), NEW y \in Range(batch')
               PROVE  numOutput'[x] > numOutput'[y]
    OBVIOUS
  <2>1. /\ y \in Range(batch) /\ y # r /\ numOutput'[y] = numOutput[y]
        /\ numOutput[y] \in Nat /\ numOutput[r] \in Nat
    BY <1>2, <1>5 DEF Types
  <2>2. CASE x = r
    <3>1. numOutput[r] >= numOutput[y]
      <4>1. PICK n \in Nat : n = Len(batch)
        BY <1>1
      <4>2. PICK i \in 1 .. n : y = batch[i]
        BY <1>1, <2>1, <4>1, RangeType
      <4>3. r = batch[1]
        BY <1>1, HeadTailProperties
      <4>4. 1 < i /\ 1 \in 1 .. n
        BY <2>1, <4>2, <4>3
      <4> QED BY <1>1, <4>1, <4>2, <4>3, <4>4 DEF Descending
    <3> QED BY <2>1, <2>2, <3>1
  <2>3. CASE x # r
    <3>1. x \in Range(stillRunning)
      BY <1>4, <2>3
    <3> QED BY <1>1, <1>7, <2>1, <3>1
  <2> QED BY <2>2, <2>3
<1>10. Len(batch') + Len(stillRunning') <= Len(running')
  <2>1. PICK n \in Nat, b \in Nat, k \in Nat, l \in Nat :
            n = Len(running) /\ b = Len(batch) /\ k = Len(stillRunning)
            /\ l = Len(stillRunning')
    BY <1>4 DEF Types
  <2>2. b + k <= n /\ l <= k + 1 /\ Len(batch') = b - 1
    BY <1>2, <1>4, <2>1 DEF Rows
  <2> QED BY <2>1, <2>2
<1>11. Range(batch') \cap Range(stillRunning') = {}
  BY <1>1, <1>2, <1>4
<1>12. Len(running') + Len(toPrefill') <= MaxRunning
  BY DEF Rows
<1>13. Rows'
  BY <1>2, <1>4, <1>6, <1>8, <1>9, <1>10, <1>11, <1>12 DEF Rows
<1> QED BY <1>2, <1>3, <1>4, <1>13

LEMMA EmitDecodePreserves == IInv /\ EmitDecode => IInv'
<1> SUFFICES ASSUME IInv, EmitDecode PROVE IInv'
  OBVIOUS
<1> USE DEF IInv
<1>0. PICK r : r = Head(batch)
  OBVIOUS
<1>1. /\ pc = "emitDecode" /\ batch # <<>> /\ batch' = Tail(batch) /\ mode # "baseline"
      /\ toPrefill = <<>>
      /\ \/ FinishRequest(r, NextToken(r)) /\ stillRunning' = stillRunning
         \/ KeepGoing(r, NextToken(r)) /\ stillRunning' = Append(stillRunning, r)
      /\ UNCHANGED <<mode, waiting, running, runningFlag, pc, toPrefill, arrivals, failures>>
  BY <1>0 DEF EmitDecode, Control
<1>2. /\ r \in Requests /\ r \in InBatch /\ r \in Taken
      /\ status[r] = "RUNNING" /\ numOutput[r] >= 1 /\ numOutput[r] \in Nat
  <2>1. r \in Requests /\ r \in Range(batch)
    BY <1>0, <1>1, TailRange DEF Types
  <2> QED BY <1>1, <2>1 DEF InBatch, Members, Types
<1>3. /\ asked' = asked
      /\ status' \in [Requests -> {"WAITING", "RUNNING", "FINISHED"}]
      /\ numOutput' \in [Requests -> Nat]
      /\ stream' \in [Requests -> Seq(Nat)]
      /\ totalFinished' \in Nat
      /\ \A s \in Requests \ {r} : /\ status'[s] = status[s]
                                   /\ numOutput'[s] = numOutput[s]
                                   /\ stream'[s] = stream[s]
      /\ numOutput'[r] = numOutput[r] + 1
      /\ stream'[r] # <<>>
      /\ \/ stillRunning' = stillRunning /\ status'[r] = "FINISHED"
         \/ stillRunning' = Append(stillRunning, r) /\ status'[r] = "RUNNING"
      /\ Books'
  <2>1. FinishRequest(r, NextToken(r)) => status'[r] = "FINISHED"
    BY <1>2 DEF FinishRequest, Types
  <2>2. KeepGoing(r, NextToken(r)) => status'[r] = "RUNNING"
    BY <1>2 DEF KeepGoing
  <2> QED BY <1>1, <1>2, <2>1, <2>2, TokenHandled
<1>4. /\ Rows'
      /\ batch' \in Seq(Requests) /\ stillRunning' \in Seq(Requests)
      /\ r \in Range(batch) /\ r \notin Range(batch') /\ r \notin Range(stillRunning)
      /\ Range(batch) = Range(batch') \cup {r}
      /\ \/ stillRunning' = stillRunning /\ status'[r] = "FINISHED"
         \/ /\ Range(stillRunning') = Range(stillRunning) \cup {r}
            /\ status'[r] = "RUNNING"
  <2>1. /\ Rows'
        /\ batch' \in Seq(Requests) /\ stillRunning' \in Seq(Requests)
        /\ r \in Range(batch) /\ r \notin Range(batch') /\ r \notin Range(stillRunning)
        /\ Range(batch) = Range(batch') \cup {r}
        /\ \/ stillRunning' = stillRunning
           \/ /\ stillRunning' = Append(stillRunning, r)
              /\ Range(stillRunning') = Range(stillRunning) \cup {r}
    BY <1>0, <1>1, <1>2, <1>3, EmitDecodeRows
  <2>2. stillRunning # Append(stillRunning, r)
    <3>1. stillRunning \in Seq(Requests)
      BY DEF Types
    <3>2. Len(Append(stillRunning, r)) = Len(stillRunning) + 1 /\ Len(stillRunning) \in Nat
      BY <1>2, <3>1, AppendRange
    <3> QED BY <3>2
  <2> QED BY <1>3, <2>1, <2>2
<1>5. Types'
  BY <1>1, <1>3, <1>4 DEF Types
<1>6. Control'
  BY <1>1 DEF Control
<1>7. Queues' /\ Taken' = Taken
  BY <1>1 DEF Queues, Taken
<1>8. /\ InBatch = Range(batch) \cup Range(stillRunning)
      /\ InBatch' = Range(batch') \cup Range(stillRunning')
  BY <1>1 DEF InBatch
<1>9. /\ InBatch' \subseteq InBatch
      /\ InBatch \subseteq InBatch' \cup {r}
      /\ status'[r] = "FINISHED" => r \notin InBatch'
      /\ status'[r] = "RUNNING" => r \in InBatch'
  <2>1. r \in InBatch' <=> r \in Range(stillRunning')
    BY <1>4, <1>8
  <2> QED BY <1>4, <1>8, <2>1
<1>10. Members'
  <2>0. Range(waiting) \subseteq Requests /\ Taken \subseteq Requests
    BY QueueFacts DEF Taken
  <2>1. \A s \in Range(waiting') : status'[s] = "WAITING"
    BY <1>1, <1>2, <1>3, <2>0 DEF Members
  <2>2. \A s \in InBatch' : status'[s] = "RUNNING" /\ numOutput'[s] >= 1
    <3> SUFFICES ASSUME NEW s \in InBatch'
                 PROVE  status'[s] = "RUNNING" /\ numOutput'[s] >= 1
      OBVIOUS
    <3>1. CASE s = r
      BY <1>2, <1>3, <1>9, <3>1
    <3>2. CASE s # r
      <4>1. s \in Requests \ {r} /\ status[s] = "RUNNING" /\ numOutput[s] >= 1
        BY <1>9, <2>0, <3>2 DEF Members
      <4> QED BY <1>3, <4>1
    <3> QED BY <3>1, <3>2
  <2>3. InBatch' \subseteq Taken'
    BY <1>7, <1>9 DEF Members
  <2>4. Range(toPrefill') = {}
    BY <1>1, RangeEmpty
  <2> QED BY <1>1, <2>1, <2>2, <2>3, <2>4 DEF Members
<1>11. NobodyDropped'
  <2>1. ASSUME failures = 0, NEW s \in Taken
        PROVE  stream'[s] # <<>> /\ (status'[s] = "FINISHED" \/ s \in InBatch')
    <3>1. CASE s = r
      BY <1>3, <1>9, <3>1
    <3>2. CASE s # r
      <4>1. s \in Requests \ {r}
        BY <3>2, QueueFacts DEF Taken
      <4>2. stream[s] # <<>> /\ (status[s] = "FINISHED" \/ s \in InBatch)
        BY <2>1 DEF NobodyDropped
      <4> QED BY <1>3, <1>9, <3>2, <4>1, <4>2
    <3> QED BY <3>1, <3>2
  <2> QED BY <1>1, <1>7, <2>1 DEF NobodyDropped
<1> QED BY <1>3, <1>4, <1>5, <1>6, <1>7, <1>10, <1>11

----------------------------------------------------------------------------
LEMMA InitEstablishes == Init => IInv
<1> SUFFICES ASSUME Init PROVE IInv
  OBVIOUS
<1> USE DEF Init
<1>0. <<>> \in Seq(Requests) /\ <<>> \in Seq(Nat)
  OBVIOUS
<1>1. Types
  BY <1>0 DEF Types
<1>2. Control
  BY DEF Control
<1>3. Queues
  BY RangeEmpty DEF Queues
<1>4. Range(arrivals) = {} /\ Range(waiting) = {} /\ Range(toPrefill) = {} /\ Range(running) = {}
      /\ Range(batch) = {} /\ Range(stillRunning) = {}
  BY RangeEmpty
<1>5. Taken = {} /\ InBatch = {}
  BY <1>4 DEF Taken, InBatch
<1>6. Rows
  BY <1>4, RangeEmpty, BatchedAssumption DEF Rows, Descending
<1>7. Members
  BY <1>4, <1>5 DEF Members
<1>8. Books
  <2> SUFFICES ASSUME NEW r \in Requests PROVE Book(r)
    BY DEF Books
  <2>1. asked[r].maxNew \in Nat \ {0}
    BY <1>1, AskedTyped
  <2>2. numOutput[r] = 0 /\ status[r] = "WAITING" /\ Len(stream[r]) = 0
    OBVIOUS
  <2> QED BY <2>1, <2>2 DEF Book
<1>9. NobodyDropped
  BY <1>5 DEF NobodyDropped
<1> QED BY <1>1, <1>2, <1>3, <1>6, <1>7, <1>8, <1>9 DEF IInv

LEMMA StepPreserves == IInv /\ [Next]_vars => IInv'
<1> SUFFICES ASSUME IInv, [Next]_vars PROVE IInv'
  OBVIOUS
<1>1. CASE Quiet
  BY <1>1, QuietPreserves
<1>2. CASE \E r \in Requests : AddRequest(r)
  BY <1>2, AddPreserves
<1>3. CASE BeginStep \/ TakeOne
  BY <1>3, BeginStepPreserves, TakeOnePreserves
<1>4. CASE Prefill \/ EmitPrefill \/ EmitAlone
  BY <1>4, PrefillPreserves, EmitPrefillPreserves, EmitAlonePreserves
<1>5. CASE Decode \/ EmitDecode \/ EndDecode \/ DecodeAlone
  BY <1>5, DecodePreserves, EmitDecodePreserves, EndDecodePreserves, DecodeAlonePreserves
<1>6. CASE PrefillFails \/ DecodeFails \/ DecodeAloneFails
  BY <1>6, FailuresPreserve
<1> QED BY <1>1, <1>2, <1>3, <1>4, <1>5, <1>6
        DEF Next, SchedulerStep, BatchedStep, BaselineStep, Quiet

\* The invariant holds whatever the mode and whatever calls raise.
THEOREM Inductive == Spec => []IInv
BY InitEstablishes, StepPreserves, PTL DEF Spec

----------------------------------------------------------------------------
\* What the invariant says of the properties the runs check.

LEMMA BatchIs ==
    ASSUME IInv
    PROVE  Decoding \in Seq(Requests) /\ IsInjective(Decoding) /\ Range(Decoding) = InBatch
<1>1. CASE pc = "emitDecode"
  BY <1>1, ConcatRange DEF IInv, Types, Rows, InBatch, Decoding
<1>2. CASE pc # "emitDecode"
  BY <1>2 DEF IInv, Types, Rows, InBatch, Decoding
<1> QED BY <1>1, <1>2

LEMMA NobodyIsLost == IInv => NoRequestLost
<1> SUFFICES ASSUME IInv PROVE NoRequestLost
  OBVIOUS
<1> USE DEF IInv
<1>1. PICK decoding : decoding = Decoding
  OBVIOUS
<1>2. /\ decoding \in Seq(Requests) /\ IsInjective(decoding)
      /\ Range(decoding) = InBatch
  BY <1>1, BatchIs
<1>3. /\ waiting \in Seq(Requests) /\ toPrefill \in Seq(Requests)
      /\ IsInjective(waiting) /\ IsInjective(toPrefill)
      /\ Range(waiting) \cap Range(toPrefill) = {}
  BY QueueFacts DEF Types
<1>4. InBatch \cap (Range(waiting) \cup Range(toPrefill)) = {}
  BY DEF Members, Taken
<1>5. PICK queued : queued = waiting \o toPrefill
  OBVIOUS
<1>6. /\ queued \in Seq(Requests) /\ IsInjective(queued)
      /\ Range(queued) = Range(waiting) \cup Range(toPrefill)
  BY <1>3, <1>5, ConcatRange
<1>7. PICK live : live = queued \o decoding
  OBVIOUS
<1>8. /\ IsInjective(live)
      /\ Range(live) = Range(waiting) \cup Range(toPrefill) \cup InBatch
  <2>1. Range(queued) \cap Range(decoding) = {}
    BY <1>2, <1>4, <1>6
  <2>2. IsInjective(live) /\ Range(live) = Range(queued) \cup Range(decoding)
    BY <1>2, <1>6, <1>7, <2>1, ConcatRange
  <2> QED BY <1>2, <1>6, <2>2
<1>9. \A r \in Range(live) : status[r] # "FINISHED"
  BY <1>8 DEF Members
<1>10. failures = 0 => \A r \in Range(arrivals) : status[r] = "FINISHED" \/ r \in Range(live)
  BY <1>8 DEF NobodyDropped, Taken
<1>11. live = waiting \o toPrefill \o Decoding
  BY <1>1, <1>5, <1>7
<1> QED BY <1>8, <1>9, <1>10, <1>11 DEF NoRequestLost

\* Nobody is lost: a request that was added and is not finished is in the queue, in
\* the hands of the step or among the running, once, unless an engine call raised.
THEOREM NobodyLost == Spec => []NoRequestLost
BY Inductive, NobodyIsLost, PTL

\* The requests taken are a prefix of arrivals, and the head of to_prefill is next.
LEMMA TakenArePrefix ==
    ASSUME Types, Queues, NEW i \in DOMAIN arrivals, NEW j \in DOMAIN arrivals, i < j,
           \/ arrivals[j] \in Taken
           \/ toPrefill # <<>> /\ arrivals[j] = Head(toPrefill)
    PROVE  arrivals[i] \in Taken
<1>1. /\ waiting \in Seq(Requests) /\ toPrefill \in Seq(Requests)
      /\ arrivals \in Seq(Requests)
  BY DEF Types
<1>2. PICK a \in Nat, w \in Nat, t \in Nat :
          a = Len(arrivals) /\ w = Len(waiting) /\ t = Len(toPrefill)
  BY <1>1, RangeType
<1>3. DOMAIN arrivals = 1 .. a /\ DOMAIN waiting = 1 .. w /\ DOMAIN toPrefill = 1 .. t
  BY <1>1, <1>2
<1>4. /\ t + w <= a
      /\ \A k \in 1 .. w : waiting[k] = arrivals[a - w + k]
      /\ \A k \in 1 .. t : toPrefill[k] = arrivals[a - w - t + k]
  BY <1>2 DEF Queues
<1>5. \A k, l \in 1 .. a : arrivals[k] = arrivals[l] => k = l
  BY <1>3 DEF Queues, IsInjective
<1>6. i \in 1 .. a /\ j \in 1 .. a
  BY <1>3
<1>7. j <= a - w - t + 1
  <2>1. CASE arrivals[j] \in Taken
    <3>1. SUFFICES ASSUME j > a - w - t PROVE FALSE
      BY <1>4, <1>6
    <3>2. CASE j > a - w
      <4>1. j - (a - w) \in 1 .. w /\ a - w + (j - (a - w)) = j
        BY <1>4, <1>6, <3>2
      <4>2. waiting[j - (a - w)] = arrivals[j]
        BY <1>4, <4>1
      <4>3. arrivals[j] \in Range(waiting)
        BY <1>3, <4>1, <4>2 DEF Range
      <4> QED BY <2>1, <4>3 DEF Taken
    <3>3. CASE j <= a - w
      <4>1. j - (a - w - t) \in 1 .. t /\ a - w - t + (j - (a - w - t)) = j
        BY <1>4, <1>6, <3>1, <3>3
      <4>2. toPrefill[j - (a - w - t)] = arrivals[j]
        BY <1>4, <4>1
      <4>3. arrivals[j] \in Range(toPrefill)
        BY <1>3, <4>1, <4>2 DEF Range
      <4> QED BY <2>1, <4>3 DEF Taken
    <3> QED BY <1>6, <3>2, <3>3
  <2>2. CASE toPrefill # <<>> /\ arrivals[j] = Head(toPrefill)
    <3>1. t >= 1 /\ arrivals[j] = toPrefill[1]
      BY <1>1, <1>2, <2>2, HeadTailProperties
    <3>2. 1 \in 1 .. t /\ a - w - t + 1 \in 1 .. a
      BY <1>4, <3>1
    <3>3. arrivals[j] = arrivals[a - w - t + 1]
      BY <1>4, <3>1, <3>2
    <3>4. j = a - w - t + 1
      BY <1>5, <1>6, <3>2, <3>3
    <3> QED BY <1>4, <1>6, <3>4
  <2> QED BY <2>1, <2>2
<1>8. i <= a - w - t
  BY <1>4, <1>6, <1>7
<1>9. arrivals[i] \notin Range(waiting)
  <2> SUFFICES ASSUME NEW k \in 1 .. w, arrivals[i] = waiting[k] PROVE FALSE
    BY <1>3 DEF Range
  <2>1. a - w + k \in 1 .. a /\ a - w + k # i
    BY <1>4, <1>6, <1>8
  <2> QED BY <1>4, <1>5, <1>6, <2>1
<1>10. arrivals[i] \notin Range(toPrefill)
  <2> SUFFICES ASSUME NEW k \in 1 .. t, arrivals[i] = toPrefill[k] PROVE FALSE
    BY <1>3 DEF Range
  <2>1. a - w - t + k \in 1 .. a /\ a - w - t + k # i
    BY <1>4, <1>6, <1>8
  <2> QED BY <1>4, <1>5, <1>6, <2>1
<1>11. arrivals[i] \in Range(arrivals)
  BY DEF Range
<1> QED BY <1>9, <1>10, <1>11 DEF Taken

\* Only those taken, and the one whose prefill is being answered, have tokens.
LEMMA StartedAreTaken ==
    ASSUME IInv, NEW s \in Range(arrivals), stream[s] # <<>>
    PROVE  s \in Taken \/ (toPrefill # <<>> /\ s = Head(toPrefill))
<1> USE DEF IInv
<1>1. s \in Requests
  BY QueueFacts
<1>2. status[s] # "WAITING"
  <2>1. stream[s] \in Seq(Nat)
    BY <1>1 DEF Types
  <2>2. Len(stream[s]) # 0
    BY <2>1
  <2> QED BY <1>1, <2>2 DEF Books, Book
<1>3. s \notin Range(waiting)
  BY <1>2 DEF Members
<1>4. CASE s \in Range(toPrefill)
  BY <1>2, <1>4, RangeEmpty DEF Members, Begun
<1>5. CASE s \notin Range(toPrefill)
  BY <1>3, <1>5 DEF Taken
<1> QED BY <1>4, <1>5

\* The reverse of a sequence.
LEMMA ReverseType ==
    ASSUME NEW S, NEW s \in Seq(S)
    PROVE  /\ Reverse(s) \in Seq(S) /\ Len(Reverse(s)) = Len(s)
           /\ \A i \in 1 .. Len(s) : Reverse(s)[i] = s[(Len(s) - i) + 1]
<1>1. PICK n \in Nat : n = Len(s) /\ \A i \in 1 .. n : s[i] \in S
  BY RangeType
<1>2. PICK u : u = [i \in 1 .. n |-> s[(n - i) + 1]]
  OBVIOUS
<1>3. \A i \in 1 .. n : (n - i) + 1 \in 1 .. n
  OBVIOUS
<1>4. u \in [1 .. n -> S]
  BY <1>1, <1>2, <1>3
<1>5. u = Reverse(s)
  BY <1>1, <1>2 DEF Reverse
<1> QED BY <1>1, <1>2, <1>4, <1>5

\* to_prefill and then the queue are the end of arrivals.
LEMMA QueuedArrivedLast ==
    ASSUME Types, Queues
    PROVE  IsSuffix(toPrefill \o waiting, arrivals)
<1>1. /\ waiting \in Seq(Requests) /\ toPrefill \in Seq(Requests)
      /\ arrivals \in Seq(Requests)
  BY DEF Types
<1>2. PICK q \in Seq(Requests) : q = toPrefill \o waiting
  BY <1>1, ConcatProperties
<1>3. PICK a \in Nat, w \in Nat, t \in Nat :
          a = Len(arrivals) /\ w = Len(waiting) /\ t = Len(toPrefill)
  BY <1>1, RangeType
<1>4. /\ Len(q) = t + w
      /\ \A i \in 1 .. t + w : q[i] = IF i <= t THEN toPrefill[i] ELSE waiting[i - t]
  BY <1>1, <1>2, <1>3, ConcatProperties
<1>5. /\ t + w <= a
      /\ \A i \in 1 .. w : waiting[i] = arrivals[a - w + i]
      /\ \A i \in 1 .. t : toPrefill[i] = arrivals[a - w - t + i]
  BY <1>3 DEF Queues
<1>6. ASSUME NEW i \in 1 .. t + w
      PROVE  q[i] = arrivals[a - w - t + i]
  <2>1. CASE i <= t
    <3>1. i \in 1 .. t
      BY <2>1
    <3> QED BY <1>4, <1>5, <1>6, <2>1, <3>1
  <2>2. CASE ~ (i <= t)
    <3>1. i - t \in 1 .. w /\ a - w + (i - t) = a - w - t + i
      BY <1>6, <2>2
    <3>2. waiting[i - t] = arrivals[a - w + (i - t)]
      BY <1>5, <3>1
    <3> QED BY <1>4, <1>6, <2>2, <3>1, <3>2
  <2> QED BY <2>1, <2>2
<1>7. PICK u \in Seq(Requests) : u = Reverse(q)
  BY <1>2, ReverseType
<1>8. PICK v \in Seq(Requests) : v = Reverse(arrivals)
  BY <1>1, ReverseType
<1>9. /\ Len(u) = t + w /\ Len(v) = a
      /\ \A i \in 1 .. t + w : u[i] = q[t + w - i + 1]
      /\ \A i \in 1 .. a : v[i] = arrivals[a - i + 1]
  <2>1. /\ Len(u) = Len(q)
        /\ \A i \in 1 .. Len(q) : u[i] = q[(Len(q) - i) + 1]
    BY <1>7, ReverseType
  <2>2. /\ Len(v) = Len(arrivals)
        /\ \A i \in 1 .. Len(arrivals) : v[i] = arrivals[(Len(arrivals) - i) + 1]
    BY <1>1, <1>8, ReverseType
  <2> QED BY <1>3, <1>4, <2>1, <2>2
<1>10. ASSUME NEW i \in 1 .. t + w PROVE u[i] = v[i]
  <2>1. t + w - i + 1 \in 1 .. t + w /\ a - w - t + (t + w - i + 1) = a - i + 1
    BY <1>5, <1>10
  <2>2. i \in 1 .. a
    BY <1>5, <1>10
  <2>3. q[t + w - i + 1] = arrivals[a - w - t + (t + w - i + 1)]
    BY <1>6, <2>1
  <2> QED BY <1>9, <2>1, <2>2, <2>3
<1>11. SubSeq(u, 1, t + w) = SubSeq(v, 1, t + w)
  <2>1. SubSeq(u, 1, t + w) = [i \in 1 .. t + w |-> u[i]]
    BY <1>9
  <2>2. SubSeq(v, 1, t + w) = [i \in 1 .. t + w |-> v[i]]
    BY <1>5, <1>9
  <2> QED BY <1>10, <2>1, <2>2
<1>12. IsPrefix(u, v)
  BY <1>5, <1>9, <1>11 DEF IsPrefix
<1> QED BY <1>2, <1>7, <1>8, <1>12 DEF IsSuffix

LEMMA InOrderOfArrival == IInv => FirstComeFirstServed
<1> SUFFICES ASSUME IInv PROVE FirstComeFirstServed
  OBVIOUS
<1>1. IsSuffix(toPrefill \o waiting, arrivals)
  BY QueuedArrivedLast DEF IInv
<1>2. ASSUME NEW r \in Range(arrivals), NEW s \in Range(arrivals),
             Earlier(r, s), stream[s] # <<>>
      PROVE  \/ stream[r] # <<>>
             \/ failures > 0 /\ r \notin Range(toPrefill \o waiting)
  <2>1. PICK i \in DOMAIN arrivals, j \in DOMAIN arrivals :
            i < j /\ arrivals[i] = r /\ arrivals[j] = s
    BY <1>2 DEF Earlier
  <2>2. arrivals[j] \in Taken \/ (toPrefill # <<>> /\ arrivals[j] = Head(toPrefill))
    BY <1>2, <2>1, StartedAreTaken
  <2>3. r \in Taken
    BY <2>1, <2>2, TakenArePrefix DEF IInv
  <2>4. Range(toPrefill \o waiting) = Range(waiting) \cup Range(toPrefill)
    <3>1. /\ IsInjective(waiting) /\ IsInjective(toPrefill)
          /\ Range(toPrefill) \cap Range(waiting) = {}
      BY QueueFacts DEF IInv
    <3>2. waiting \in Seq(Requests) /\ toPrefill \in Seq(Requests)
      BY DEF IInv, Types
    <3> QED BY <3>1, <3>2, ConcatRange
  <2>5. r \notin Range(toPrefill \o waiting)
    BY <2>3, <2>4 DEF Taken
  <2>6. failures = 0 => stream[r] # <<>>
    BY <2>3 DEF IInv, NobodyDropped
  <2>7. failures = 0 \/ failures > 0
    BY DEF IInv, Types
  <2> QED BY <2>5, <2>6, <2>7
<1> QED BY <1>1, <1>2 DEF FirstComeFirstServed

\* Those whose prefill is to come are the last to have arrived, in that order, whatever
\* raises; and first come, first served, but for those whom a raising call dropped
\* (scheduler.py, _step_batched and _step_baseline).
THEOREM ServedInOrder == Spec => []FirstComeFirstServed
BY Inductive, InOrderOfArrival, PTL

----------------------------------------------------------------------------
\* The batch from one step to the next.

\* AdvanceTogether's step.
Advance == \A r \in Range(Decoding) :
              \/ status'[r] = "FINISHED"
              \/ /\ r \in Range(Decoding)'
                 /\ Due(r)' = Due(r) + IF pc = "decode" /\ pc' = "emitDecode" THEN 1 ELSE 0

LEMMA BatchIsNext == IInv' => Range(Decoding)' = InBatch'
<1>1. IInv => Range(Decoding) = InBatch
  BY BatchIs
<1>2. IInv' => (Range(Decoding) = InBatch)'
  BY <1>1, PTL
<1> QED BY <1>2

\* Steps that give nobody in the batch a token.
LEMMA AdvanceAside ==
    ASSUME IInv, IInv', pc # "emitDecode", pc' # "emitDecode",
           \A r \in Range(running) : r \in Range(running') /\ numOutput'[r] = numOutput[r]
    PROVE  Advance
<1>1. Range(Decoding) = Range(running) /\ Range(Decoding)' = Range(running')
  BY BatchIs, BatchIsNext DEF InBatch
<1>2. ASSUME NEW r \in Range(running) PROVE Due(r)' = Due(r) + 0
  <2>1. numOutput[r] \in Nat
    BY RangeType DEF IInv, Types
  <2> QED BY <1>2, <2>1 DEF Due
<1> QED BY <1>1, <1>2 DEF Advance

\* The token of a prefill goes to one who is not in the batch yet.
LEMMA AdvanceEmitHead ==
    ASSUME IInv, IInv', EmitPrefill \/ EmitAlone
    PROVE  Advance
<1>0. PICK h : h = Head(toPrefill)
  OBVIOUS
<1>1. /\ pc = "prefilled" /\ pc' # "emitDecode" /\ toPrefill # <<>>
      /\ numOutput' = [numOutput EXCEPT ![h] = @ + 1]
      /\ running' = running \/ running' = Append(running, h)
  BY <1>0 DEF EmitPrefill, EmitAlone, FinishRequest, KeepGoing, Join, IInv, Control
<1>2. h \in Requests /\ h \notin Range(running)
  BY <1>0, <1>1, HeadOfPrefill DEF InBatch
<1>3. running \in Seq(Requests) /\ Range(running) \subseteq Requests
  BY RangeType DEF IInv, Types
<1>4. ASSUME NEW r \in Range(running) PROVE r \in Range(running') /\ numOutput'[r] = numOutput[r]
  <2>1. Range(Append(running, h)) = Range(running) \cup {h}
    BY <1>2, <1>3, AppendRange
  <2>2. r \in Range(running')
    BY <1>1, <2>1
  <2>3. r \in Requests /\ r # h
    BY <1>2, <1>3
  <2> QED BY <1>1, <2>2, <2>3 DEF IInv, Types
<1> QED BY <1>1, <1>4, AdvanceAside

\* The forward pass: one token is due to each.
LEMMA AdvanceDecode ==
    ASSUME IInv, IInv', Decode
    PROVE  Advance
<1>1. /\ pc = "decode" /\ pc' = "emitDecode" /\ batch' = running
      /\ numOutput' = numOutput
  BY DEF Decode
<1>2. Range(Decoding) = Range(running) /\ Range(running) \subseteq Range(Decoding)'
  BY <1>1, BatchIs, BatchIsNext DEF InBatch
<1>3. ASSUME NEW r \in Range(running) PROVE Due(r)' = Due(r) + 1
  <2>1. numOutput[r] \in Nat
    BY RangeType DEF IInv, Types
  <2>2. Due(r) = numOutput[r] + 0
    BY <1>1 DEF Due
  <2>3. Due(r)' = numOutput[r] + 1
    BY <1>1, <1>3 DEF Due
  <2> QED BY <2>1, <2>2, <2>3
<1> QED BY <1>1, <1>2, <1>3 DEF Advance

\* The zip: what was due is given.
LEMMA AdvanceEmitDecode ==
    ASSUME IInv, IInv', EmitDecode
    PROVE  Advance
<1>0. PICK h : h = Head(batch)
  OBVIOUS
<1>1. /\ pc = "emitDecode" /\ batch # <<>> /\ batch' = Tail(batch) /\ pc' = pc
      /\ UNCHANGED <<running, toPrefill>>
      /\ numOutput' = [numOutput EXCEPT ![h] = @ + 1]
      /\ \/ FinishRequest(h, NextToken(h)) /\ stillRunning' = stillRunning
         \/ KeepGoing(h, NextToken(h)) /\ stillRunning' = Append(stillRunning, h)
  BY <1>0 DEF EmitDecode, FinishRequest, KeepGoing
<1>2. h \in Requests
  BY <1>0, <1>1, TailRange DEF IInv, Types
<1>3. /\ numOutput' \in [Requests -> Nat] /\ numOutput'[h] = numOutput[h] + 1
      /\ numOutput[h] \in Nat
      /\ \A s \in Requests \ {h} : numOutput'[s] = numOutput[s]
  BY <1>1, <1>2 DEF IInv, Types
<1>4. /\ h \in Range(batch) /\ h \notin Range(batch') /\ h \notin Range(stillRunning)
      /\ Range(batch) = Range(batch') \cup {h}
      /\ \/ stillRunning' = stillRunning
         \/ /\ stillRunning' = Append(stillRunning, h)
            /\ Range(stillRunning') = Range(stillRunning) \cup {h}
  BY <1>0, <1>1, <1>2, <1>3, EmitDecodeRows
<1>5. /\ Range(Decoding) = Range(batch) \cup Range(stillRunning)
      /\ Range(Decoding)' = Range(batch') \cup Range(stillRunning')
  BY <1>1, BatchIs, BatchIsNext DEF InBatch
<1>6. status'[h] = "FINISHED" \/ h \in Range(stillRunning')
  <2>1. CASE FinishRequest(h, NextToken(h))
    BY <1>2, <2>1 DEF FinishRequest, IInv, Types
  <2>2. CASE stillRunning' = Append(stillRunning, h)
    <3>1. Range(Append(stillRunning, h)) = Range(stillRunning) \cup {h}
      BY <1>2, AppendRange DEF IInv, Types
    <3> QED BY <2>2, <3>1
  <2> QED BY <1>1, <2>1, <2>2
<1>7. ASSUME NEW r \in Range(Decoding)
      PROVE  /\ status'[r] = "FINISHED" \/ r \in Range(Decoding)'
             /\ Due(r)' = Due(r) + 0
  <2>1. r \in Requests /\ numOutput[r] \in Nat
    <3>1. Decoding \in Seq(Requests)
      BY BatchIs
    <3> QED BY <3>1, <1>7, RangeType DEF IInv, Types
  <2>2. status'[r] = "FINISHED" \/ r \in Range(Decoding)'
    BY <1>4, <1>5, <1>6, <1>7
  <2>3. CASE r = h
    <3>1. Due(r) = numOutput[r] + 1
      BY <1>1, <1>4, <2>3 DEF Due
    <3>2. Due(r)' = numOutput'[r] + 0
      BY <1>1, <1>4, <2>3 DEF Due
    <3> QED BY <1>3, <2>1, <2>2, <2>3, <3>1, <3>2
  <2>4. CASE r # h
    <3>1. r \in Range(batch) <=> r \in Range(batch')
      BY <1>4, <2>4
    <3>2. numOutput'[r] = numOutput[r]
      BY <1>3, <2>1, <2>4
    <3>3. Due(r)' = Due(r) /\ Due(r) \in Nat
      BY <1>1, <2>1, <3>1, <3>2 DEF Due
    <3> QED BY <2>2, <3>3
  <2> QED BY <2>3, <2>4
<1> QED BY <1>1, <1>7 DEF Advance

\* The zip is done: those that go on are running.
LEMMA AdvanceEndDecode ==
    ASSUME IInv, IInv', EndDecode
    PROVE  Advance
<1>1. /\ pc = "emitDecode" /\ batch = <<>> /\ running' = stillRunning /\ pc' = "loop"
      /\ numOutput' = numOutput
  BY DEF EndDecode, requestVars
<1>2. Range(Decoding) = Range(stillRunning) /\ Range(Decoding)' = Range(stillRunning)
  BY <1>1, BatchIs, BatchIsNext, RangeEmpty DEF InBatch
<1>3. ASSUME NEW r \in Range(stillRunning) PROVE Due(r)' = Due(r) + 0
  <2>1. numOutput[r] \in Nat
    BY RangeType DEF IInv, Types
  <2>2. r \notin Range(batch)
    BY <1>1, RangeEmpty
  <2> QED BY <1>1, <2>1, <2>2 DEF Due
<1> QED BY <1>1, <1>2, <1>3 DEF Advance

LEMMA StepAdvances == IInv /\ IInv' /\ [Next]_vars => Advance
<1> SUFFICES ASSUME IInv, IInv', [Next]_vars PROVE Advance
  OBVIOUS
<1>1. CASE UNCHANGED <<numOutput, running, batch, stillRunning, pc>>
  <2>1. InBatch' = InBatch
    BY <1>1 DEF InBatch
  <2>2. \A r : Due(r)' = Due(r)
    BY <1>1 DEF Due
  <2>3. \A r \in Range(Decoding) : Due(r) \in Nat
    <3>1. Range(Decoding) \subseteq Requests
      BY BatchIs, RangeType
    <3>2. \A r \in Range(Decoding) : numOutput[r] \in Nat
      BY <3>1 DEF IInv, Types
    <3> QED BY <3>2 DEF Due
  <2>4. Range(Decoding)' = Range(Decoding)
    BY <2>1, BatchIs, BatchIsNext
  <2>5. ~ (pc = "decode" /\ pc' = "emitDecode")
    BY <1>1
  <2> QED BY <2>2, <2>3, <2>4, <2>5 DEF Advance
<1>2. CASE /\ UNCHANGED <<numOutput, running>>
           /\ pc # "emitDecode" /\ pc' # "emitDecode"
  BY <1>2, AdvanceAside
<1>3. CASE Quiet
  BY <1>1, <1>2, <1>3, QuietChanges
<1>4. CASE (\E r \in Requests : AddRequest(r)) \/ BeginStep \/ TakeOne
  BY <1>1, <1>2, <1>4 DEF AddRequest, BeginStep, TakeOne, requestVars, localVars
<1>5. CASE Prefill \/ PrefillFails \/ DecodeFails \/ DecodeAlone \/ DecodeAloneFails
  BY <1>2, <1>5 DEF Prefill, PrefillFails, DecodeFails, DecodeAlone, DecodeAloneFails, Fail
<1> QED BY <1>3, <1>4, <1>5, AdvanceEmitHead, AdvanceDecode, AdvanceEmitDecode,
           AdvanceEndDecode
        DEF Next, SchedulerStep, BatchedStep, BaselineStep, Quiet

\* Each forward pass gives every request of the batch one token, nothing else gives
\* any of them one, and none leaves the batch before it is finished
\* (_step_batched's zip over running and next_tokens), whatever else happens.
THEOREM AdvanceInStep == Spec => AdvanceTogether
<1>1. IInv /\ IInv' /\ [Next]_vars => [Advance]_vars
  BY StepAdvances
<1> QED BY <1>1, Inductive, PTL DEF Spec, AdvanceTogether, Advance

----------------------------------------------------------------------------
\* How many requests have begun and not ended.

\* The requests of a list are finitely many, no more than its length.
LEMMA RowsAreFinite ==
    ASSUME NEW s \in Seq(Requests)
    PROVE  /\ Range(s) \in SUBSET Requests /\ IsFiniteSet(Range(s))
           /\ Cardinality(Range(s)) <= Len(s)
<1>1. /\ Range(s) \subseteq Requests /\ DOMAIN s = 1 .. Len(s) /\ Len(s) \in Nat
      /\ \A i \in 1 .. Len(s) : s[i] \in Range(s)
      /\ \A e \in Range(s) : \E i \in 1 .. Len(s) : e = s[i]
  BY RangeType
<1>2. s \in [1 .. Len(s) -> Range(s)]
  BY <1>1
<1>3. s \in Surjection(1 .. Len(s), Range(s))
  BY <1>1, <1>2 DEF Surjection
<1>4. IsFiniteSet(1 .. Len(s)) /\ Cardinality(1 .. Len(s)) = Len(s)
  <2>1. 1 \in Int /\ Len(s) \in Int
    BY <1>1
  <2> QED BY <1>1, <2>1, FS_Interval
<1>5. IsFiniteSet(Range(s)) /\ Cardinality(Range(s)) <= Cardinality(1 .. Len(s))
  BY <1>3, <1>4, FS_Surjection
<1> QED BY <1>1, <1>4, <1>5

\* The requests that a raising call has made the scheduler forget.
Stranded == {r \in Requests : status[r] = "RUNNING" /\ r \notin InBatch /\ ~ Begun(r)}

StrandedCounted == IsFiniteSet(Stranded) /\ Cardinality(Stranded) <= failures

LEMMA OneMoreStranded ==
    ASSUME IInv, StrandedCounted, NEW r,
           \/ Stranded' \subseteq Stranded /\ failures' \in {failures, failures + 1}
           \/ Stranded' \subseteq Stranded \cup {r} /\ failures' = failures + 1
    PROVE  StrandedCounted'
<1>1. PICK old, new : old = Stranded /\ new = Stranded'
  OBVIOUS
<1>2. IsFiniteSet(old) /\ Cardinality(old) <= failures /\ failures \in Nat
  BY <1>1 DEF StrandedCounted, IInv, Types
<1>3. Cardinality(old) \in Nat
  BY <1>2, FS_CardinalityType
<1>4. CASE new \subseteq old /\ failures' \in {failures, failures + 1}
  <2>1. IsFiniteSet(new) /\ Cardinality(new) <= Cardinality(old)
    BY <1>2, <1>4, FS_Subset
  <2>2. Cardinality(new) \in Nat
    BY <2>1, FS_CardinalityType
  <2>3. Cardinality(new) <= failures'
    BY <1>2, <1>3, <1>4, <2>1, <2>2
  <2> QED BY <1>1, <2>1, <2>3 DEF StrandedCounted
<1>5. CASE new \subseteq old \cup {r} /\ failures' = failures + 1
  <2>1. /\ IsFiniteSet(old \cup {r})
        /\ Cardinality(old \cup {r}) = IF r \in old THEN Cardinality(old) ELSE Cardinality(old) + 1
    BY <1>2, FS_AddElement
  <2>2. IsFiniteSet(new) /\ Cardinality(new) <= Cardinality(old \cup {r})
    BY <1>5, <2>1, FS_Subset
  <2>3. Cardinality(new) \in Nat
    BY <2>2, FS_CardinalityType
  <2>4. Cardinality(old \cup {r}) \in Nat /\ Cardinality(old \cup {r}) <= Cardinality(old) + 1
    BY <1>3, <2>1
  <2>5. Cardinality(new) <= failures'
    BY <1>2, <1>3, <1>5, <2>2, <2>3, <2>4
  <2> QED BY <1>1, <2>2, <2>5 DEF StrandedCounted
<1> QED BY <1>1, <1>4, <1>5

\* Steps that begin and end no request, and drop none from the batch.
LEMMA NoneStranded ==
    ASSUME IInv, StrandedCounted, status' = status, failures' \in {failures, failures + 1},
           InBatch \subseteq InBatch', \A r : Begun(r) => Begun(r)'
    PROVE  StrandedCounted'
<1>1. Stranded' \subseteq Stranded
  BY DEF Stranded
<1> QED BY <1>1, OneMoreStranded

\* A prefill, and a decoding alone that raises.
LEMMA HeadIsStranded ==
    ASSUME IInv, StrandedCounted, Prefill \/ PrefillFails \/ DecodeAloneFails
    PROVE  StrandedCounted'
<1>0. PICK h : h = Head(toPrefill)
  OBVIOUS
<1>1. /\ pc \in {"prefill", "decodeAlone"} /\ pc' # "emitDecode"
      /\ running' = running /\ toPrefill # <<>> /\ h \in Requests
  BY <1>0, HeadOfPrefill
     DEF Prefill, PrefillFails, DecodeAloneFails, Fail, IInv, Control
<1>2. InBatch' = InBatch
  BY <1>1 DEF InBatch
<1>3. \A q \in Requests \ {h} : status'[q] = status[q] /\ ~ Begun(q)
  BY <1>0, <1>1
     DEF Prefill, PrefillFails, DecodeAloneFails, IInv, Types, Begun
<1>4. Stranded' \subseteq Stranded \cup {h}
  BY <1>2, <1>3 DEF Stranded
<1>5. CASE Prefill
  <2>1. Begun(h)'
    BY <1>0, <1>5 DEF Begun, Prefill, localVars
  <2>2. h \notin Stranded' /\ failures' = failures
    BY <1>5, <2>1 DEF Stranded, Prefill
  <2>3. Stranded' \subseteq Stranded
    BY <1>4, <2>2
  <2> QED BY <2>2, <2>3, OneMoreStranded
<1>6. CASE PrefillFails \/ DecodeAloneFails
  <2>1. failures' = failures + 1
    BY <1>6 DEF PrefillFails, DecodeAloneFails, Fail
  <2> QED BY <1>4, <2>1, OneMoreStranded
<1> QED BY <1>5, <1>6

\* A token: the request ends, joins the batch or goes on.
LEMMA TokenStrandsNobody ==
    ASSUME IInv, IInv', StrandedCounted, EmitPrefill \/ EmitAlone \/ EmitDecode
    PROVE  StrandedCounted'
<1>0. PICK h : h = IF EmitDecode THEN Head(batch) ELSE Head(toPrefill)
  OBVIOUS
<1>1. /\ h \in Requests
      /\ FinishRequest(h, NextToken(h)) \/ KeepGoing(h, NextToken(h))
      /\ EmitDecode => h \in Range(batch)
      /\ ~ EmitDecode => h = Head(toPrefill)
  <2>1. CASE EmitDecode
    <3>1. batch # <<>> /\ batch \in Seq(Requests) /\ h = Head(batch)
      BY <1>0, <2>1 DEF EmitDecode, IInv, Types
    <3>2. h \in Requests /\ h \in Range(batch)
      BY <3>1, TailRange
    <3> QED BY <2>1, <3>1, <3>2 DEF EmitDecode
  <2>2. CASE ~ EmitDecode
    <3>1. toPrefill # <<>> /\ h = Head(toPrefill)
      BY <1>0, <2>2 DEF EmitPrefill, EmitAlone, IInv, Control
    <3> QED BY <2>2, <3>1, HeadOfPrefill DEF EmitPrefill, EmitAlone
  <2> QED BY <2>1, <2>2
<1>2. /\ failures' = failures
      /\ \A q \in Requests \ {h} : status'[q] = status[q]
      /\ FinishRequest(h, NextToken(h)) => status'[h] = "FINISHED"
  <2>1. failures' = failures
    BY DEF EmitPrefill, EmitAlone, EmitDecode
  <2>2. DOMAIN status = Requests
    BY DEF IInv, Types
  <2>3. CASE FinishRequest(h, NextToken(h))
    BY <1>1, <2>1, <2>2, <2>3 DEF FinishRequest
  <2>4. CASE KeepGoing(h, NextToken(h)) /\ ~ FinishRequest(h, NextToken(h))
    BY <2>1, <2>4 DEF KeepGoing
  <2> QED BY <1>1, <2>3, <2>4
<1>3. Advance
  BY StepAdvances DEF Next, SchedulerStep, BatchedStep, BaselineStep
<1>4. \A q \in InBatch : status'[q] = "FINISHED" \/ q \in InBatch'
  BY <1>3, BatchIs, BatchIsNext DEF Advance
<1>5. \/ status'[h] = "FINISHED" \/ h \in InBatch' \/ Begun(h)'
  <2>1. CASE FinishRequest(h, NextToken(h))
    BY <1>2, <2>1
  <2>2. CASE EmitDecode
    <3>1. h \in InBatch
      BY <1>1, <2>2 DEF EmitDecode, InBatch
    <3> QED BY <1>4, <3>1
  <2>3. CASE EmitPrefill /\ ~ EmitDecode /\ ~ FinishRequest(h, NextToken(h))
    <3>1. h = Head(toPrefill) /\ pc' = "prefill"
      BY <1>1, <2>3 DEF EmitPrefill
    <3>2. running' = Append(running, h)
      BY <2>3, <3>1 DEF EmitPrefill, Join
    <3>3. h \in Range(running')
      BY <1>1, <3>2, AppendRange DEF IInv, Types
    <3> QED BY <3>1, <3>3 DEF InBatch
  <2>4. CASE EmitAlone /\ ~ EmitDecode /\ ~ FinishRequest(h, NextToken(h))
    <3>1. h = Head(toPrefill)
      BY <1>1, <2>4
    <3>2. pc' = "decodeAlone" /\ toPrefill' = toPrefill
      BY <2>4, <3>1 DEF EmitAlone
    <3> QED BY <3>1, <3>2 DEF Begun
  <2> QED BY <2>1, <2>2, <2>3, <2>4
<1>6. ASSUME NEW q \in Requests, Begun(q) PROVE q = h
  <2>1. ~ EmitDecode /\ q = Head(toPrefill)
    BY <1>6 DEF Begun, EmitDecode
  <2> QED BY <1>1, <2>1
<1>7. ASSUME NEW q \in Stranded' PROVE q \in Stranded
  <2>1. q \in Requests /\ status'[q] = "RUNNING" /\ q \notin InBatch' /\ ~ Begun(q)'
    BY <1>7 DEF Stranded
  <2>2. q # h /\ q \notin InBatch
    BY <1>4, <1>5, <2>1
  <2>3. status[q] = "RUNNING" /\ ~ Begun(q)
    BY <1>2, <1>6, <2>1, <2>2
  <2> QED BY <2>1, <2>2, <2>3 DEF Stranded
<1>8. Stranded' \subseteq Stranded
  BY <1>7
<1> QED BY <1>2, <1>8, OneMoreStranded

LEMMA StrandedStep == IInv /\ IInv' /\ StrandedCounted /\ [Next]_vars => StrandedCounted'
<1> SUFFICES ASSUME IInv, IInv', StrandedCounted, [Next]_vars PROVE StrandedCounted'
  OBVIOUS
<1>1. CASE Quiet
  <2>1. /\ UNCHANGED <<status, failures, running, batch, stillRunning, toPrefill>>
        /\ \/ pc' = pc
           \/ pc \in {"unstarted", "loop", "prefill"} /\ pc' \in {"loop", "stopped", "decode"}
    BY <1>1, QuietChanges
  <2>2. InBatch' = InBatch /\ \A r : Begun(r) => Begun(r)'
    BY <2>1 DEF InBatch, Begun
  <2> QED BY <2>1, <2>2, NoneStranded
<1>2. CASE (\E r \in Requests : AddRequest(r)) \/ BeginStep \/ TakeOne
  <2>1. /\ UNCHANGED <<status, failures, running, batch, stillRunning>>
        /\ \/ pc' = pc /\ toPrefill' = toPrefill
           \/ pc = "loop" /\ pc' = "prefill"
    BY <1>2 DEF AddRequest, BeginStep, TakeOne, requestVars, localVars
  <2>2. InBatch' = InBatch /\ \A r : Begun(r) => Begun(r)'
    BY <2>1 DEF InBatch, Begun
  <2> QED BY <2>1, <2>2, NoneStranded
<1>3. CASE Decode \/ DecodeFails
  <2>1. /\ status' = status /\ failures' \in {failures, failures + 1} /\ pc = "decode"
        /\ \/ pc' = "emitDecode" /\ batch' = running
           \/ pc' = "loop" /\ running' = running
    BY <1>3 DEF Decode, DecodeFails, Fail
  <2>2. InBatch \subseteq InBatch' /\ \A r : Begun(r) => Begun(r)'
    BY <2>1 DEF InBatch, Begun
  <2> QED BY <2>1, <2>2, NoneStranded
<1>4. CASE EndDecode
  <2>1. /\ status' = status /\ failures' = failures /\ pc = "emitDecode" /\ pc' = "loop"
        /\ batch = <<>> /\ running' = stillRunning
    BY <1>4 DEF EndDecode, requestVars
  <2>2. InBatch \subseteq InBatch' /\ \A r : Begun(r) => Begun(r)'
    BY <2>1, RangeEmpty DEF InBatch, Begun
  <2> QED BY <2>1, <2>2, NoneStranded
<1>5. CASE DecodeAlone
  <2>1. /\ status' = status /\ failures' = failures /\ pc = "decodeAlone"
        /\ pc' = "prefilled" /\ UNCHANGED <<running, toPrefill>>
    BY <1>5 DEF DecodeAlone, localVars
  <2>2. InBatch' = InBatch /\ \A r : Begun(r) => Begun(r)'
    BY <2>1 DEF InBatch, Begun
  <2> QED BY <2>1, <2>2, NoneStranded
<1> QED BY <1>1, <1>2, <1>3, <1>4, <1>5, HeadIsStranded, TokenStrandsNobody
        DEF Next, SchedulerStep, BatchedStep, BaselineStep, Quiet

\* The requests in the batch and the one being prefilled or decoded alone.
LEMMA ActiveFit ==
    ASSUME IInv
    PROVE  \E active : /\ IsFiniteSet(active)
                       /\ Cardinality(active) <= IF mode = "baseline" THEN 1 ELSE MaxRunning
                       /\ \A r \in Requests : r \in InBatch \/ Begun(r) => r \in active
<1>1. /\ running \in Seq(Requests) /\ batch \in Seq(Requests)
      /\ stillRunning \in Seq(Requests) /\ toPrefill \in Seq(Requests)
      /\ Len(running) \in Nat /\ Len(batch) \in Nat /\ Len(stillRunning) \in Nat
      /\ Len(toPrefill) \in Nat /\ MaxRunning \in Nat
      /\ Len(running) + Len(toPrefill) <= MaxRunning
      /\ Len(batch) + Len(stillRunning) <= Len(running)
  BY BatchedAssumption DEF IInv, Types, Rows
<1>2. SUFFICES \E rows \in Seq(Requests) :
                  /\ Len(rows) <= IF mode = "baseline" THEN 1 ELSE MaxRunning
                  /\ \A r \in Requests : r \in InBatch \/ Begun(r) => r \in Range(rows)
  <2>1. PICK rows \in Seq(Requests) :
            /\ Len(rows) <= IF mode = "baseline" THEN 1 ELSE MaxRunning
            /\ \A r \in Requests : r \in InBatch \/ Begun(r) => r \in Range(rows)
    BY <1>2
  <2>2. IsFiniteSet(Range(rows)) /\ Cardinality(Range(rows)) <= Len(rows)
    BY RowsAreFinite
  <2>3. Cardinality(Range(rows)) \in Nat /\ Len(rows) \in Nat
    BY <2>2, FS_CardinalityType
  <2>4. Cardinality(Range(rows)) <= IF mode = "baseline" THEN 1 ELSE MaxRunning
    BY <1>1, <2>1, <2>2, <2>3
  <2> QED BY <2>1, <2>2, <2>4
<1>3. CASE pc = "emitDecode"
  <2>1. PICK rows \in Seq(Requests) : rows = batch \o stillRunning
    BY <1>1, ConcatProperties
  <2>2. Len(rows) = Len(batch) + Len(stillRunning)
        /\ Range(rows) = Range(batch) \cup Range(stillRunning)
    BY <1>1, <2>1, ConcatRange
  <2>3. mode # "baseline" /\ \A r : ~ Begun(r)
    BY <1>3 DEF IInv, Control, Begun
  <2>4. Len(rows) <= MaxRunning
    BY <1>1, <2>2
  <2>5. \A r \in Requests : r \in InBatch \/ Begun(r) => r \in Range(rows)
    BY <1>3, <2>2, <2>3 DEF InBatch
  <2> QED BY <2>3, <2>4, <2>5
<1>4. CASE pc \in {"prefilled", "decodeAlone"}
  <2>1. toPrefill # <<>> /\ (mode = "baseline" => Len(running) = 0)
    BY <1>4 DEF IInv, Control
  <2>2. Head(toPrefill) \in Requests /\ Len(toPrefill) >= 1
    BY <1>1, <2>1
  <2>3. PICK rows : rows = Append(running, Head(toPrefill))
    OBVIOUS
  <2>4. rows \in Seq(Requests) /\ Len(rows) = Len(running) + 1
    BY <1>1, <2>2, <2>3
  <2>5. Range(rows) = Range(running) \cup {Head(toPrefill)}
    BY <1>1, <2>2, <2>3, AppendRange
  <2>6. Len(rows) <= MaxRunning /\ (mode = "baseline" => Len(rows) <= 1)
    BY <1>1, <2>1, <2>2, <2>4
  <2>7. \A r \in Requests : r \in InBatch \/ Begun(r) => r \in Range(rows)
    BY <1>4, <2>5 DEF InBatch, Begun
  <2> QED BY <2>4, <2>6, <2>7
<1>5. CASE pc \notin {"emitDecode", "prefilled", "decodeAlone"}
  <2>1. mode = "baseline" => Len(running) = 0
    BY DEF IInv, Control
  <2>2. Len(running) <= MaxRunning
    BY <1>1
  <2>3. \A r \in Requests : r \in InBatch \/ Begun(r) => r \in Range(running)
    BY <1>5 DEF InBatch, Begun
  <2>4. Len(running) <= IF mode = "baseline" THEN 1 ELSE MaxRunning
    BY <1>1, <2>1, <2>2
  <2> QED BY <1>1, <2>3, <2>4
<1> QED BY <1>3, <1>4, <1>5

LEMMA FewBegun == IInv /\ StrandedCounted => BatchWithinLimits
<1> SUFFICES ASSUME IInv, StrandedCounted PROVE BatchWithinLimits
  OBVIOUS
<1>1. PICK limit \in Nat : limit = IF mode = "baseline" THEN 1 ELSE MaxRunning
  BY BatchedAssumption
<1>2. PICK active : /\ IsFiniteSet(active) /\ Cardinality(active) <= limit
                    /\ \A r \in Requests : r \in InBatch \/ Begun(r) => r \in active
  BY <1>1, ActiveFit
<1>3. PICK lost : lost = Stranded
  OBVIOUS
<1>4. /\ IsFiniteSet(lost) /\ Cardinality(lost) <= failures /\ failures \in Nat
  BY <1>3 DEF StrandedCounted, IInv, Types
<1>5. PICK begun : begun = {r \in Requests : status[r] = "RUNNING"}
  OBVIOUS
<1>6. begun \subseteq lost \cup active
  BY <1>2, <1>3, <1>5 DEF Stranded
<1>7. /\ IsFiniteSet(lost \cup active)
      /\ Cardinality(lost \cup active) =
            Cardinality(lost) + Cardinality(active) - Cardinality(lost \cap active)
  BY <1>2, <1>4, FS_Union
<1>8. IsFiniteSet(begun) /\ Cardinality(begun) <= Cardinality(lost \cup active)
  BY <1>6, <1>7, FS_Subset
<1>9. IsFiniteSet(lost \cap active)
  BY <1>4, FS_Intersection
<1>10. /\ Cardinality(begun) \in Nat /\ Cardinality(lost) \in Nat
       /\ Cardinality(active) \in Nat /\ Cardinality(lost \cap active) \in Nat
  BY <1>2, <1>4, <1>8, <1>9, FS_CardinalityType
<1>11. Cardinality(begun) <= failures + limit
  BY <1>2, <1>4, <1>7, <1>8, <1>10
<1> QED BY <1>1, <1>5, <1>11 DEF BatchWithinLimits

\* No more requests have begun and not ended than max_running, or in mode "baseline"
\* than one, but for one at most for each call that raised (_step_batched's
\* max_running - len(running), _step_baseline's single request).
THEOREM BatchesWithinLimits == Spec => []BatchWithinLimits
<1>1. Init => StrandedCounted
  <2> SUFFICES ASSUME Init PROVE StrandedCounted
    OBVIOUS
  <2>1. Stranded = {} /\ failures = 0
    BY DEF Init, Stranded
  <2> QED BY <2>1, FS_EmptySet DEF StrandedCounted
<1> QED BY <1>1, StrandedStep, Inductive, FewBegun, PTL DEF Spec

----------------------------------------------------------------------------
\* What clients see is a run of the abstract lifecycle.

\* The refinement mapping of Lifecycle: where a request is in its life.
phase == [r \in Requests |-> IF r \in Range(arrivals) THEN status[r] ELSE "new"]

\* add_request is Submit.
LEMMA AddIsSubmit ==
    ASSUME IInv, NEW r \in Requests, AddRequest(r)
    PROVE  Lifecycle!Submit(r)
<1>1. r \notin Range(arrivals) /\ UNCHANGED <<asked, status, stream>>
  BY DEF AddRequest, requestVars
<1>2. Range(arrivals') = Range(arrivals) \cup {r}
  BY QueuesAdd DEF IInv
<1>3. status[r] = "WAITING"
  BY <1>1 DEF IInv, Books, Book
<1>4. phase[r] = "new" /\ phase' = [phase EXCEPT ![r] = "WAITING"]
  BY <1>1, <1>2, <1>3 DEF phase
<1> QED BY <1>1, <1>4 DEF Lifecycle!Submit, phase

\* A prefill, also one that raises, is Start of its request.
LEMMA PrefillIsStart ==
    ASSUME IInv, Prefill \/ PrefillFails
    PROVE  \E S \in SUBSET Requests : Lifecycle!Start(S)
<1>0. PICK r : r = Head(toPrefill)
  OBVIOUS
<1>1. /\ pc = "prefill" /\ toPrefill # <<>>
      /\ status' = [status EXCEPT ![r] = "RUNNING"]
      /\ UNCHANGED <<asked, stream, arrivals>>
  BY <1>0 DEF Prefill, PrefillFails, Fail
<1>2. r \in Requests /\ r \in Range(arrivals) /\ status[r] = "WAITING"
  BY <1>0, <1>1, HeadOfPrefill DEF Begun
<1>3. PICK S \in SUBSET Requests : S = {r}
  BY <1>2
<1>4. /\ \A s \in S : phase[s] = "WAITING"
      /\ phase' = [s \in Requests |-> IF s \in S THEN "RUNNING" ELSE phase[s]]
  BY <1>1, <1>2, <1>3 DEF phase, IInv, Types
<1>5. Lifecycle!Start(S)
  BY <1>1, <1>4 DEF Lifecycle!Start, phase
<1> QED BY <1>5

\* A token is Emit or, with the end mark, EmitLast.
LEMMA TokenIsEmit ==
    ASSUME IInv, EmitPrefill \/ EmitAlone \/ EmitDecode
    PROVE  \E r \in Requests : Lifecycle!Emit(r) \/ Lifecycle!EmitLast(r)
<1>1. PICK r \in Requests : /\ status[r] = "RUNNING"
                            /\ FinishRequest(r, NextToken(r)) \/ KeepGoing(r, NextToken(r))
                            /\ arrivals' = arrivals
  <2>1. CASE EmitPrefill \/ EmitAlone
    <3>1. toPrefill # <<>> /\ pc = "prefilled"
      BY <2>1 DEF EmitPrefill, EmitAlone, IInv, Control
    <3>2. Head(toPrefill) \in Requests /\ status[Head(toPrefill)] = "RUNNING"
      BY <3>1, HeadOfPrefill DEF Begun
    <3> QED BY <2>1, <3>2 DEF EmitPrefill, EmitAlone
  <2>2. CASE EmitDecode
    <3>1. Head(batch) \in Requests /\ Head(batch) \in Range(batch)
      BY <2>2, TailRange DEF EmitDecode, IInv, Types
    <3>2. status[Head(batch)] = "RUNNING"
      BY <2>2, <3>1 DEF EmitDecode, IInv, Members, InBatch
    <3> QED BY <2>2, <3>1, <3>2 DEF EmitDecode
  <2> QED BY <2>1, <2>2
<1>2. /\ Len(stream[r]) = numOutput[r] /\ numOutput[r] < asked[r].maxNew
      /\ r \in Range(arrivals)
  BY <1>1 DEF IInv, Books, Book
<1>3. /\ NextToken(r) = Lifecycle!Token(r) /\ EndMark = Lifecycle!EndMark
      /\ numOutput[r] \in Nat /\ asked[r].maxNew \in Nat
  BY <1>2, AskedTyped DEF IInv, NextToken, LastPlace, Lifecycle!Token, EndMark,
                          Lifecycle!EndMark
<1>4. phase[r] = "RUNNING"
  BY <1>1, <1>2 DEF phase
<1>5. CASE FinishRequest(r, NextToken(r))
  <2>1. /\ status' = [status EXCEPT ![r] = "FINISHED"] /\ asked' = asked
        /\ stream' = [stream EXCEPT ![r] = @ \o <<Lifecycle!Token(r), Lifecycle!EndMark>>]
    BY <1>3, <1>5 DEF FinishRequest
  <2>2. phase' = [phase EXCEPT ![r] = "FINISHED"]
    BY <1>1, <1>2, <2>1 DEF phase, IInv, Types
  <2>3. Lifecycle!EmitLast(r)
    BY <1>2, <1>4, <2>1, <2>2 DEF Lifecycle!EmitLast, phase
  <2> QED BY <2>3
<1>6. CASE KeepGoing(r, NextToken(r))
  <2>1. /\ status' = status /\ asked' = asked
        /\ stream' = [stream EXCEPT ![r] = Append(@, Lifecycle!Token(r))]
    BY <1>3, <1>6 DEF KeepGoing
  <2>2. phase' = phase
    BY <1>1, <2>1 DEF phase
  <2>3. Len(stream[r]) + 1 < asked[r].maxNew
    BY <1>2, <1>3, <1>6 DEF KeepGoing, OutOfBudget
  <2>4. Lifecycle!Emit(r)
    BY <1>4, <2>1, <2>2, <2>3 DEF Lifecycle!Emit, phase
  <2> QED BY <2>4
<1> QED BY <1>1, <1>5, <1>6

\* Every behaviour of both modes is, for the clients, a behaviour of the lifecycle:
\* batches, the order of prefills and engine failures do not show in the streams.
THEOREM BatchedImplementsLifecycle == Spec => ImplementsLifecycle
<1>1. Init => Lifecycle!Init
  BY RangeEmpty DEF Init, Lifecycle!Init
<1>2. IInv /\ [Next]_vars => [Lifecycle!Next]_(Lifecycle!lifecycleVars)
  <2> SUFFICES ASSUME IInv, [Next]_vars
               PROVE  Lifecycle!Next \/ UNCHANGED <<asked, phase, stream>>
    BY DEF Lifecycle!lifecycleVars, phase
  <2>1. CASE \/ Quiet \/ BeginStep \/ TakeOne \/ Decode \/ EndDecode \/ DecodeAlone
             \/ DecodeFails \/ DecodeAloneFails
    <3>1. UNCHANGED <<asked, status, stream, arrivals>>
      <4>1. CASE Quiet
        BY <4>1, QuietChanges
      <4>2. CASE BeginStep \/ TakeOne \/ Decode \/ EndDecode \/ DecodeAlone
        BY <4>2 DEF BeginStep, TakeOne, Decode, EndDecode, DecodeAlone, requestVars
      <4>3. CASE DecodeFails \/ DecodeAloneFails
        BY <4>3 DEF DecodeFails, DecodeAloneFails, Fail
      <4> QED BY <2>1, <4>1, <4>2, <4>3
    <3> QED BY <3>1 DEF phase
  <2> QED BY <2>1, AddIsSubmit, PrefillIsStart, TokenIsEmit
          DEF Next, SchedulerStep, BatchedStep, BaselineStep, Quiet, Lifecycle!Next
<1> QED BY <1>1, <1>2, Inductive, PTL DEF Spec, ImplementsLifecycle, Lifecycle!Spec

----------------------------------------------------------------------------
\* The caches.  The masked, padded forward pass is what a decoding of every row alone
\* would be, and the caches cut out of it are the rows' own.

Keys == [of : Requests \cup {"padding"}, place : Nat, at : Nat]

\* max_cache_len is the length of a cache or more.
LEMMA LongestCache ==
    ASSUME cache \in [Requests -> Seq(Keys)], NEW rows \in SUBSET Requests,
           IsFiniteSet(rows)
    PROVE  /\ MaxCacheLen(cache, rows) \in Nat
           /\ \A r \in rows : Len(cache[r]) <= MaxCacheLen(cache, rows)
<1> DEFINE lens == {Len(cache[r]) : r \in rows}
           f == [r \in rows |-> Len(cache[r])]
<1>1. lens \in SUBSET Nat
  OBVIOUS
<1>2. IsFiniteSet(lens)
  <2>1. f \in Surjection(rows, lens)
    BY DEF Surjection
  <2> HIDE DEF f, lens
  <2> QED BY <2>1, FS_Surjection
<1> DEFINE all == lens \cup {0}
<1>3. all \in SUBSET Nat /\ all # {} /\ IsFiniteSet(all)
  <2> HIDE DEF lens
  <2>1. all \in SUBSET Nat /\ all # {}
    BY <1>1
  <2>2. IsFiniteSet(all)
    BY <1>2, FS_AddElement
  <2> QED BY <2>1, <2>2
<1>4. Max(all) \in all /\ \A y \in all : Max(all) >= y
  <2> HIDE DEF all
  <2> QED BY <1>3, MaxOfFinite
<1>5. \A r \in rows : Len(cache[r]) \in all
  OBVIOUS
<1>6. MaxCacheLen(cache, rows) = Max(all)
  BY DEF MaxCacheLen
<1> HIDE DEF all
<1>7. Max(all) \in Nat /\ \A r \in rows : Len(cache[r]) <= Max(all)
  BY <1>3, <1>4, <1>5
<1> QED BY <1>6, <1>7

\* The cache that a prefill leaves.
LEMMA PrefilledIs ==
    ASSUME NEW r \in Requests, NEW n \in Nat
    PROVE  /\ PrefilledCache(r, n) \in Seq(Keys)
           /\ Len(PrefilledCache(r, n)) = n
           /\ \A i \in 1 .. n : PrefilledCache(r, n)[i] = Key(r, i, i - 1)
<1>1. \A i \in 1 .. n : Key(r, i, i - 1) \in Keys
  BY DEF Key, Keys
<1> DEFINE c == [i \in 1 .. n |-> Key(r, i, i - 1)]
<1>2. c \in [1 .. n -> Keys] /\ \A i \in 1 .. n : c[i] = Key(r, i, i - 1)
  BY <1>1
<1> HIDE DEF c
<1>3. c \in Seq(Keys) /\ Len(c) = n
  BY <1>2
<1>4. PrefilledCache(r, n) = c
  BY DEF PrefilledCache, c
<1> QED BY <1>2, <1>3, <1>4

\* One row of a forward pass over any batch: it attends to its own sequence, and the
\* cache cut out of the padded one is its own with the new token.
LEMMA RowIsItsOwn ==
    ASSUME cache \in [Requests -> Seq(Keys)], NEW rows \in SUBSET Requests,
           IsFiniteSet(rows), NEW r \in rows, NEW n \in Nat,
           cache[r] = PrefilledCache(r, n)
    PROVE  /\ Attended(cache, rows, r, n + 1) = OwnSequence(r, n + 1)
           /\ Extracted(FullRow(cache, rows, r, n + 1), Len(cache[r]))
                = PrefilledCache(r, n + 1)
<1>1. PICK m \in Nat : m = MaxCacheLen(cache, rows) /\ n <= m
  <2>1. Len(cache[r]) = n
    BY PrefilledIs
  <2> QED BY <2>1, LongestCache
<1>2. PICK c \in Seq(Keys) : c = cache[r] /\ Len(c) = n
                             /\ \A i \in 1 .. n : c[i] = Key(r, i, i - 1)
  BY PrefilledIs
<1>3. PICK padded \in Seq(Keys) : /\ padded = Padded(c, m) /\ Len(padded) = m
                                  /\ \A i \in 1 .. n : padded[i] = Key(r, i, i - 1)
  <2> DEFINE pad == [i \in 1 .. m - n |-> Padding]
  <2>1. m - n \in Nat /\ Padding \in Keys
    BY <1>1 DEF Padding, Key, Keys
  <2>2. pad \in [1 .. m - n -> Keys]
    BY <2>1
  <2>3. Padded(c, m) = c \o pad
    BY <1>2 DEF Padded
  <2> HIDE DEF pad
  <2>4. pad \in Seq(Keys) /\ Len(pad) = m - n
    BY <2>1, <2>2
  <2>5. /\ c \o pad \in Seq(Keys) /\ Len(c \o pad) = n + (m - n)
        /\ \A i \in 1 .. n : (c \o pad)[i] = c[i]
    <3>1. /\ c \o pad \in Seq(Keys) /\ Len(c \o pad) = n + (m - n)
          /\ \A i \in 1 .. n + (m - n) : (c \o pad)[i] = IF i <= n THEN c[i] ELSE pad[i - n]
      BY <1>2, <2>4, ConcatProperties
    <3>2. \A i \in 1 .. n : i \in 1 .. n + (m - n) /\ i <= n
      BY <1>1
    <3> QED BY <3>1, <3>2
  <2>6. n + (m - n) = m
    BY <1>1
  <2> QED BY <1>2, <2>3, <2>5, <2>6
<1>4. PICK new \in Keys : new = Key(r, n + 1, n)
  <2>1. Key(r, n + 1, n) \in Keys
    BY DEF Key, Keys
  <2> QED BY <2>1
<1>5. PICK full \in Seq(Keys) : /\ full = Append(padded, new) /\ Len(full) = m + 1
                                /\ DOMAIN full = 1 .. m + 1
                                /\ full[m + 1] = new
                                /\ \A i \in 1 .. n : full[i] = Key(r, i, i - 1)
  <2>1. /\ Append(padded, new) \in Seq(Keys) /\ Len(Append(padded, new)) = m + 1
        /\ Append(padded, new)[m + 1] = new
        /\ \A i \in 1 .. m : Append(padded, new)[i] = padded[i]
    <3>1. Len(padded) = m
      BY <1>3
    <3>2. /\ Append(padded, new) \in Seq(Keys)
          /\ Len(Append(padded, new)) = Len(padded) + 1
          /\ Append(padded, new)[Len(padded) + 1] = new
          /\ \A i \in 1 .. Len(padded) : Append(padded, new)[i] = padded[i]
      BY AppendProperties
    <3> QED BY <3>1, <3>2
  <2>2. \A i \in 1 .. n : i \in 1 .. m
    BY <1>1
  <2>3. PICK full \in Seq(Keys) : full = Append(padded, new)
    BY <2>1
  <2>4. DOMAIN full = 1 .. m + 1
    BY <2>1, <2>3
  <2>5. \A i \in 1 .. n : full[i] = Key(r, i, i - 1)
    <3>1. \A i \in 1 .. m : full[i] = padded[i]
      BY <2>1, <2>3
    <3> QED BY <1>3, <2>2, <3>1
  <2> QED BY <2>1, <2>3, <2>4, <2>5
<1>6. FullRow(cache, rows, r, n + 1) = full
  BY <1>1, <1>2, <1>3, <1>4, <1>5 DEF FullRow
<1>7. Attended(cache, rows, r, n + 1) = OwnSequence(r, n + 1)
  <2>1. Attended(cache, rows, r, n + 1) = {full[i] : i \in (1 .. m + 1) \ (n + 1 .. m)}
    BY <1>1, <1>2, <1>5, <1>6 DEF Attended, PaddingWindow
  <2>2. \A i : i \in (1 .. m + 1) \ (n + 1 .. m) <=> i \in 1 .. n \/ i = m + 1
    BY <1>1
  <2>3. \A i \in 1 .. n + 1 : i \in 1 .. n \/ i = n + 1
    OBVIOUS
  <2>4. \A i \in 1 .. n : i \in 1 .. n + 1
    OBVIOUS
  <2>5. full[m + 1] = Key(r, n + 1, (n + 1) - 1) /\ n + 1 \in 1 .. n + 1
    BY <1>4, <1>5
  <2>6. {full[i] : i \in (1 .. m + 1) \ (n + 1 .. m)} \subseteq OwnSequence(r, n + 1)
    BY <1>5, <2>2, <2>4, <2>5 DEF OwnSequence
  <2>7. OwnSequence(r, n + 1) \subseteq {full[i] : i \in (1 .. m + 1) \ (n + 1 .. m)}
    <3> SUFFICES ASSUME NEW i \in 1 .. n + 1
                 PROVE  \E j \in (1 .. m + 1) \ (n + 1 .. m) : Key(r, i, i - 1) = full[j]
      BY DEF OwnSequence
    <3>1. CASE i \in 1 .. n
      BY <1>5, <2>2, <3>1
    <3>2. CASE i = n + 1
      BY <2>2, <2>5, <3>2
    <3> QED BY <2>3, <3>1, <3>2
  <2> QED BY <2>1, <2>6, <2>7
<1>8. Extracted(full, n) = PrefilledCache(r, n + 1)
  <2>1. PICK front : front = SubSeq(full, 1, n)
    OBVIOUS
  <2>2. front \in Seq(Keys) /\ Len(front) = n /\ \A i \in 1 .. n : front[i] = full[i]
    <3>1. \A i \in 1 .. n : full[i] \in Keys
      BY <1>1, <1>5
    <3>2. /\ front \in Seq(Keys)
          /\ Len(front) = IF 1 <= n THEN n - 1 + 1 ELSE 0
          /\ \A i \in 1 .. n - 1 + 1 : front[i] = full[1 + i - 1]
      BY <2>1, <3>1, SubSeqProperties
    <3> QED BY <3>2
  <2>3. Extracted(full, n) = Append(front, new)
    BY <1>5, <2>1 DEF Extracted, Last
  <2>4. PICK u : u = Append(front, new)
    OBVIOUS
  <2>5. /\ u \in Seq(Keys) /\ Len(u) = n + 1 /\ u[n + 1] = new
        /\ \A i \in 1 .. n : u[i] = front[i]
    BY <2>2, <2>4, AppendProperties
  <2>6. PICK v : v = PrefilledCache(r, n + 1)
    OBVIOUS
  <2>7. /\ v \in Seq(Keys) /\ Len(v) = n + 1
        /\ \A i \in 1 .. n + 1 : v[i] = Key(r, i, i - 1)
    <3>1. n + 1 \in Nat
      OBVIOUS
    <3> QED BY <2>6, <3>1, PrefilledIs
  <2>8. \A i \in 1 .. n + 1 : u[i] = v[i]
    <3> SUFFICES ASSUME NEW i \in 1 .. n + 1 PROVE u[i] = v[i]
      OBVIOUS
    <3>1. CASE i = n + 1
      <4>1. v[i] = Key(r, n + 1, (n + 1) - 1) /\ (n + 1) - 1 = n
        BY <2>7, <3>1
      <4> QED BY <1>4, <2>5, <3>1, <4>1
    <3>2. CASE i # n + 1
      <4>1. i \in 1 .. n
        BY <3>2
      <4>2. u[i] = full[i]
        BY <2>2, <2>5, <4>1
      <4>3. full[i] = Key(r, i, i - 1)
        BY <1>5, <4>1
      <4>4. v[i] = Key(r, i, i - 1)
        BY <2>7
      <4> QED BY <4>2, <4>3, <4>4
    <3> QED BY <3>1, <3>2
  <2>9. u = v
    BY <2>5, <2>7, <2>8, SeqEqual
  <2> QED BY <2>3, <2>4, <2>6, <2>9
<1> QED BY <1>2, <1>6, <1>7, <1>8

\* The cache holds the prompt and all the outputs but the last, the input of the next
\* forward pass.
Fed(r) == numOutput[r] >= 1 /\ cache[r] = PrefilledCache(r, LastPlace(r) - 1)

\* The forward pass is done: the next token was computed from r's own sequence.
Ready(r) == /\ cache[r] = PrefilledCache(r, LastPlace(r))
            /\ attended[r] = OwnSequence(r, LastPlace(r))

Caches ==
    /\ cache \in [Requests -> Seq(Keys)] /\ DOMAIN attended = Requests
    /\ \A r \in Requests : Len(cache[r]) <= LastPlace(r)
    /\ pc = "prefilled" => Ready(Head(toPrefill))
    /\ pc = "decodeAlone" => Fed(Head(toPrefill))
    /\ pc # "emitDecode" => \A r \in Range(running) : Fed(r)
    /\ \A r \in Range(stillRunning) : Fed(r)
    /\ \A r \in Range(batch) : Ready(r)

\* A step that touches no cache and no output.
LEMMA CachesUnchanged ==
    ASSUME Caches, UNCHANGED <<asked, numOutput, cache, attended, running, batch,
                               stillRunning>>,
           \/ pc' = pc /\ toPrefill' = toPrefill
           \/ pc # "emitDecode" /\ pc' \notin {"prefilled", "decodeAlone", "emitDecode"}
    PROVE  Caches'
<1>1. /\ \A r : Fed(r)' <=> Fed(r)
      /\ \A r : Ready(r)' <=> Ready(r)
      /\ \A r : LastPlace(r)' = LastPlace(r)
  BY DEF Fed, Ready, LastPlace
<1>2. cache' \in [Requests -> Seq(Keys)] /\ DOMAIN attended' = Requests
  BY DEF Caches
<1>3. \A r \in Requests : Len(cache'[r]) <= LastPlace(r)'
  BY <1>1 DEF Caches
<1>4. CASE pc' = pc /\ toPrefill' = toPrefill
  BY <1>1, <1>2, <1>3, <1>4 DEF Caches
<1>5. CASE pc # "emitDecode" /\ pc' \notin {"prefilled", "decodeAlone", "emitDecode"}
  BY <1>1, <1>2, <1>3, <1>5 DEF Caches
<1> QED BY <1>4, <1>5

\* A token that is handled: the cache of a request that has ended is dropped, the one
\* of a request that goes on lacks the new token only.
LEMMA TokenLeavesCaches ==
    ASSUME Types, Caches, NEW r \in Requests, Ready(r),
           FinishRequest(r, NextToken(r)) \/ KeepGoing(r, NextToken(r))
    PROVE  /\ cache' \in [Requests -> Seq(Keys)] /\ DOMAIN attended' = Requests
           /\ \A s \in Requests : Len(cache'[s]) <= LastPlace(s)'
           /\ \A s \in Requests \ {r} : (Fed(s) => Fed(s)') /\ (Ready(s) => Ready(s)')
           /\ KeepGoing(r, NextToken(r)) => Fed(r)'
<1>1. /\ numOutput' = [numOutput EXCEPT ![r] = @ + 1]
      /\ UNCHANGED <<asked, attended>>
      /\ \/ cache' = [cache EXCEPT ![r] = <<>>]
         \/ cache' = cache
      /\ KeepGoing(r, NextToken(r)) => cache' = cache
  BY DEF FinishRequest, KeepGoing
<1>2. /\ \A s \in Requests \ {r} : numOutput'[s] = numOutput[s]
      /\ numOutput'[r] = numOutput[r] + 1
  BY <1>1 DEF Types
<1>3. /\ \A s \in Requests \ {r} : LastPlace(s)' = LastPlace(s)
      /\ LastPlace(r)' = LastPlace(r) + 1
      /\ LastPlace(r) \in Nat
  <2>1. LastPlace(r) \in Nat /\ LastPlace(r) = asked[r].prompt + numOutput[r]
        /\ asked[r].prompt \in Nat /\ numOutput[r] \in Nat
    BY AskedTyped
  <2>2. \A s : LastPlace(s)' = asked[s].prompt + numOutput'[s]
    BY <1>1 DEF LastPlace
  <2>3. LastPlace(r)' = asked[r].prompt + (numOutput[r] + 1)
    BY <1>2, <2>2
  <2>4. LastPlace(r)' = LastPlace(r) + 1
    BY <2>1, <2>3
  <2>5. \A s \in Requests \ {r} : LastPlace(s)' = LastPlace(s)
    BY <1>2, <2>2 DEF LastPlace
  <2> QED BY <2>1, <2>4, <2>5
<1>4. /\ cache \in [Requests -> Seq(Keys)] /\ DOMAIN attended = Requests
      /\ \A s \in Requests : Len(cache[s]) <= LastPlace(s)
  BY DEF Caches
<1>5. <<>> \in Seq(Keys) /\ Len(<<>>) = 0
  OBVIOUS
<1>6. /\ cache' \in [Requests -> Seq(Keys)]
      /\ \A s \in Requests \ {r} : cache'[s] = cache[s]
      /\ cache'[r] = <<>> \/ cache'[r] = cache[r]
  <2>1. CASE cache' = [cache EXCEPT ![r] = <<>>]
    BY <1>4, <1>5, <2>1
  <2>2. CASE cache' = cache
    BY <1>4, <2>2
  <2> QED BY <1>1, <2>1, <2>2
<1>7. Len(cache'[r]) <= LastPlace(r)'
  <2>1. Len(cache[r]) <= LastPlace(r) /\ Len(cache[r]) \in Nat
    BY <1>4
  <2> QED BY <1>3, <1>5, <1>6, <2>1
<1>8. \A s \in Requests \ {r} : Len(cache'[s]) <= LastPlace(s)'
  BY <1>3, <1>4, <1>6
<1>9. \A s \in Requests \ {r} : (Fed(s) => Fed(s)') /\ (Ready(s) => Ready(s)')
  BY <1>1, <1>2, <1>3, <1>6 DEF Fed, Ready
<1>10. ASSUME KeepGoing(r, NextToken(r)) PROVE Fed(r)'
  <2>1. cache'[r] = PrefilledCache(r, LastPlace(r))
    BY <1>1, <1>10 DEF Ready
  <2>2. LastPlace(r)' - 1 = LastPlace(r)
    BY <1>3
  <2>3. numOutput'[r] >= 1
    BY <1>2 DEF Types
  <2> QED BY <2>1, <2>2, <2>3 DEF Fed
<1> QED BY <1>1, <1>4, <1>6, <1>7, <1>8, <1>9, <1>10

\* A forward pass over rows, after which the caches of S were replaced.
LEMMA ForwardPass ==
    ASSUME Types, Caches, NEW rows \in SUBSET Requests, IsFiniteSet(rows),
           \A r \in rows : Fed(r), NEW S \in SUBSET rows, ReplaceCaches(rows, S)
    PROVE  /\ cache' \in [Requests -> Seq(Keys)]
           /\ \A r \in Requests : cache'[r] = IF r \in S THEN PrefilledCache(r, LastPlace(r))
                                                         ELSE cache[r]
           /\ \A r \in Requests : Len(cache'[r]) <= LastPlace(r)
           /\ Attend(rows) =>
                 /\ DOMAIN attended' = Requests
                 /\ \A r \in rows : attended'[r] = OwnSequence(r, LastPlace(r))
                 /\ \A r \in Requests \ rows : attended'[r] = attended[r]
<1>1. ASSUME NEW r \in rows
      PROVE  /\ Attended(cache, rows, r, LastPlace(r)) = OwnSequence(r, LastPlace(r))
             /\ Extracted(FullRow(cache, rows, r, LastPlace(r)), Len(cache[r]))
                  = PrefilledCache(r, LastPlace(r))
  <2>1. /\ LastPlace(r) \in Nat /\ LastPlace(r) >= 1
        /\ cache[r] = PrefilledCache(r, LastPlace(r) - 1)
    <3>1. /\ asked[r].prompt \in Nat /\ numOutput[r] \in Nat
          /\ LastPlace(r) = asked[r].prompt + numOutput[r]
      BY AskedTyped
    <3> QED BY <3>1 DEF Fed
  <2>2. PICK n \in Nat : n = LastPlace(r) - 1 /\ LastPlace(r) = n + 1
    BY <2>1
  <2>3. cache \in [Requests -> Seq(Keys)] /\ cache[r] = PrefilledCache(r, n)
    BY <2>1, <2>2 DEF Caches
  <2>4. /\ Attended(cache, rows, r, n + 1) = OwnSequence(r, n + 1)
        /\ Extracted(FullRow(cache, rows, r, n + 1), Len(cache[r])) = PrefilledCache(r, n + 1)
    BY <2>3, RowIsItsOwn
  <2> QED BY <2>2, <2>4
<1>2. \A r \in Requests : cache'[r] = IF r \in S THEN PrefilledCache(r, LastPlace(r))
                                                 ELSE cache[r]
  BY <1>1 DEF ReplaceCaches
<1>3. \A r \in Requests : LastPlace(r) \in Nat
  BY AskedTyped
<1>4. \A r \in Requests : /\ PrefilledCache(r, LastPlace(r)) \in Seq(Keys)
                          /\ Len(PrefilledCache(r, LastPlace(r))) = LastPlace(r)
  BY <1>3, PrefilledIs
<1>5. \A r \in Requests : cache'[r] \in Seq(Keys) /\ Len(cache'[r]) <= LastPlace(r)
  BY <1>2, <1>3, <1>4 DEF Caches
<1>6. cache' \in [Requests -> Seq(Keys)]
  <2>1. cache' = [r \in Requests |-> cache'[r]]
    BY DEF ReplaceCaches
  <2> QED BY <1>5, <2>1
<1>7. ASSUME Attend(rows)
      PROVE  /\ DOMAIN attended' = Requests
             /\ \A r \in rows : attended'[r] = OwnSequence(r, LastPlace(r))
             /\ \A r \in Requests \ rows : attended'[r] = attended[r]
  BY <1>1, <1>7 DEF Attend
<1> QED BY <1>2, <1>5, <1>6, <1>7

LEMMA PrefillKeepsCaches ==
    ASSUME IInv, Caches, Prefill \/ PrefillFails
    PROVE  Caches'
<1> USE DEF IInv
<1>0. PICK r : r = Head(toPrefill)
  OBVIOUS
<1>1. /\ pc = "prefill" /\ toPrefill # <<>>
      /\ UNCHANGED <<asked, numOutput, running, batch, stillRunning>>
      /\ batch = <<>> /\ stillRunning = <<>>
  BY DEF Prefill, PrefillFails, Fail, localVars, Control
<1>2. /\ r \in Requests /\ r \notin Range(running) /\ status[r] = "WAITING"
  BY <1>0, <1>1, HeadOfPrefill DEF Begun, InBatch
<1>3. numOutput[r] = 0 /\ LastPlace(r) = asked[r].prompt /\ LastPlace(r) \in Nat
  <2>1. numOutput[r] = 0
    BY <1>2 DEF Books, Book
  <2>2. /\ LastPlace(r) \in Nat /\ asked[r].prompt \in Nat
        /\ LastPlace(r) = asked[r].prompt + numOutput[r]
    BY <1>2, AskedTyped
  <2> QED BY <2>1, <2>2
<1>4. PICK filled \in Seq(Keys) : filled = PrefilledCache(r, LastPlace(r))
                                 /\ Len(filled) = LastPlace(r)
  BY <1>2, <1>3, PrefilledIs
<1>5. /\ cache \in [Requests -> Seq(Keys)] /\ DOMAIN attended = Requests
      /\ \A s \in Requests : Len(cache[s]) <= LastPlace(s)
  BY DEF Caches
<1>6. \/ cache' = cache
      \/ cache' = [cache EXCEPT ![r] = filled]
  <2>1. CASE Prefill
    BY <2>1, <1>0, <1>3, <1>4 DEF Prefill
  <2>2. CASE PrefillFails
    <3>1. PICK keys \in {cache[r], filled} : cache' = [cache EXCEPT ![r] = keys]
      BY <2>2, <1>0, <1>3, <1>4 DEF PrefillFails
    <3>2. keys = cache[r] => cache' = cache
      BY <3>1, <1>5
    <3> QED BY <3>1, <3>2
  <2> QED BY <2>1, <2>2
<1>7. /\ cache' \in [Requests -> Seq(Keys)]
      /\ \A s \in Requests \ {r} : cache'[s] = cache[s]
      /\ Len(cache'[r]) <= LastPlace(r)
  <2>1. CASE cache' = cache
    BY <2>1, <1>2, <1>5
  <2>2. CASE cache' = [cache EXCEPT ![r] = filled]
    BY <2>2, <1>2, <1>3, <1>4, <1>5
  <2> QED BY <1>6, <2>1, <2>2
<1>8. \A s : LastPlace(s)' = LastPlace(s)
  BY <1>1 DEF LastPlace
<1>9. \A s \in Requests : Len(cache'[s]) <= LastPlace(s)'
  BY <1>5, <1>7, <1>8
<1>10. \A s \in Range(running) : Fed(s)'
  <2>1. \A s \in Range(running) : s \in Requests \ {r} /\ Fed(s)
    BY <1>1, <1>2, RangeType DEF Caches, Types
  <2> QED BY <1>1, <1>7, <1>8, <2>1 DEF Fed
<1>11. DOMAIN attended' = Requests
  BY <1>5 DEF Prefill, PrefillFails
<1>12. pc' = "prefilled" => Ready(Head(toPrefill))'
  <2> SUFFICES ASSUME pc' = "prefilled" PROVE Ready(Head(toPrefill))'
    OBVIOUS
  <2>1. Prefill
    BY DEF PrefillFails, Fail
  <2>2. cache'[r] = PrefilledCache(r, LastPlace(r))
    BY <2>1, <1>0, <1>2, <1>3, <1>5 DEF Prefill
  <2>3. attended'[r] = OwnSequence(r, LastPlace(r))
    BY <2>1, <1>0, <1>2, <1>3, <1>5 DEF Prefill
  <2>4. Head(toPrefill') = r
    BY <2>1, <1>0 DEF Prefill, localVars
  <2> QED BY <1>8, <2>2, <2>3, <2>4 DEF Ready
<1>13. pc' # "decodeAlone" /\ Range(batch') = {} /\ Range(stillRunning') = {}
  BY <1>1, RangeEmpty DEF Prefill, PrefillFails, Fail
<1> QED BY <1>1, <1>7, <1>9, <1>10, <1>11, <1>12, <1>13 DEF Caches

LEMMA EmitHeadKeepsCaches ==
    ASSUME IInv, Caches, EmitPrefill \/ EmitAlone
    PROVE  Caches'
<1> USE DEF IInv
<1>0. PICK r : r = Head(toPrefill)
  OBVIOUS
<1>1. /\ pc = "prefilled" /\ toPrefill # <<>> /\ batch = <<>> /\ stillRunning = <<>>
      /\ UNCHANGED <<batch, stillRunning>>
      /\ pc' \notin {"prefilled", "emitDecode"}
      /\ FinishRequest(r, NextToken(r)) \/ KeepGoing(r, NextToken(r))
  BY <1>0 DEF EmitPrefill, EmitAlone, Control
<1>2. r \in Requests /\ r \notin Range(running) /\ Ready(r)
  BY <1>0, <1>1, HeadOfPrefill DEF InBatch, Caches
<1>3. /\ cache' \in [Requests -> Seq(Keys)] /\ DOMAIN attended' = Requests
      /\ \A s \in Requests : Len(cache'[s]) <= LastPlace(s)'
      /\ \A s \in Requests \ {r} : Fed(s) => Fed(s)'
      /\ KeepGoing(r, NextToken(r)) => Fed(r)'
  BY <1>1, <1>2, TokenLeavesCaches
<1>4. \A s \in Range(running) : Fed(s)'
  <2>1. \A s \in Range(running) : s \in Requests \ {r} /\ Fed(s)
    BY <1>1, <1>2, RangeType DEF Caches, Types
  <2> QED BY <1>3, <2>1
<1>5. \A s \in Range(running') : Fed(s)'
  <2>1. CASE running' = running
    BY <1>4, <2>1
  <2>2. CASE running' = Append(running, r) /\ KeepGoing(r, NextToken(r))
    <3>1. Range(running') = Range(running) \cup {r}
      BY <1>2, <2>2, AppendRange DEF Types
    <3> QED BY <1>3, <1>4, <2>2, <3>1
  <2> QED BY <1>0, <2>1, <2>2 DEF EmitPrefill, EmitAlone, Join
<1>6. pc' = "decodeAlone" => Fed(Head(toPrefill))'
  <2>1. pc' = "decodeAlone" => toPrefill' = toPrefill /\ KeepGoing(r, NextToken(r))
    BY <1>0 DEF EmitPrefill, EmitAlone
  <2> QED BY <1>0, <1>3, <2>1
<1>7. Range(batch') = {} /\ Range(stillRunning') = {}
  BY <1>1, RangeEmpty
<1> QED BY <1>1, <1>3, <1>5, <1>6, <1>7 DEF Caches

LEMMA DecodeKeepsCaches ==
    ASSUME IInv, Caches, Decode
    PROVE  Caches'
<1> USE DEF IInv
<1>1. /\ pc = "decode" /\ pc' = "emitDecode" /\ batch' = running /\ stillRunning = <<>>
      /\ UNCHANGED <<asked, numOutput, running, stillRunning>>
      /\ ReplaceCaches(Range(running), Range(running)) /\ Attend(Range(running))
  BY DEF Decode, Control
<1>2. Range(running) \in SUBSET Requests /\ IsFiniteSet(Range(running))
  BY RowsAreFinite DEF Types
<1>3. \A r \in Range(running) : Fed(r)
  BY <1>1 DEF Caches
<1>4. /\ cache' \in [Requests -> Seq(Keys)]
      /\ \A r \in Requests : cache'[r] = IF r \in Range(running)
                                           THEN PrefilledCache(r, LastPlace(r)) ELSE cache[r]
      /\ \A r \in Requests : Len(cache'[r]) <= LastPlace(r)
      /\ DOMAIN attended' = Requests
      /\ \A r \in Range(running) : attended'[r] = OwnSequence(r, LastPlace(r))
  <2>1. Range(running) \in SUBSET Range(running)
    OBVIOUS
  <2> QED BY <1>1, <1>2, <1>3, <2>1, ForwardPass
<1>5. \A s : LastPlace(s)' = LastPlace(s)
  BY <1>1 DEF LastPlace
<1>6. \A r \in Range(batch') : Ready(r)'
  BY <1>1, <1>2, <1>4, <1>5 DEF Ready
<1>7. Range(stillRunning') = {}
  BY <1>1, RangeEmpty
<1> QED BY <1>1, <1>4, <1>5, <1>6, <1>7 DEF Caches

LEMMA EmitDecodeKeepsCaches ==
    ASSUME IInv, Caches, EmitDecode
    PROVE  Caches'
<1> USE DEF IInv
<1>0. PICK r : r = Head(batch)
  OBVIOUS
<1>1. /\ pc = "emitDecode" /\ batch # <<>> /\ batch' = Tail(batch) /\ pc' = pc
      /\ \/ FinishRequest(r, NextToken(r)) /\ stillRunning' = stillRunning
         \/ KeepGoing(r, NextToken(r)) /\ stillRunning' = Append(stillRunning, r)
  BY <1>0 DEF EmitDecode
<1>2. /\ r \in Requests /\ r \in Range(batch) /\ r \notin Range(stillRunning)
      /\ Range(batch') \subseteq Range(batch) \ {r}
      /\ Range(batch) \subseteq Requests /\ Range(stillRunning) \subseteq Requests
  <2>1. batch \in Seq(Requests) /\ stillRunning \in Seq(Requests) /\ IsInjective(batch)
    BY DEF Types, Rows
  <2>2. /\ r \in Requests /\ r \in Range(batch)
        /\ Range(batch) = Range(batch') \cup {r} /\ r \notin Range(batch')
    BY <1>0, <1>1, <2>1, TailRange
  <2>3. Range(batch) \subseteq Requests /\ Range(stillRunning) \subseteq Requests
    BY <2>1, RangeType
  <2>4. r \notin Range(stillRunning)
    BY <2>2 DEF Rows
  <2> QED BY <2>2, <2>3, <2>4
<1>3. Ready(r)
  BY <1>2 DEF Caches
<1>4. /\ cache' \in [Requests -> Seq(Keys)] /\ DOMAIN attended' = Requests
      /\ \A s \in Requests : Len(cache'[s]) <= LastPlace(s)'
      /\ \A s \in Requests \ {r} : (Fed(s) => Fed(s)') /\ (Ready(s) => Ready(s)')
      /\ KeepGoing(r, NextToken(r)) => Fed(r)'
  BY <1>1, <1>2, <1>3, TokenLeavesCaches
<1>5. \A s \in Range(batch') : Ready(s)'
  BY <1>2, <1>4 DEF Caches
<1>6. \A s \in Range(stillRunning) : Fed(s)'
  BY <1>2, <1>4 DEF Caches
<1>7. \A s \in Range(stillRunning') : Fed(s)'
  <2>1. CASE stillRunning' = stillRunning
    BY <1>6, <2>1
  <2>2. CASE stillRunning' = Append(stillRunning, r) /\ KeepGoing(r, NextToken(r))
    <3>1. Range(stillRunning') = Range(stillRunning) \cup {r}
      BY <1>2, <2>2, AppendRange DEF Types
    <3> QED BY <1>4, <1>6, <2>2, <3>1
  <2> QED BY <1>1, <2>1, <2>2
<1> QED BY <1>1, <1>4, <1>5, <1>7 DEF Caches

LEMMA EndDecodeKeepsCaches ==
    ASSUME IInv, Caches, EndDecode
    PROVE  Caches'
<1>1. /\ batch = <<>> /\ running' = stillRunning /\ stillRunning' = <<>> /\ pc' = "loop"
      /\ UNCHANGED <<asked, numOutput, cache, attended, batch>>
  BY DEF EndDecode, requestVars
<1>2. /\ \A r : Fed(r)' <=> Fed(r)
      /\ \A r : LastPlace(r)' = LastPlace(r)
  BY <1>1 DEF Fed, LastPlace
<1>3. Range(batch') = {} /\ Range(stillRunning') = {}
  BY <1>1, RangeEmpty
<1> QED BY <1>1, <1>2, <1>3 DEF Caches

\* decode_step, also one that raises.
LEMMA DecodeAloneKeepsCaches ==
    ASSUME IInv, Caches, DecodeAlone \/ DecodeAloneFails
    PROVE  Caches'
<1> USE DEF IInv
<1>0. PICK r : r = Head(toPrefill)
  OBVIOUS
<1>1. /\ pc = "decodeAlone" /\ toPrefill # <<>> /\ running = <<>> /\ mode = "baseline"
      /\ batch = <<>> /\ stillRunning = <<>>
      /\ UNCHANGED <<asked, numOutput, running, batch, stillRunning>>
  BY BatchedAssumption
     DEF DecodeAlone, DecodeAloneFails, Fail, localVars, Control, Types
<1>2. r \in Requests /\ Fed(r)
  BY <1>0, <1>1, HeadOfPrefill DEF Caches
<1>3. PICK S \in SUBSET {r} : /\ ReplaceCaches({r}, S)
                              /\ DecodeAlone => S = {r} /\ Attend({r})
  BY <1>0 DEF DecodeAlone, DecodeAloneFails
<1>4. {r} \in SUBSET Requests /\ IsFiniteSet({r}) /\ \A s \in {r} : Fed(s)
  BY <1>2, FS_Singleton
<1>5. /\ cache' \in [Requests -> Seq(Keys)]
      /\ \A s \in Requests : cache'[s] = IF s \in S THEN PrefilledCache(s, LastPlace(s))
                                                    ELSE cache[s]
      /\ \A s \in Requests : Len(cache'[s]) <= LastPlace(s)
      /\ Attend({r}) => /\ DOMAIN attended' = Requests
                        /\ attended'[r] = OwnSequence(r, LastPlace(r))
  <2>1. /\ cache' \in [Requests -> Seq(Keys)]
        /\ \A s \in Requests : cache'[s] = IF s \in S THEN PrefilledCache(s, LastPlace(s))
                                                      ELSE cache[s]
        /\ \A s \in Requests : Len(cache'[s]) <= LastPlace(s)
        /\ Attend({r}) => /\ DOMAIN attended' = Requests
                          /\ \A s \in {r} : attended'[s] = OwnSequence(s, LastPlace(s))
    BY <1>3, <1>4, ForwardPass
  <2> QED BY <2>1
<1>6. \A s : LastPlace(s)' = LastPlace(s)
  BY <1>1 DEF LastPlace
<1>7. Range(running') = {} /\ Range(batch') = {} /\ Range(stillRunning') = {}
  BY <1>1, RangeEmpty
<1>8. DOMAIN attended' = Requests
  BY <1>3, <1>5 DEF DecodeAloneFails, Caches
<1>9. CASE DecodeAlone
  <2>1. pc' = "prefilled" /\ toPrefill' = toPrefill
    BY <1>9 DEF DecodeAlone, localVars
  <2>2. Ready(r)'
    BY <1>2, <1>3, <1>5, <1>6, <1>9 DEF Ready
  <2>3. Ready(Head(toPrefill))'
    BY <1>0, <2>1, <2>2
  <2> QED BY <1>5, <1>6, <1>7, <1>8, <2>1, <2>3 DEF Caches
<1>10. CASE DecodeAloneFails
  <2>1. pc' = "loop"
    BY <1>10 DEF DecodeAloneFails, Fail
  <2> QED BY <1>5, <1>6, <1>7, <1>8, <2>1 DEF Caches
<1> QED BY <1>9, <1>10

\* A forward pass that raises before any cache is replaced changes none.
LEMMA DecodeFailsKeepsCaches ==
    ASSUME FailingAfter = {0}, IInv, Caches, DecodeFails
    PROVE  Caches'
<1> USE DEF IInv
<1>1. /\ pc = "decode" /\ pc' = "loop"
      /\ UNCHANGED <<asked, numOutput, attended, running, batch, stillRunning>>
  BY DEF DecodeFails, Fail
<1>2. ReplaceCaches(Range(running), Range(SubSeq(running, 1, 0)))
  BY DEF DecodeFails
<1>3. Range(SubSeq(running, 1, 0)) = {}
  <2>1. SubSeq(running, 1, 0) = <<>>
    BY DEF Types
  <2> QED BY <2>1, RangeEmpty
<1>4. cache' = cache
  BY <1>2, <1>3 DEF ReplaceCaches, Caches
<1> QED BY <1>1, <1>4, CachesUnchanged

\* The caches are as they should be when a decode that raises does so before it
\* replaces a cache.
LEMMA CachesAlways ==
    ASSUME FailingAfter = {0}
    PROVE  Spec => [](IInv /\ Caches)
<1>1. Init => Caches
  <2> SUFFICES ASSUME Init PROVE Caches
    OBVIOUS
  <2>1. IInv
    BY InitEstablishes
  <2>2. <<>> \in Seq(Keys) /\ Len(<<>>) = 0
    OBVIOUS
  <2>3. cache \in [Requests -> Seq(Keys)] /\ \A r \in Requests : Len(cache[r]) = 0
    BY <2>2 DEF Init
  <2>4. \A r \in Requests : LastPlace(r) \in Nat
    BY <2>1, AskedTyped DEF IInv
  <2>5. Range(running) = {} /\ Range(batch) = {} /\ Range(stillRunning) = {}
    BY RangeEmpty DEF Init
  <2> QED BY <2>3, <2>4, <2>5 DEF Caches, Init
<1>2. IInv /\ Caches /\ [Next]_vars => Caches'
  <2> SUFFICES ASSUME IInv, Caches, [Next]_vars PROVE Caches'
    OBVIOUS
  <2>1. CASE Quiet
    <3>1. /\ UNCHANGED <<asked, numOutput, cache, attended, running, batch, stillRunning,
                         toPrefill>>
          /\ \/ pc' = pc
             \/ /\ pc \in {"unstarted", "loop", "prefill"}
                /\ pc' \in {"loop", "stopped", "decode"}
      BY <2>1, QuietChanges
    <3> QED BY <3>1, CachesUnchanged
  <2>2. CASE (\E r \in Requests : AddRequest(r)) \/ BeginStep \/ TakeOne
    <3>1. /\ UNCHANGED <<asked, numOutput, cache, attended, running, batch, stillRunning>>
          /\ \/ pc' = pc /\ toPrefill' = toPrefill
             \/ pc = "loop" /\ pc' = "prefill"
      BY <2>2 DEF AddRequest, BeginStep, TakeOne, requestVars, localVars
    <3> QED BY <3>1, CachesUnchanged
  <2> QED BY <2>1, <2>2, PrefillKeepsCaches, EmitHeadKeepsCaches, DecodeKeepsCaches,
             EmitDecodeKeepsCaches, EndDecodeKeepsCaches, DecodeAloneKeepsCaches,
             DecodeFailsKeepsCaches
          DEF Next, SchedulerStep, BatchedStep, BaselineStep, Quiet
<1> QED BY <1>1, <1>2, Inductive, PTL DEF Spec

\* Every variable keeps its type; nobody has more outputs, or a longer cache, than
\* max_new_tokens allows, when a decode that raises does so before it replaces a cache.
THEOREM TypeCorrect ==
    ASSUME FailingAfter = {0}
    PROVE  Spec => []TypeOK
<1>1. IInv /\ Caches => TypeOK
  <2> SUFFICES ASSUME IInv, Caches PROVE TypeOK
    OBVIOUS
  <2>1. \A r \in Requests : numOutput[r] <= asked[r].maxNew
    BY DEF IInv, Books, Book
  <2>2. \A r \in Requests : Len(cache[r]) <= asked[r].prompt + asked[r].maxNew
    <3> SUFFICES ASSUME NEW r \in Requests
                 PROVE  Len(cache[r]) <= asked[r].prompt + asked[r].maxNew
      OBVIOUS
    <3>1. /\ asked[r].prompt \in Nat /\ asked[r].maxNew \in Nat /\ numOutput[r] \in Nat
          /\ LastPlace(r) = asked[r].prompt + numOutput[r]
      BY AskedTyped DEF IInv
    <3>2. Len(cache[r]) <= LastPlace(r) /\ Len(cache[r]) \in Nat
      BY DEF Caches
    <3> QED BY <2>1, <3>1, <3>2
  <2> QED BY <2>1, <2>2 DEF TypeOK, IInv, Types
<1> QED BY <1>1, CachesAlways, PTL

\* The token a client is sent was computed from its own sequence, whoever shares the
\* batch, when a decode that raises does so before it replaces a cache.
THEOREM AttendsOwn ==
    ASSUME FailingAfter = {0}
    PROVE  Spec => []AttendsOwnSequence
<1>1. Caches => AttendsOwnSequence
  BY DEF Caches, AttendsOwnSequence, Ready
<1> QED BY <1>1, CachesAlways, PTL

=============================================================================
