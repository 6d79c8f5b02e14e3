------------------------ MODULE PagedSchedulerProofs ------------------------
(***************************************************************************)
(* The scheduler's safety properties hold for every number of requests,    *)
(* every pool, every limit and every pattern of engine failures.           *)
(*                                                                         *)
(* The inductive invariant IInv has six parts.  TypeOK, Places and Budgets *)
(* hold each other up: that a budget stays a natural number when it is     *)
(* folded rests on a request finishing before it is used up, which rests   *)
(* on its status being right wherever it is.  StreamExact needs Budgets    *)
(* to know which token comes next, and PoolPartitioned and PageTables need *)
(* Places to know that whoever takes or gives back pages has none or all.  *)
(*                                                                         *)
(* NoRequestLost, FirstComeFirstServed and EvictedComesBackFirst are       *)
(* inductive on top of IInv.  The last two need each other at an eviction: *)
(* it happens for a head that does not fit, so nobody evicted waits, so    *)
(* whoever runs came before all who wait; and the victim gives back as     *)
(* many pages as it will need.  BatchWithinLimits needs to know what       *)
(* packed_tokens counts at each decision.  At the end every step is a step *)
(* of the abstract lifecycle or leaves its variables alone.                *)
(***************************************************************************)
EXTENDS PagedScheduler, KVMemoryPoolProofs

\* Where a request may be at each point of the loop, and what its status and
\* output count are there (scheduler.py: waiting, to_prefill, running and
\* still_running; batch is the part of the engine call still to be handled).

WaitingPlace ==
    /\ IsInjective(waiting)
    /\ Range(waiting) \subseteq Range(arrivals)
    /\ \A r \in Range(waiting) : status[r] = "WAITING" /\ numOutput[r] = 0

ToPrefillPlace ==
    /\ IsInjective(toPrefill)
    /\ Range(toPrefill) \subseteq Range(arrivals)
    /\ \A r \in Range(toPrefill) : status[r] = "WAITING" /\ numOutput[r] = 0
    /\ Range(toPrefill) \cap Range(waiting) = {}
    /\ pc \notin {"admit", "prefill"} => toPrefill = <<>>

RunningPlace ==
    /\ IsInjective(running)
    /\ Range(running) \subseteq Range(arrivals)
    /\ pc # "emitDecode" =>
          \A r \in Range(running) : status[r] = "RUNNING" /\ numOutput[r] >= 1

BatchPlace ==
    /\ IsInjective(batch)
    /\ Range(batch) \subseteq Range(arrivals)
    /\ \A r \in Range(batch) : status[r] = "RUNNING"
    /\ pc = "emitPrefill" => /\ \A r \in Range(batch) : numOutput[r] = 0
                             /\ Range(batch) \cap Range(running) = {}
    /\ pc = "emitDecode" => \A r \in Range(batch) : numOutput[r] >= 1
    /\ pc \notin {"emitPrefill", "emitDecode"} => batch = <<>>

StillRunningPlace ==
    /\ IsInjective(stillRunning)
    /\ Range(stillRunning) \subseteq Range(arrivals)
    /\ \A r \in Range(stillRunning) : status[r] = "RUNNING" /\ numOutput[r] >= 1
    /\ Range(stillRunning) \cap Range(batch) = {}
    /\ pc # "emitDecode" => stillRunning = <<>>

\* A request nobody added yet is as it was created.
NewPlace ==
    /\ IsInjective(arrivals)
    /\ \A r \in Requests \ Range(arrivals) :
          status[r] = "WAITING" /\ stream[r] = <<>> /\ numOutput[r] = 0

Places == /\ WaitingPlace
          /\ ToPrefillPlace
          /\ RunningPlace
          /\ BatchPlace
          /\ StillRunningPlace
          /\ NewPlace

\* What is left of a request's budget.
Budgets ==
    /\ FoldConservesTokens
    /\ \A r \in Requests : /\ numOutput[r] <= maxNew[r]
                           /\ status[r] # "FINISHED" => numOutput[r] < maxNew[r]

\* The pool and the page tables partition the pages.
PoolPartitioned ==
    /\ PoolTypeOK
    /\ kv \in [Requests -> Seq(Pages)]
    /\ PagesExclusive
    /\ Pages = Range(free) \cup Scratch \cup UNION {Range(kv[r]) : r \in Requests}
    /\ \A p \in Pages : refcount[p] = IF p \in Range(free) THEN 0 ELSE 1

\* Who has a page table, and how long it is.
PageTables ==
    \A r \in Requests :
       /\ (kv[r] # <<>>) <=> (status[r] = "RUNNING" \/ r \in Range(toPrefill))
       /\ kv[r] # <<>> => Len(kv[r]) = PagesNeeded(asked[r].prompt + asked[r].maxNew)

IInv == /\ TypeOK
        /\ Places
        /\ Budgets
        /\ StreamExact
        /\ PoolPartitioned
        /\ PageTables

----------------------------------------------------------------------------
\* What the two ways to change a page table do to the partition.

\* _release_kv: the pages of one table move to the free list.
LEMMA ReleaseKeepsPartition ==
    ASSUME PoolPartitioned, NEW r \in Requests, ReleaseKv(r)
    PROVE  /\ PoolPartitioned'
           /\ kv' = [kv EXCEPT ![r] = <<>>]
<1> USE DEF PoolPartitioned
<1>1. /\ kv' = [kv EXCEPT ![r] = <<>>] /\ kv' \in [Requests -> Seq(Pages)]
      /\ kv[r] \in Seq(Pages) /\ Range(kv[r]) \subseteq Pages
  BY RangeType DEF ReleaseKv
<1>2. Range(kv[r]) \cap Range(free) = {}
  BY DEF PagesExclusive
<1>3. \A p \in Range(kv[r]) : refcount[p] = 1
  BY <1>1, <1>2
<1>4. /\ free' = free \o kv[r]
      /\ refcount' = [p \in Pages |-> IF p \in Range(kv[r]) THEN 0 ELSE refcount[p]]
  BY <1>1, <1>3, FreeUnshared DEF ReleaseKv
<1>5. /\ free' \in Seq(Pages)
      /\ Range(free') = Range(free) \cup Range(kv[r])
      /\ IsInjective(free')
  <2>1. free \in Seq(Pages) /\ IsInjective(free) /\ IsInjective(kv[r])
    BY DEF PoolTypeOK, PagesExclusive
  <2> QED BY <2>1, <1>1, <1>2, <1>4, ConcatRange
<1>6. /\ \A s \in Requests : s # r => kv'[s] = kv[s]
      /\ Range(kv'[r]) = {} /\ IsInjective(kv'[r])
  BY <1>1, RangeEmpty
<1>7. PoolTypeOK'
  BY <1>4, <1>5 DEF PoolTypeOK
<1>8. PagesExclusive'
  <2>1. \A s \in Requests : IsInjective(kv'[s])
    BY <1>6 DEF PagesExclusive
  <2>2. \A s, t \in Requests : s # t => Range(kv'[s]) \cap Range(kv'[t]) = {}
    BY <1>6 DEF PagesExclusive
  <2>3. \A s \in Requests : Range(kv'[s]) \cap Range(free') = {}
    BY <1>5, <1>6 DEF PagesExclusive
  <2>4. \A s \in Requests : Range(kv'[s]) \cap Scratch = {}
    BY <1>6 DEF PagesExclusive
  <2>5. Range(free') \cap Scratch = {}
    BY <1>5 DEF PagesExclusive
  <2> QED BY <1>5, <2>1, <2>2, <2>3, <2>4, <2>5 DEF PagesExclusive, Scratch
<1>9. Pages = Range(free') \cup Scratch \cup UNION {Range(kv'[s]) : s \in Requests}
  BY <1>5, <1>6
<1>10. \A p \in Pages : refcount'[p] = IF p \in Range(free') THEN 0 ELSE 1
  BY <1>4, <1>5
<1> QED BY <1>1, <1>7, <1>8, <1>9, <1>10 DEF Pages, Scratch

\* Admission: a request without pages gets the first n of the free list.
LEMMA AllocateKeepsPartition ==
    ASSUME PoolPartitioned, NEW r \in Requests, kv[r] = <<>>,
           NEW n \in Nat, Allocate(n), kv' = [kv EXCEPT ![r] = Allocated(n)]
    PROVE  PoolPartitioned' /\ Len(kv'[r]) = n
<1> USE DEF PoolPartitioned
<1>1. PoolTypeOK /\ IsInjective(free)
  BY DEF PagesExclusive
<1>2. /\ Allocated(n) \in Seq(Pages) /\ Len(Allocated(n)) = n
      /\ free' \in Seq(Pages)
      /\ Range(Allocated(n)) \cup Range(free') = Range(free)
      /\ IsInjective(Allocated(n)) /\ IsInjective(free')
      /\ Range(Allocated(n)) \cap Range(free') = {}
      /\ refcount' = [p \in Pages |-> IF p \in Range(Allocated(n)) THEN 1
                                                                   ELSE refcount[p]]
  BY <1>1, AllocateSplits
<1>3. /\ kv' \in [Requests -> Seq(Pages)]
      /\ kv'[r] = Allocated(n)
      /\ \A s \in Requests : s # r => kv'[s] = kv[s]
  BY <1>2
<1>4. Range(kv[r]) = {}
  BY RangeEmpty
<1>5. PoolTypeOK'
  BY <1>2 DEF PoolTypeOK
<1>6. PagesExclusive'
  <2>1. \A s \in Requests : IsInjective(kv'[s])
    BY <1>2, <1>3 DEF PagesExclusive
  <2>2. \A s \in Requests : s # r => Range(kv'[s]) \cap Range(kv'[r]) = {}
    BY <1>2, <1>3 DEF PagesExclusive
  <2>3. \A s, t \in Requests : s # t => Range(kv'[s]) \cap Range(kv'[t]) = {}
    BY <1>3, <2>2 DEF PagesExclusive
  <2>4. \A s \in Requests : Range(kv'[s]) \cap Range(free') = {}
    BY <1>2, <1>3 DEF PagesExclusive
  <2>5. \A s \in Requests : Range(kv'[s]) \cap Scratch = {}
    BY <1>2, <1>3 DEF PagesExclusive
  <2>6. Range(free') \cap Scratch = {}
    BY <1>2 DEF PagesExclusive
  <2> QED BY <1>2, <2>1, <2>3, <2>4, <2>5, <2>6 DEF PagesExclusive, Scratch
<1>7. Pages = Range(free') \cup Scratch \cup UNION {Range(kv'[s]) : s \in Requests}
  <2>1. ASSUME NEW p
        PROVE  (\E s \in Requests : p \in Range(kv'[s]))
                 <=> p \in Range(Allocated(n)) \/ \E s \in Requests : p \in Range(kv[s])
    BY <1>3, <1>4
  <2>2. UNION {Range(kv'[s]) : s \in Requests}
          = Range(Allocated(n)) \cup UNION {Range(kv[s]) : s \in Requests}
    BY <2>1
  <2> QED BY <2>2, <1>2
<1>8. \A p \in Pages : refcount'[p] = IF p \in Range(free') THEN 0 ELSE 1
  BY <1>2 DEF PoolTypeOK
<1> QED BY <1>2, <1>3, <1>5, <1>6, <1>7, <1>8 DEF Pages, Scratch

----------------------------------------------------------------------------
\* Places is preserved, action by action.

\* Queues and batches hold requests.
LEMMA QueuesTyped ==
    ASSUME TypeOK
    PROVE  /\ Range(waiting) \subseteq Requests /\ Range(toPrefill) \subseteq Requests
           /\ Range(running) \subseteq Requests /\ Range(batch) \subseteq Requests
           /\ Range(stillRunning) \subseteq Requests /\ Range(arrivals) \subseteq Requests
<1>1. /\ waiting \in Seq(Requests) /\ toPrefill \in Seq(Requests)
      /\ running \in Seq(Requests) /\ batch \in Seq(Requests)
      /\ stillRunning \in Seq(Requests) /\ arrivals \in Seq(Requests)
  BY DEF TypeOK
<1> QED BY <1>1, RangeType

\* Admission takes the head of the queue and leaves the rest in order.
LEMMA HeadOfQueue ==
    ASSUME TypeOK, Places, waiting # <<>>
    PROVE  /\ Head(waiting) \in Requests /\ Head(waiting) \in Range(waiting)
           /\ Tail(waiting) \in Seq(Requests)
           /\ Range(Tail(waiting)) = Range(waiting) \ {Head(waiting)}
           /\ IsInjective(Tail(waiting))
<1>1. waiting \in Seq(Requests) /\ IsInjective(waiting)
  BY DEF TypeOK, Places, WaitingPlace
<1> QED BY <1>1, TailRange

\* The head of the tokens still to be handled, likewise.
LEMMA HeadOfBatch ==
    ASSUME TypeOK, Places, batch # <<>>
    PROVE  /\ Head(batch) \in Requests /\ Head(batch) \in Range(batch)
           /\ Tail(batch) \in Seq(Requests)
           /\ Range(Tail(batch)) = Range(batch) \ {Head(batch)}
           /\ IsInjective(Tail(batch))
<1>1. batch \in Seq(Requests) /\ IsInjective(batch)
  BY DEF TypeOK, Places, BatchPlace
<1> QED BY <1>1, TailRange

\* add_request puts a request nobody added before last in the queue.
LEMMA PlacesAdd ==
    ASSUME IInv, NEW r \in Requests, AddRequest(r)
    PROVE  Places'
<1> USE DEF IInv, Places
<1>1. /\ waiting \in Seq(Requests) /\ arrivals \in Seq(Requests)
      /\ r \notin Range(arrivals) /\ r \notin Range(waiting)
      /\ IsInjective(waiting) /\ IsInjective(arrivals)
  BY DEF TypeOK, AddRequest, WaitingPlace, NewPlace
<1>2. /\ Range(waiting') = Range(waiting) \cup {r} /\ IsInjective(waiting')
      /\ Range(arrivals') = Range(arrivals) \cup {r} /\ IsInjective(arrivals')
  BY <1>1, AppendRange DEF AddRequest
<1>3. UNCHANGED <<status, numOutput, stream, running, pc, toPrefill, batch, stillRunning>>
  BY DEF AddRequest, requestVars, localVars
<1>4. WaitingPlace'
  BY <1>1, <1>2, <1>3 DEF WaitingPlace, NewPlace
<1>5. ToPrefillPlace'
  BY <1>1, <1>2, <1>3 DEF ToPrefillPlace
<1>6. RunningPlace' /\ BatchPlace' /\ StillRunningPlace'
  BY <1>2, <1>3 DEF RunningPlace, BatchPlace, StillRunningPlace
<1>7. NewPlace'
  BY <1>2, <1>3 DEF NewPlace
<1> QED BY <1>4, <1>5, <1>6, <1>7

\* _reject_request takes the head out of every place.
LEMMA PlacesReject ==
    ASSUME IInv, RejectHead
    PROVE  Places'
<1> USE DEF IInv, Places
<1> DEFINE r == Head(waiting)
<1>1. waiting # <<>>
  BY DEF RejectHead, RoomToAdmit
<1>2. /\ r \in Requests /\ r \in Range(waiting)
      /\ Range(waiting') = Range(waiting) \ {r} /\ IsInjective(waiting')
  BY <1>1, HeadOfQueue DEF RejectHead
<1>3. /\ status' = [status EXCEPT ![r] = "FINISHED"]
      /\ stream' = [stream EXCEPT ![r] = Append(@, EndMark)]
      /\ UNCHANGED <<numOutput, running, pc, toPrefill, batch, stillRunning, arrivals>>
      /\ pc = "admit"
  BY DEF RejectHead, Reject, localVars
<1>4. \A s \in Requests : s # r => status'[s] = status[s] /\ stream'[s] = stream[s]
  BY <1>3 DEF TypeOK
<1>5. /\ Range(waiting) \subseteq Requests /\ Range(toPrefill) \subseteq Requests
      /\ Range(running) \subseteq Requests
      /\ r \in Range(arrivals) /\ r \notin Range(toPrefill)
      /\ r \notin Range(running)
      /\ batch = <<>> /\ stillRunning = <<>>
  BY <1>2, <1>3, QueuesTyped DEF WaitingPlace, ToPrefillPlace, RunningPlace,
                                 BatchPlace, StillRunningPlace
<1> HIDE DEF r
<1>6. WaitingPlace'
  BY <1>2, <1>3, <1>4, <1>5 DEF WaitingPlace
<1>7. ToPrefillPlace'
  BY <1>2, <1>3, <1>4, <1>5 DEF ToPrefillPlace
<1>8. RunningPlace'
  BY <1>2, <1>3, <1>4, <1>5 DEF RunningPlace
<1>9. BatchPlace' /\ StillRunningPlace'
  BY <1>3, <1>5, RangeEmpty DEF BatchPlace, StillRunningPlace
<1>10. NewPlace'
  BY <1>3, <1>4, <1>5 DEF NewPlace
<1> QED BY <1>6, <1>7, <1>8, <1>9, <1>10

\* Admission moves the head from the queue to the end of to_prefill.
LEMMA PlacesAdmit ==
    ASSUME IInv, AdmitHead
    PROVE  Places'
<1> USE DEF IInv, Places
<1> DEFINE r == Head(waiting)
<1>1. waiting # <<>>
  BY DEF AdmitHead, RoomToAdmit
<1>2. /\ r \in Requests /\ r \in Range(waiting)
      /\ Range(waiting') = Range(waiting) \ {r} /\ IsInjective(waiting')
  BY <1>1, HeadOfQueue DEF AdmitHead
<1>3. /\ toPrefill' = Append(toPrefill, r)
      /\ UNCHANGED <<status, numOutput, stream, running, pc, batch, stillRunning, arrivals>>
      /\ pc = "admit"
  BY DEF AdmitHead
<1>4. r \notin Range(toPrefill) /\ toPrefill \in Seq(Requests) /\ IsInjective(toPrefill)
  BY <1>2 DEF ToPrefillPlace, TypeOK
<1>5. Range(toPrefill') = Range(toPrefill) \cup {r} /\ IsInjective(toPrefill')
  BY <1>2, <1>3, <1>4, AppendRange
<1> HIDE DEF r
<1>6. WaitingPlace'
  BY <1>2, <1>3 DEF WaitingPlace
<1>7. ToPrefillPlace'
  BY <1>2, <1>3, <1>5 DEF WaitingPlace, ToPrefillPlace
<1>8. RunningPlace' /\ BatchPlace' /\ StillRunningPlace' /\ NewPlace'
  BY <1>3 DEF RunningPlace, BatchPlace, StillRunningPlace, NewPlace
<1> QED BY <1>6, <1>7, <1>8

\* _evict_lowest_progress moves a running request to the head of the queue.
LEMMA PlacesEvict ==
    ASSUME IInv, EvictForHead
    PROVE  Places'
<1> USE DEF IInv, Places
<1>1. /\ pc = "admit"
      /\ UNCHANGED <<stream, pc, toPrefill, batch, stillRunning, arrivals>>
  BY DEF EvictForHead
<1>2. PICK i \in DOMAIN running : IsVictim(i) /\ Evict(i)
  BY DEF EvictForHead
<1> DEFINE v == running[i]
<1>3. running \in Seq(Requests) /\ i \in 1 .. Len(running) /\ IsInjective(running)
  <2>1. running \in Seq(Requests) /\ IsInjective(running)
    BY DEF TypeOK, RunningPlace
  <2> QED BY <2>1, RangeType
<1>4. /\ running' = RemoveAt(running, i)
      /\ waiting' = <<v>> \o waiting
      /\ status' = [status EXCEPT ![v] = "WAITING"]
      /\ numOutput' = [numOutput EXCEPT ![v] = 0]
  BY <1>2 DEF Evict, LeaveRunning, Requeue, Fold
<1>5. Range(running') = Range(running) \ {v} /\ IsInjective(running')
  BY <1>3, <1>4, RemoveAtRange
<1>6. v \in Requests /\ v \in Range(running)
  BY <1>3, RangeType
<1>7. status[v] = "RUNNING" /\ v \notin Range(waiting) /\ v \notin Range(toPrefill)
  BY <1>1, <1>6 DEF RunningPlace, WaitingPlace, ToPrefillPlace
<1>8. v \in Range(arrivals) /\ batch = <<>> /\ stillRunning = <<>>
  BY <1>1, <1>6 DEF RunningPlace, BatchPlace, StillRunningPlace
<1>9. \A s \in Requests : s # v => status'[s] = status[s] /\ numOutput'[s] = numOutput[s]
  BY <1>4 DEF TypeOK
<1>10. status'[v] = "WAITING" /\ numOutput'[v] = 0
  BY <1>4, <1>6 DEF TypeOK
<1> HIDE DEF v
<1>11. Range(waiting') = Range(waiting) \cup {v} /\ IsInjective(waiting')
  <2>1. waiting \in Seq(Requests) /\ IsInjective(waiting)
    BY DEF TypeOK, WaitingPlace
  <2> QED BY <2>1, <1>4, <1>6, <1>7, PushFrontRange
<1>12. /\ Range(waiting) \subseteq Requests /\ Range(toPrefill) \subseteq Requests
       /\ Range(running) \subseteq Requests
  BY QueuesTyped
<1>13. WaitingPlace'
  BY <1>1, <1>8, <1>9, <1>10, <1>11, <1>12 DEF WaitingPlace
<1>14. ToPrefillPlace'
  BY <1>1, <1>7, <1>9, <1>11, <1>12 DEF ToPrefillPlace
<1>15. RunningPlace'
  BY <1>1, <1>5, <1>9, <1>12 DEF RunningPlace
<1>16. BatchPlace' /\ StillRunningPlace'
  BY <1>1, <1>8, RangeEmpty DEF BatchPlace, StillRunningPlace
<1>17. NewPlace'
  BY <1>1, <1>8, <1>9 DEF NewPlace
<1> QED BY <1>13, <1>14, <1>15, <1>16, <1>17

\* A prefill moves its batch out of to_prefill, to be handled or, if the call
\* raises, nowhere.
LEMMA PlacesPrefill ==
    ASSUME IInv, Prefill
    PROVE  Places'
<1> USE DEF IInv, Places
<1>1. /\ pc = "prefill" /\ pc' \in {"emitPrefill", "loop"}
      /\ toPrefill' = <<>>
      /\ pc' = "emitPrefill" => batch' = toPrefill
      /\ pc' = "loop" => batch' = batch
      /\ UNCHANGED <<numOutput, stream, waiting, running, stillRunning, arrivals>>
  BY DEF Prefill, queueVars
<1>2. batch = <<>> /\ stillRunning = <<>>
  BY <1>1 DEF BatchPlace, StillRunningPlace
<1>3. \A s \in Requests : status'[s] = IF s \in Range(toPrefill) THEN "RUNNING"
                                                                  ELSE status[s]
  BY DEF Prefill
<1>4. /\ Range(waiting) \subseteq Requests /\ Range(toPrefill) \subseteq Requests
      /\ Range(running) \subseteq Requests
      /\ Range(toPrefill) \subseteq Range(arrivals)
  BY QueuesTyped DEF ToPrefillPlace
<1>5. Range(toPrefill) \cap Range(running) = {}
  BY <1>1 DEF ToPrefillPlace, RunningPlace
<1>6. WaitingPlace'
  BY <1>1, <1>3, <1>4 DEF WaitingPlace, ToPrefillPlace
<1>7. ToPrefillPlace'
  BY <1>1, RangeEmpty DEF ToPrefillPlace
<1>8. RunningPlace'
  BY <1>1, <1>3, <1>4, <1>5 DEF RunningPlace
<1>9. BatchPlace'
  <2>1. CASE pc' = "emitPrefill"
    BY <2>1, <1>1, <1>3, <1>4, <1>5 DEF BatchPlace, ToPrefillPlace
  <2>2. CASE pc' = "loop"
    BY <2>2, <1>1, <1>2, RangeEmpty DEF BatchPlace
  <2> QED BY <1>1, <2>1, <2>2
<1>10. StillRunningPlace'
  BY <1>1, <1>2, RangeEmpty DEF StillRunningPlace
<1>11. NewPlace'
  BY <1>1, <1>3, <1>4 DEF NewPlace
<1> QED BY <1>6, <1>7, <1>8, <1>9, <1>10, <1>11

\* A decode takes the running list as its batch, or raises and takes nothing.
LEMMA PlacesDecode ==
    ASSUME IInv, Decode
    PROVE  Places'
<1> USE DEF IInv, Places
<1>1. /\ pc = "decode" /\ pc' \in {"emitDecode", "loop"}
      /\ pc' = "emitDecode" => batch' = running
      /\ pc' = "loop" => batch' = batch
      /\ UNCHANGED <<status, numOutput, stream, waiting, running, toPrefill,
                     stillRunning, arrivals>>
  BY DEF Decode, queueVars, requestVars
<1>2. batch = <<>> /\ stillRunning = <<>>
  BY <1>1 DEF BatchPlace, StillRunningPlace
<1>3. WaitingPlace' /\ ToPrefillPlace' /\ RunningPlace' /\ NewPlace'
  BY <1>1 DEF WaitingPlace, ToPrefillPlace, RunningPlace, NewPlace
<1>4. BatchPlace'
  <2>1. CASE pc' = "emitDecode"
    BY <2>1, <1>1 DEF BatchPlace, RunningPlace
  <2>2. CASE pc' = "loop"
    BY <2>2, <1>1, <1>2 DEF BatchPlace
  <2> QED BY <1>1, <2>1, <2>2
<1>5. StillRunningPlace'
  BY <1>1, <1>2, RangeEmpty DEF StillRunningPlace
<1> QED BY <1>3, <1>4, <1>5

\* A token is handled: what the two branches do to the request it is for.
LEMMA TokenHandled ==
    ASSUME TypeOK, NEW r \in Requests, NEW token,
           FinishRequest(r, token) \/ KeepGoing(r, token)
    PROVE  /\ \A s \in Requests \ {r} : /\ status'[s] = status[s]
                                        /\ numOutput'[s] = numOutput[s]
                                        /\ stream'[s] = stream[s]
           /\ FinishRequest(r, token) => status'[r] = "FINISHED"
           /\ KeepGoing(r, token) => status'[r] = status[r]
           /\ numOutput'[r] = numOutput[r] + 1
BY DEF FinishRequest, KeepGoing, TypeOK

\* A prefilled request finishes or joins the running list.
LEMMA PlacesEmitPrefill ==
    ASSUME IInv, EmitPrefill
    PROVE  Places'
<1> USE DEF IInv, Places
<1> DEFINE r == Head(batch)
           finishes == FinishRequest(r, PrefillToken(r)) /\ UNCHANGED running
           goesOn   == KeepGoing(r, PrefillToken(r)) /\ running' = Append(running, r)
<1>1. /\ pc = "emitPrefill" /\ batch # <<>> /\ batch' = Tail(batch)
      /\ finishes \/ goesOn
      /\ UNCHANGED <<waiting, pc, toPrefill, stillRunning, arrivals>>
  BY DEF EmitPrefill
<1>2. /\ r \in Requests /\ r \in Range(batch)
      /\ Range(batch') = Range(batch) \ {r} /\ IsInjective(batch')
  BY <1>1, HeadOfBatch
<1>3. /\ \A s \in Requests \ {r} : /\ status'[s] = status[s]
                                   /\ numOutput'[s] = numOutput[s]
                                   /\ stream'[s] = stream[s]
      /\ goesOn => status'[r] = "RUNNING" /\ numOutput'[r] = 1
  BY <1>1, <1>2, TokenHandled DEF BatchPlace
<1>4. /\ r \in Range(arrivals) /\ r \notin Range(running)
      /\ r \notin Range(waiting) /\ r \notin Range(toPrefill)
      /\ toPrefill = <<>> /\ stillRunning = <<>>
  BY <1>1, <1>2 DEF BatchPlace, WaitingPlace, ToPrefillPlace, StillRunningPlace
<1>5. /\ Range(waiting) \subseteq Requests /\ Range(running) \subseteq Requests
      /\ Range(batch) \subseteq Requests
  BY QueuesTyped
<1>6. \/ UNCHANGED running
      \/ /\ Range(running') = Range(running) \cup {r} /\ IsInjective(running')
         /\ status'[r] = "RUNNING" /\ numOutput'[r] = 1
  <2>1. running \in Seq(Requests) /\ IsInjective(running)
    BY DEF TypeOK, RunningPlace
  <2>2. CASE finishes
    BY <2>2
  <2>3. CASE goesOn
    <3>1. /\ Range(Append(running, r)) = Range(running) \cup {r}
          /\ IsInjective(Append(running, r))
      BY <2>1, <1>2, <1>4, AppendRange
    <3> QED BY <3>1, <2>3, <1>3
  <2> QED BY <2>2, <2>3, <1>1
<1> HIDE DEF r, finishes, goesOn
<1>7. WaitingPlace'
  BY <1>1, <1>3, <1>4, <1>5 DEF WaitingPlace
<1>8. ToPrefillPlace' /\ StillRunningPlace'
  BY <1>1, <1>4, RangeEmpty DEF ToPrefillPlace, StillRunningPlace
<1>9. RunningPlace'
  <2>1. IsInjective(running') /\ Range(running') \subseteq Range(running) \cup {r}
    BY <1>6 DEF RunningPlace
  <2>2. Range(running') \subseteq Range(arrivals')
    BY <2>1, <1>1, <1>4 DEF RunningPlace
  <2>3. \A s \in Range(running) : status'[s] = "RUNNING" /\ numOutput'[s] >= 1
    BY <1>1, <1>3, <1>4, <1>5 DEF RunningPlace
  <2>4. \A s \in Range(running') : status'[s] = "RUNNING" /\ numOutput'[s] >= 1
    BY <2>3, <1>6
  <2> QED BY <2>1, <2>2, <2>4 DEF RunningPlace
<1>10. BatchPlace'
  <2>1. Range(batch') \subseteq Range(arrivals') /\ Range(batch') \cap Range(running') = {}
    BY <1>1, <1>2, <1>6 DEF BatchPlace
  <2>2. \A s \in Range(batch') : status'[s] = "RUNNING" /\ numOutput'[s] = 0
    BY <1>1, <1>2, <1>3, <1>5 DEF BatchPlace
  <2> QED BY <2>1, <2>2, <1>1, <1>2 DEF BatchPlace
<1>11. NewPlace'
  BY <1>1, <1>3, <1>4 DEF NewPlace
<1> QED BY <1>7, <1>8, <1>9, <1>10, <1>11

\* A decoded request finishes or joins still_running.
LEMMA PlacesEmitDecode ==
    ASSUME IInv, EmitDecode
    PROVE  Places'
<1> USE DEF IInv, Places
<1> DEFINE r == Head(batch)
           finishes == FinishRequest(r, DecodeToken(r)) /\ UNCHANGED stillRunning
           goesOn   == /\ KeepGoing(r, DecodeToken(r))
                       /\ stillRunning' = Append(stillRunning, r)
<1>1. /\ pc = "emitDecode" /\ batch # <<>> /\ batch' = Tail(batch)
      /\ finishes \/ goesOn
      /\ UNCHANGED <<waiting, running, pc, toPrefill, arrivals>>
  BY DEF EmitDecode, queueVars
<1>2. /\ r \in Requests /\ r \in Range(batch)
      /\ Range(batch') = Range(batch) \ {r} /\ IsInjective(batch')
  BY <1>1, HeadOfBatch
<1>3. /\ \A s \in Requests \ {r} : /\ status'[s] = status[s]
                                   /\ numOutput'[s] = numOutput[s]
                                   /\ stream'[s] = stream[s]
      /\ goesOn => status'[r] = "RUNNING"
      /\ numOutput'[r] = numOutput[r] + 1
  BY <1>1, <1>2, TokenHandled DEF BatchPlace
<1>4. numOutput[r] \in Nat /\ numOutput'[r] >= 1
  BY <1>2, <1>3 DEF TypeOK
<1>5. /\ r \in Range(arrivals) /\ r \notin Range(stillRunning)
      /\ r \notin Range(waiting) /\ r \notin Range(toPrefill)
      /\ toPrefill = <<>>
  BY <1>1, <1>2 DEF BatchPlace, WaitingPlace, ToPrefillPlace, StillRunningPlace
<1>6. /\ Range(waiting) \subseteq Requests /\ Range(stillRunning) \subseteq Requests
      /\ Range(batch) \subseteq Requests
  BY QueuesTyped
<1>7. \/ UNCHANGED stillRunning
      \/ /\ Range(stillRunning') = Range(stillRunning) \cup {r}
         /\ IsInjective(stillRunning')
         /\ status'[r] = "RUNNING"
  <2>1. stillRunning \in Seq(Requests) /\ IsInjective(stillRunning)
    BY DEF TypeOK, StillRunningPlace
  <2>2. CASE finishes
    BY <2>2
  <2>3. CASE goesOn
    <3>1. /\ Range(Append(stillRunning, r)) = Range(stillRunning) \cup {r}
          /\ IsInjective(Append(stillRunning, r))
      BY <2>1, <1>2, <1>5, AppendRange
    <3> QED BY <3>1, <2>3, <1>3
  <2> QED BY <2>2, <2>3, <1>1
<1> HIDE DEF r, finishes, goesOn
<1>8. WaitingPlace'
  BY <1>1, <1>3, <1>5, <1>6 DEF WaitingPlace
<1>9. ToPrefillPlace' /\ RunningPlace'
  BY <1>1, <1>5, RangeEmpty DEF ToPrefillPlace, RunningPlace
<1>10. StillRunningPlace'
  <2>1. /\ IsInjective(stillRunning')
        /\ Range(stillRunning') \subseteq Range(stillRunning) \cup {r}
    BY <1>7 DEF StillRunningPlace
  <2>2. /\ Range(stillRunning') \subseteq Range(arrivals')
        /\ Range(stillRunning') \cap Range(batch') = {}
    BY <2>1, <1>1, <1>2, <1>5 DEF StillRunningPlace
  <2>3. \A s \in Range(stillRunning) : status'[s] = "RUNNING" /\ numOutput'[s] >= 1
    BY <1>3, <1>5, <1>6 DEF StillRunningPlace
  <2>4. \A s \in Range(stillRunning') : status'[s] = "RUNNING" /\ numOutput'[s] >= 1
    BY <2>3, <1>4, <1>7
  <2> QED BY <2>1, <2>2, <2>4, <1>1 DEF StillRunningPlace
<1>11. BatchPlace'
  <2>1. Range(batch') \subseteq Range(arrivals')
    BY <1>1, <1>2 DEF BatchPlace
  <2>2. \A s \in Range(batch') : status'[s] = "RUNNING" /\ numOutput'[s] >= 1
    BY <1>1, <1>2, <1>3, <1>6 DEF BatchPlace
  <2> QED BY <2>1, <2>2, <1>1, <1>2 DEF BatchPlace
<1>12. NewPlace'
  BY <1>1, <1>3, <1>5 DEF NewPlace
<1> QED BY <1>8, <1>9, <1>10, <1>11, <1>12

\* After the last decoded request still_running becomes the running list.
LEMMA PlacesEndDecode ==
    ASSUME IInv, EndDecode
    PROVE  Places'
<1> USE DEF IInv, Places
<1>1. /\ pc = "emitDecode" /\ pc' = "loop" /\ batch = <<>>
      /\ running' = stillRunning /\ stillRunning' = <<>>
      /\ UNCHANGED <<status, numOutput, stream, waiting, toPrefill, batch, arrivals>>
  BY DEF EndDecode, requestVars
<1>2. WaitingPlace' /\ ToPrefillPlace' /\ NewPlace'
  BY <1>1 DEF WaitingPlace, ToPrefillPlace, NewPlace
<1>3. RunningPlace'
  BY <1>1 DEF RunningPlace, StillRunningPlace
<1>4. BatchPlace' /\ StillRunningPlace'
  BY <1>1, RangeEmpty DEF BatchPlace, StillRunningPlace
<1> QED BY <1>2, <1>3, <1>4

\* The steps that only move the scheduler thread on, or touch the flag.
Quiet == \/ BeginStep \/ EndAdmission \/ EndPrefill
         \/ Idle \/ Exit \/ Stopped \/ Start \/ Stop

\* Quiet steps change no request, queue or page, and move only along these edges.
LEMMA QuietChanges ==
    ASSUME Quiet
    PROVE  /\ UNCHANGED <<poolVars, requestVars, queueVars, statVars, toPrefill, batch,
                          stillRunning, arrivals, failures>>
           /\ \/ UNCHANGED pc
              \/ pc = "loop" /\ pc' \in {"admit", "stopped"}
              \/ pc = "admit" /\ pc' \in {"loop", "decode"} /\ toPrefill = <<>>
              \/ pc = "admit" /\ pc' = "prefill"
              \/ pc = "emitPrefill" /\ pc' \in {"loop", "decode"} /\ batch = <<>>
              \/ pc = "unstarted" /\ pc' = "loop"
BY DEF Quiet, BeginStep, EndAdmission, EndPrefill, Idle, Exit, Stopped, Start, Stop,
       AfterPrefill, vars, localVars

\* Quiet steps leave every request in its place.
LEMMA PlacesQuiet ==
    ASSUME IInv, Quiet
    PROVE  Places'
<1> USE DEF IInv, Places
<1>1. /\ UNCHANGED <<status, numOutput, stream, waiting, running, toPrefill, batch,
                     stillRunning, arrivals>>
      /\ \/ UNCHANGED pc
         \/ pc = "loop" /\ pc' \in {"admit", "stopped"}
         \/ pc = "admit" /\ pc' \in {"loop", "decode"} /\ toPrefill = <<>>
         \/ pc = "admit" /\ pc' = "prefill"
         \/ pc = "emitPrefill" /\ pc' \in {"loop", "decode"} /\ batch = <<>>
         \/ pc = "unstarted" /\ pc' = "loop"
  BY QuietChanges DEF requestVars, queueVars
<1>2. WaitingPlace' /\ NewPlace'
  BY <1>1 DEF WaitingPlace, NewPlace
<1>3. ToPrefillPlace' /\ StillRunningPlace'
  BY <1>1 DEF ToPrefillPlace, StillRunningPlace
<1>4. RunningPlace'
  BY <1>1 DEF RunningPlace
<1>5. BatchPlace'
  BY <1>1 DEF BatchPlace
<1> QED BY <1>2, <1>3, <1>4, <1>5

----------------------------------------------------------------------------
\* Budgets and StreamExact are preserved.

\* A token that is handled: the stream is one token longer, and ends if r does.
LEMMA StreamAfterToken ==
    ASSUME TypeOK, NEW r \in Requests, status[r] = "RUNNING", NEW token \in Nat,
           FinishRequest(r, token) \/ KeepGoing(r, token)
    PROVE  /\ stream'[r] \in Seq(Nat)
           /\ Streamed(r) \in Nat /\ Streamed(r)' = Streamed(r) + 1
           /\ \A k \in 1 .. Streamed(r) : stream'[r][k] = stream[r][k]
           /\ stream'[r][Streamed(r) + 1] = token
           /\ status'[r] = "FINISHED" => /\ stream'[r] # <<>>
                                         /\ Last(stream'[r]) = EndMark
           /\ UNCHANGED <<asked, numInput, maxNew>>
<1>1. stream[r] \in Seq(Nat) /\ Len(stream[r]) \in Nat /\ Streamed(r) = Len(stream[r])
  BY DEF TypeOK, Streamed
<1>2. UNCHANGED <<asked, numInput, maxNew>>
  BY DEF FinishRequest, KeepGoing
<1>3. CASE FinishRequest(r, token)
  <2> DEFINE t == stream[r] \o <<token, EndMark>>
  <2>1. stream'[r] = t /\ status'[r] = "FINISHED"
    BY <1>3 DEF FinishRequest, TypeOK
  <2>2. /\ t \in Seq(Nat) /\ Len(t) = Len(stream[r]) + 2
        /\ \A k \in 1 .. Len(stream[r]) : t[k] = stream[r][k]
        /\ t[Len(stream[r]) + 1] = token /\ t[Len(stream[r]) + 2] = EndMark
    BY <1>1, AppendTwo DEF EndMark
  <2> HIDE DEF t
  <2>3. Streamed(r)' = Len(stream[r]) + 1
    BY <2>1, <2>2, <1>1 DEF Streamed
  <2>4. t # <<>> /\ Last(t) = EndMark
    BY <2>2, <1>1 DEF Last
  <2> QED BY <1>1, <1>2, <2>1, <2>2, <2>3, <2>4
<1>4. CASE KeepGoing(r, token)
  <2>1. stream'[r] = Append(stream[r], token) /\ status'[r] = "RUNNING"
    BY <1>4 DEF KeepGoing, TypeOK
  <2>2. /\ stream'[r] \in Seq(Nat) /\ Len(stream'[r]) = Len(stream[r]) + 1
        /\ \A k \in 1 .. Len(stream[r]) : stream'[r][k] = stream[r][k]
        /\ stream'[r][Len(stream[r]) + 1] = token
    BY <1>1, <2>1, AppendProperties
  <2>3. Streamed(r)' = Len(stream[r]) + 1
    BY <2>1, <2>2, <1>1 DEF Streamed
  <2> QED BY <1>1, <1>2, <2>1, <2>2, <2>3
<1> QED BY <1>3, <1>4

\* The token is the next one of the request's sequence, at prefill and at decode.
NextToken(r) == asked[r].prompt + Streamed(r) + 1

\* A prefill computes the next token from the prompt, a decode from KvLength.
LEMMA EngineTokens ==
    ASSUME TypeOK, Budgets, NEW r \in Requests
    PROVE  /\ numOutput[r] = 0 => PrefillToken(r) = NextToken(r)
           /\ numOutput[r] >= 1 => DecodeToken(r) = NextToken(r)
           /\ NextToken(r) \in Nat
<1>1. numInput[r] \in Nat /\ numOutput[r] \in Nat
  BY DEF TypeOK
<1>2. numInput[r] + numOutput[r] = asked[r].prompt + Streamed(r)
  BY DEF Budgets, FoldConservesTokens
<1> QED BY <1>1, <1>2 DEF PrefillToken, DecodeToken, KvLength, NextToken

\* Sending the next token keeps what is left of the budget right and the stream
\* exact, whether or not the request finishes with it.
LEMMA TokenKeepsPromises ==
    ASSUME TypeOK, Budgets, StreamExact, NEW r \in Requests, status[r] = "RUNNING",
           \/ FinishRequest(r, NextToken(r))
           \/ ~ OutOfBudget(r) /\ KeepGoing(r, NextToken(r))
    PROVE  Budgets' /\ StreamExact'
<1> DEFINE n == Streamed(r)
<1>1. /\ stream'[r] \in Seq(Nat)
      /\ n \in Nat /\ Streamed(r)' = n + 1
      /\ \A k \in 1 .. n : stream'[r][k] = stream[r][k]
      /\ stream'[r][n + 1] = NextToken(r)
      /\ status'[r] = "FINISHED" => stream'[r] # <<>> /\ Last(stream'[r]) = EndMark
      /\ UNCHANGED <<asked, numInput, maxNew>>
  BY EngineTokens, StreamAfterToken
<1>2. /\ \A s \in Requests \ {r} : /\ status'[s] = status[s]
                                   /\ numOutput'[s] = numOutput[s]
                                   /\ stream'[s] = stream[s]
      /\ numOutput'[r] = numOutput[r] + 1
      /\ FinishRequest(r, NextToken(r)) => status'[r] = "FINISHED"
  BY TokenHandled
<1>3. \A s \in Requests \ {r} : Streamed(s)' = Streamed(s)
  BY <1>2 DEF Streamed
<1>4. /\ numOutput[r] \in Nat /\ maxNew[r] \in Nat /\ numInput[r] \in Nat
      /\ numOutput[r] < maxNew[r]
  BY DEF TypeOK, Budgets
<1>5. /\ numInput[r] + maxNew[r] = asked[r].prompt + asked[r].maxNew
      /\ numInput[r] + numOutput[r] = asked[r].prompt + n
  BY DEF Budgets, FoldConservesTokens
<1>6. asked[r].prompt \in Nat /\ asked[r].maxNew \in Nat
  BY SchedulerAssumption DEF TypeOK
<1>7. NextToken(r) = asked[r].prompt + (n + 1)
  <2>1. n \in Nat /\ NextToken(r) = asked[r].prompt + n + 1
    BY <1>1 DEF NextToken
  <2> HIDE DEF n
  <2> QED BY <2>1, <1>6
<1> HIDE DEF n
<1>8. Budgets'
  <2>1. FoldConservesTokens'
    <3>1. numInput[r] + numOutput'[r] = asked[r].prompt + Streamed(r)'
      <4>1. n \in Nat /\ Streamed(r)' = n + 1 /\ numOutput'[r] = numOutput[r] + 1
        BY <1>1, <1>2
      <4> QED BY <4>1, <1>4, <1>5, <1>6
    <3>2. \A s \in Requests \ {r} :
             /\ numInput'[s] + maxNew'[s] = asked'[s].prompt + asked'[s].maxNew
             /\ numInput'[s] + numOutput'[s] = asked'[s].prompt + Streamed(s)'
      BY <1>1, <1>2, <1>3 DEF Budgets, FoldConservesTokens
    <3> QED BY <3>1, <3>2, <1>1, <1>5 DEF FoldConservesTokens
  <2>2. /\ numOutput'[r] <= maxNew'[r]
        /\ status'[r] # "FINISHED" => numOutput'[r] < maxNew'[r]
    BY <1>1, <1>2, <1>4 DEF OutOfBudget
  <2>3. \A s \in Requests \ {r} :
           /\ numOutput'[s] <= maxNew'[s]
           /\ status'[s] # "FINISHED" => numOutput'[s] < maxNew'[s]
    BY <1>1, <1>2 DEF Budgets
  <2> QED BY <2>1, <2>2, <2>3 DEF Budgets
<1>9. StreamExact'
  <2>1. n + 1 <= asked[r].maxNew
    <3>1. n \in Nat
      BY <1>1
    <3> QED BY <3>1, <1>4, <1>5, <1>6
  <2>2. \A k \in 1 .. n + 1 : stream'[r][k] = asked[r].prompt + k
    <3> SUFFICES ASSUME NEW k \in 1 .. n + 1
                 PROVE  stream'[r][k] = asked[r].prompt + k
      OBVIOUS
    <3>1. CASE k = n + 1
      BY <3>1, <1>1, <1>7
    <3>2. CASE k # n + 1
      <4>1. k \in 1 .. n
        BY <3>2, <1>1
      <4>2. stream[r][k] = asked[r].prompt + k
        BY <4>1 DEF StreamExact, n
      <4> QED BY <4>1, <4>2, <1>1
    <3> QED BY <3>1, <3>2
  <2>3. \A s \in Requests \ {r} :
           /\ Streamed(s)' <= asked'[s].maxNew
           /\ \A k \in 1 .. Streamed(s)' : stream'[s][k] = asked'[s].prompt + k
           /\ status'[s] = "FINISHED" => stream'[s] # <<>> /\ Last(stream'[s]) = EndMark
    BY <1>1, <1>2, <1>3 DEF StreamExact
  <2> QED BY <2>1, <2>2, <2>3, <1>1 DEF StreamExact
<1> QED BY <1>8, <1>9

\* A step that changes no request keeps what clients were promised.
LEMMA PromisesUnchanged ==
    ASSUME Budgets, StreamExact,
           UNCHANGED <<asked, status, numInput, numOutput, maxNew, stream>>
    PROVE  Budgets' /\ StreamExact'
<1>1. \A s \in Requests : Streamed(s)' = Streamed(s)
  BY DEF Streamed
<1>2. Budgets'
  BY <1>1 DEF Budgets, FoldConservesTokens
<1>3. StreamExact'
  BY <1>1 DEF StreamExact
<1> QED BY <1>2, <1>3

\* A rejected request's stream is closed with the end mark and nothing else.
LEMMA PromisesReject ==
    ASSUME IInv, RejectHead
    PROVE  Budgets' /\ StreamExact'
<1> USE DEF IInv
<1>1. waiting # <<>>
  BY DEF RejectHead, RoomToAdmit
<1>2. PICK r \in Requests : r = Head(waiting) /\ status[r] = "WAITING"
  BY <1>1, HeadOfQueue DEF Places, WaitingPlace
<1>3. /\ status' = [status EXCEPT ![r] = "FINISHED"]
      /\ stream' = [stream EXCEPT ![r] = Append(@, EndMark)]
      /\ UNCHANGED <<asked, numInput, numOutput, maxNew>>
  BY <1>2 DEF RejectHead, Reject
<1>4. /\ \A s \in Requests \ {r} : status'[s] = status[s] /\ stream'[s] = stream[s]
      /\ status'[r] = "FINISHED"
      /\ stream'[r] = Append(stream[r], EndMark)
      /\ stream[r] \in Seq(Nat) /\ EndMark \in Nat
  BY <1>2, <1>3 DEF TypeOK, EndMark
<1>5. /\ stream'[r] \in Seq(Nat) /\ Len(stream'[r]) = Len(stream[r]) + 1
      /\ \A k \in 1 .. Len(stream[r]) : stream'[r][k] = stream[r][k]
      /\ stream'[r][Len(stream[r]) + 1] = EndMark
  BY <1>4, AppendProperties
<1>6. Len(stream[r]) \in Nat
  BY <1>4
<1>7. /\ stream'[r] # <<>> /\ Last(stream'[r]) = EndMark
  <2>1. stream'[r] # <<>>
    BY <1>4, AppendRange
  <2>2. Last(stream'[r]) = stream'[r][Len(stream[r]) + 1]
    BY <1>5 DEF Last
  <2> QED BY <2>1, <2>2, <1>5
<1>8. Streamed(r) = Len(stream[r]) /\ Streamed(r)' = Streamed(r)
  BY <1>2, <1>4, <1>5, <1>6 DEF Streamed
<1>9. \A s \in Requests : Streamed(s)' = Streamed(s)
  BY <1>4, <1>8 DEF Streamed
<1>10. Budgets'
  BY <1>3, <1>4, <1>9 DEF Budgets, FoldConservesTokens
<1>11. StreamExact'
  <2>1. \A s \in Requests : Streamed(s)' <= asked'[s].maxNew
    BY <1>3, <1>9 DEF StreamExact
  <2>2. \A k \in 1 .. Streamed(r) : stream'[r][k] = asked[r].prompt + k
    BY <1>2, <1>5, <1>8 DEF StreamExact
  <2>3. /\ status'[r] = "FINISHED" => stream'[r] # <<>> /\ Last(stream'[r]) = EndMark
        /\ \A k \in 1 .. Streamed(r)' : stream'[r][k] = asked'[r].prompt + k
    BY <2>2, <1>3, <1>7, <1>8
  <2>4. ASSUME NEW s \in Requests \ {r}
        PROVE  /\ \A k \in 1 .. Streamed(s)' : stream'[s][k] = asked'[s].prompt + k
               /\ status'[s] = "FINISHED" => stream'[s] # <<>> /\ Last(stream'[s]) = EndMark
    BY <1>3, <1>4, <1>9 DEF StreamExact
  <2> QED BY <2>1, <2>3, <2>4 DEF StreamExact
<1> QED BY <1>10, <1>11

\* Folding moves tokens from the outputs to the prompt and off the budget.
LEMMA PromisesEvict ==
    ASSUME IInv, EvictForHead
    PROVE  Budgets' /\ StreamExact'
<1> USE DEF IInv
<1>1. PICK i \in DOMAIN running : IsVictim(i) /\ Evict(i)
  BY DEF EvictForHead
<1> DEFINE v == running[i]
<1>2. v \in Requests /\ v \in Range(running)
  <2>1. running \in Seq(Requests)
    BY DEF TypeOK
  <2> QED BY <2>1, RangeType
<1>3. status[v] = "RUNNING"
  BY <1>2 DEF EvictForHead, Places, RunningPlace
<1>4. /\ numInput' = [numInput EXCEPT ![v] = @ + numOutput[v]]
      /\ maxNew' = [maxNew EXCEPT ![v] = @ - numOutput[v]]
      /\ numOutput' = [numOutput EXCEPT ![v] = 0]
      /\ status' = [status EXCEPT ![v] = "WAITING"]
      /\ UNCHANGED <<asked, stream>>
  BY <1>1 DEF EvictForHead, Evict, Fold
<1> HIDE DEF v
<1>5. /\ \A s \in Requests \ {v} : /\ status'[s] = status[s]
                                   /\ numInput'[s] = numInput[s]
                                   /\ numOutput'[s] = numOutput[s]
                                   /\ maxNew'[s] = maxNew[s]
      /\ status'[v] = "WAITING"
      /\ numInput'[v] = numInput[v] + numOutput[v]
      /\ numOutput'[v] = 0
      /\ maxNew'[v] = maxNew[v] - numOutput[v]
  BY <1>2, <1>4 DEF TypeOK
<1>6. \A s \in Requests : Streamed(s)' = Streamed(s)
  BY <1>3, <1>4, <1>5 DEF Streamed
<1>7. /\ numInput[v] \in Nat /\ numOutput[v] \in Nat /\ maxNew[v] \in Nat
      /\ numOutput[v] < maxNew[v]
  BY <1>2, <1>3 DEF TypeOK, Budgets
<1>8. Budgets'
  <2>1. /\ numInput[v] + maxNew[v] = asked[v].prompt + asked[v].maxNew
        /\ numInput[v] + numOutput[v] = asked[v].prompt + Streamed(v)
    BY <1>2 DEF Budgets, FoldConservesTokens
  <2>2. /\ numInput'[v] + maxNew'[v] = asked[v].prompt + asked[v].maxNew
        /\ numInput'[v] + numOutput'[v] = asked[v].prompt + Streamed(v)
        /\ numOutput'[v] <= maxNew'[v] /\ numOutput'[v] < maxNew'[v]
    BY <2>1, <1>5, <1>7
  <2>3. \A s \in Requests \ {v} :
           /\ numInput'[s] + maxNew'[s] = asked[s].prompt + asked[s].maxNew
           /\ numInput'[s] + numOutput'[s] = asked[s].prompt + Streamed(s)
           /\ numOutput'[s] <= maxNew'[s]
           /\ status'[s] # "FINISHED" => numOutput'[s] < maxNew'[s]
    BY <1>5 DEF Budgets, FoldConservesTokens
  <2> QED BY <2>2, <2>3, <1>4, <1>6 DEF Budgets, FoldConservesTokens
<1>9. StreamExact'
  BY <1>3, <1>4, <1>5, <1>6 DEF StreamExact
<1> QED BY <1>8, <1>9

\* A prefill sends nothing.
LEMMA PromisesPrefill ==
    ASSUME IInv, Prefill
    PROVE  Budgets' /\ StreamExact'
<1> USE DEF IInv
<1>1. UNCHANGED <<asked, numInput, numOutput, maxNew, stream>>
  BY DEF Prefill
<1>2. \A s \in Requests : status'[s] = IF s \in Range(toPrefill) THEN "RUNNING"
                                                                  ELSE status[s]
  BY DEF Prefill
<1>3. \A s \in Requests : status'[s] = "FINISHED" <=> status[s] = "FINISHED"
  BY <1>2 DEF Places, ToPrefillPlace
<1>4. \A s \in Requests : Streamed(s)' = Streamed(s)
  BY <1>1, <1>3 DEF Streamed
<1>5. Budgets'
  BY <1>1, <1>3, <1>4 DEF Budgets, FoldConservesTokens
<1>6. StreamExact'
  BY <1>1, <1>3, <1>4 DEF StreamExact
<1> QED BY <1>5, <1>6

\* Each turn of the two token loops sends the one token that comes next.
LEMMA PromisesEmit ==
    ASSUME IInv, EmitPrefill \/ EmitDecode
    PROVE  Budgets' /\ StreamExact'
<1> USE DEF IInv
<1> DEFINE r == Head(batch)
<1>1. batch # <<>>
  BY DEF EmitPrefill, EmitDecode
<1>2. r \in Requests /\ r \in Range(batch)
  BY <1>1, HeadOfBatch
<1>3. status[r] = "RUNNING"
  BY <1>2 DEF Places, BatchPlace
<1>4. CASE EmitPrefill
  <2>1. PrefillToken(r) = NextToken(r)
    BY <1>2, <1>4, EngineTokens DEF EmitPrefill, Places, BatchPlace
  <2>2. \/ FinishRequest(r, NextToken(r))
        \/ ~ OutOfBudget(r) /\ KeepGoing(r, NextToken(r))
    BY <1>4, <2>1 DEF EmitPrefill
  <2> QED BY <2>2, <1>2, <1>3, TokenKeepsPromises
<1>5. CASE EmitDecode
  <2>1. DecodeToken(r) = NextToken(r)
    BY <1>2, <1>5, EngineTokens DEF EmitDecode, Places, BatchPlace
  <2>2. \/ FinishRequest(r, NextToken(r))
        \/ ~ OutOfBudget(r) /\ KeepGoing(r, NextToken(r))
    BY <1>5, <2>1 DEF EmitDecode
  <2> QED BY <2>2, <1>2, <1>3, TokenKeepsPromises
<1> QED BY <1>4, <1>5

----------------------------------------------------------------------------
\* PoolPartitioned and PageTables are preserved.

\* A step that touches no page keeps the partition.
LEMMA PartitionUnchanged ==
    ASSUME PoolPartitioned, UNCHANGED <<poolVars, kv>>
    PROVE  PoolPartitioned'
<1>1. free' = free /\ refcount' = refcount /\ kv' = kv
  BY DEF poolVars
<1>2. PoolTypeOK' /\ PagesExclusive'
  BY <1>1 DEF PoolPartitioned, PoolTypeOK, PagesExclusive, Scratch, Pages
<1> QED BY <1>1, <1>2 DEF PoolPartitioned, Scratch, Pages

\* A rejected request had no pages.
LEMMA PagesReject ==
    ASSUME IInv, RejectHead
    PROVE  PoolPartitioned' /\ PageTables'
<1> USE DEF IInv
<1>1. waiting # <<>>
  BY DEF RejectHead, RoomToAdmit
<1>2. PICK r \in Requests : r = Head(waiting) /\ r \in Range(waiting)
  BY <1>1, HeadOfQueue
<1>3. status[r] = "WAITING" /\ r \notin Range(toPrefill)
  BY <1>2 DEF Places, WaitingPlace, ToPrefillPlace
<1>4. /\ status' = [status EXCEPT ![r] = "FINISHED"]
      /\ UNCHANGED <<poolVars, asked, kv, toPrefill>>
  BY <1>2 DEF RejectHead, Reject, localVars
<1>5. /\ \A s \in Requests \ {r} : status'[s] = status[s]
      /\ status'[r] = "FINISHED"
  BY <1>4 DEF TypeOK
<1>6. PoolPartitioned'
  BY <1>4, PartitionUnchanged
<1>7. PageTables'
  BY <1>3, <1>4, <1>5 DEF PageTables, PagesNeeded
<1> QED BY <1>6, <1>7

\* An evicted request's pages are free again, and it is not running.
LEMMA PagesEvict ==
    ASSUME IInv, EvictForHead
    PROVE  PoolPartitioned' /\ PageTables'
<1> USE DEF IInv
<1>1. PICK i \in DOMAIN running : IsVictim(i) /\ Evict(i)
  BY DEF EvictForHead
<1>2. PICK v \in Requests : v = running[i] /\ v \in Range(running)
  <2>1. running \in Seq(Requests)
    BY DEF TypeOK
  <2> QED BY <2>1, RangeType
<1>3. status[v] = "RUNNING" /\ v \notin Range(toPrefill)
  BY <1>2 DEF EvictForHead, Places, RunningPlace, ToPrefillPlace
<1>4. /\ ReleaseKv(v)
      /\ status' = [status EXCEPT ![v] = "WAITING"]
      /\ UNCHANGED <<asked, toPrefill>>
  BY <1>1, <1>2 DEF EvictForHead, Evict
<1>5. PoolPartitioned' /\ kv' = [kv EXCEPT ![v] = <<>>]
  BY <1>4, ReleaseKeepsPartition
<1>6. /\ \A s \in Requests \ {v} : status'[s] = status[s] /\ kv'[s] = kv[s]
      /\ status'[v] = "WAITING" /\ kv'[v] = <<>>
  BY <1>4, <1>5 DEF TypeOK
<1>7. PageTables'
  BY <1>3, <1>4, <1>6 DEF PageTables, PagesNeeded
<1> QED BY <1>5, <1>7

\* An admitted request gets exactly the pages of its prompt plus budget.
LEMMA PagesAdmit ==
    ASSUME IInv, AdmitHead
    PROVE  PoolPartitioned' /\ PageTables'
<1> USE DEF IInv
<1>1. waiting # <<>>
  BY DEF AdmitHead, RoomToAdmit
<1>2. PICK r \in Requests : r = Head(waiting) /\ r \in Range(waiting)
  BY <1>1, HeadOfQueue
<1>3. status[r] = "WAITING" /\ r \notin Range(toPrefill) /\ kv[r] = <<>>
  BY <1>2 DEF Places, WaitingPlace, ToPrefillPlace, PageTables
<1> DEFINE n == Needed(r)
<1>4. /\ Allocate(n) /\ kv' = [kv EXCEPT ![r] = Allocated(n)]
      /\ toPrefill' = Append(toPrefill, r)
      /\ UNCHANGED <<asked, status>>
  BY <1>2 DEF AdmitHead
<1>5. /\ Budget(r) = asked[r].prompt + asked[r].maxNew
      /\ Budget(r) \in Nat \ {0}
  <2>1. numInput[r] + maxNew[r] = asked[r].prompt + asked[r].maxNew
    BY DEF Budgets, FoldConservesTokens
  <2>2. asked[r].prompt \in Nat \ {0} /\ asked[r].maxNew \in Nat
    BY SchedulerAssumption DEF TypeOK
  <2> QED BY <2>1, <2>2 DEF Budget
<1>6. n \in Nat /\ n # 0
  <2>1. n \in Nat /\ Budget(r) <= n * PageSize
    BY <1>5, PagesNeededCovers DEF Needed
  <2> QED BY <2>1, <1>5, PoolAssumption
<1> HIDE DEF n
<1>7. PoolPartitioned' /\ Len(kv'[r]) = n
  BY <1>3, <1>4, <1>6, AllocateKeepsPartition
<1>8. /\ \A s \in Requests \ {r} : kv'[s] = kv[s]
      /\ kv'[r] # <<>>
  <2>1. kv' \in [Requests -> Seq(Pages)]
    BY <1>7 DEF PoolPartitioned, Pages
  <2>2. \A s \in Requests \ {r} : kv'[s] = kv[s]
    BY <1>4 DEF TypeOK
  <2> QED BY <2>2, <1>6, <1>7
<1>9. Range(toPrefill') = Range(toPrefill) \cup {r}
  BY <1>4, AppendRange DEF TypeOK
<1>10. n = PagesNeeded(asked[r].prompt + asked[r].maxNew)
  BY <1>5 DEF n, Needed
<1>11. PageTables'
  BY <1>4, <1>7, <1>8, <1>9, <1>10 DEF PageTables, PagesNeeded
<1> QED BY <1>7, <1>11

\* A prefilled request keeps its pages, also when the call raises.
LEMMA PagesPrefill ==
    ASSUME IInv, Prefill
    PROVE  PoolPartitioned' /\ PageTables'
<1> USE DEF IInv
<1>1. UNCHANGED <<poolVars, asked, kv>> /\ toPrefill' = <<>>
  BY DEF Prefill
<1>2. \A s \in Requests : status'[s] = IF s \in Range(toPrefill) THEN "RUNNING"
                                                                  ELSE status[s]
  BY DEF Prefill
<1>3. PoolPartitioned'
  BY <1>1, PartitionUnchanged
<1>4. PageTables'
  BY <1>1, <1>2, RangeEmpty DEF PageTables, PagesNeeded
<1> QED BY <1>3, <1>4

\* A request keeps its pages until it finishes.
LEMMA PagesEmit ==
    ASSUME IInv, EmitPrefill \/ EmitDecode
    PROVE  PoolPartitioned' /\ PageTables'
<1> USE DEF IInv
<1>1. batch # <<>> /\ toPrefill' = toPrefill
  BY DEF EmitPrefill, EmitDecode
<1>2. PICK r \in Requests : r = Head(batch) /\ r \in Range(batch)
  BY <1>1, HeadOfBatch
<1>3. PICK token : FinishRequest(r, token) \/ KeepGoing(r, token)
  BY <1>2 DEF EmitPrefill, EmitDecode
<1>4. status[r] = "RUNNING" /\ r \notin Range(toPrefill)
  BY <1>2 DEF Places, BatchPlace, ToPrefillPlace
<1>5. CASE FinishRequest(r, token)
  <2>1. PoolPartitioned' /\ kv' = [kv EXCEPT ![r] = <<>>]
    BY <1>5, ReleaseKeepsPartition DEF FinishRequest
  <2>2. status' = [status EXCEPT ![r] = "FINISHED"] /\ UNCHANGED asked
    BY <1>5 DEF FinishRequest
  <2>3. /\ \A s \in Requests \ {r} : status'[s] = status[s] /\ kv'[s] = kv[s]
        /\ status'[r] = "FINISHED" /\ kv'[r] = <<>>
    BY <2>1, <2>2 DEF TypeOK
  <2>4. PageTables'
    BY <2>2, <2>3, <1>1, <1>4 DEF PageTables, PagesNeeded
  <2> QED BY <2>1, <2>4
<1>6. CASE KeepGoing(r, token)
  <2>1. UNCHANGED <<poolVars, asked, status, kv>>
    BY <1>6 DEF KeepGoing
  <2>2. PoolPartitioned'
    BY <2>1, PartitionUnchanged
  <2>3. PageTables'
    BY <2>1, <1>1 DEF PageTables, PagesNeeded
  <2> QED BY <2>2, <2>3
<1> QED BY <1>3, <1>5, <1>6

\* A step that changes neither pages nor statuses keeps both invariants.
LEMMA PagesUnchanged ==
    ASSUME PoolPartitioned, PageTables, UNCHANGED <<poolVars, asked, status, kv, toPrefill>>
    PROVE  PoolPartitioned' /\ PageTables'
BY PartitionUnchanged DEF PageTables, PagesNeeded

----------------------------------------------------------------------------
\* TypeOK is preserved.  The pool and the page tables are PoolPartitioned's.

RequestTypes ==
    /\ asked \in [Requests -> [prompt : PromptLens, maxNew : MaxNews]]
    /\ status \in [Requests -> {"WAITING", "RUNNING", "FINISHED"}]
    /\ numInput \in [Requests -> Nat]
    /\ numOutput \in [Requests -> Nat]
    /\ maxNew \in [Requests -> Nat]
    /\ stream \in [Requests -> Seq(Nat)]

QueueTypes ==
    /\ waiting \in Seq(Requests) /\ running \in Seq(Requests)
    /\ toPrefill \in Seq(Requests) /\ batch \in Seq(Requests)
    /\ stillRunning \in Seq(Requests) /\ arrivals \in Seq(Requests)

CounterTypes ==
    /\ runningFlag \in BOOLEAN
    /\ totalFinished \in Nat /\ totalGenerated \in Nat
    /\ pc \in ProgramCounters
    /\ packedTokens \in Nat /\ evictionsLeft \in Nat
    /\ failures \in Nat

\* TypeOK is the conjunction of its parts.
LEMMA TypeParts ==
    /\ TypeOK <=> /\ RequestTypes /\ QueueTypes /\ CounterTypes
                  /\ PoolTypeOK /\ kv \in [Requests -> Seq(Pages)]
    /\ TypeOK' <=> /\ RequestTypes' /\ QueueTypes' /\ CounterTypes'
                   /\ PoolTypeOK' /\ kv' \in [Requests -> Seq(Pages)]
BY DEF TypeOK, RequestTypes, QueueTypes, CounterTypes, Pages

\* The queues and batches hold requests after every step.
LEMMA QueueTypesKept ==
    ASSUME IInv, Next
    PROVE  QueueTypes'
<1> USE DEF IInv, QueueTypes
<1>1. QueueTypes
  BY TypeParts
<1>2. ASSUME NEW r \in Requests, AddRequest(r) PROVE QueueTypes'
  BY <1>1, <1>2, AppendRange DEF AddRequest, localVars
<1>3. CASE RejectHead
  BY <1>1, <1>3, HeadOfQueue DEF RejectHead, RoomToAdmit, localVars
<1>4. CASE EvictForHead
  <2>1. PICK i \in DOMAIN running : Evict(i)
    BY <1>4 DEF EvictForHead
  <2>2. i \in 1 .. Len(running) /\ running[i] \in Requests
    BY <1>1, RangeType
  <2>3. running' \in Seq(Requests)
    BY <2>1, <2>2, <1>1, RemoveAtRange DEF Evict, LeaveRunning
  <2>4. waiting' \in Seq(Requests)
    BY <2>1, <2>2, <1>1, PushFrontRange DEF Evict, Requeue
  <2> QED BY <2>3, <2>4, <1>1, <1>4 DEF EvictForHead
<1>5. CASE AdmitHead
  <2>1. waiting # <<>>
    BY <1>5 DEF AdmitHead, RoomToAdmit
  <2>2. Head(waiting) \in Requests /\ waiting' \in Seq(Requests)
    BY <2>1, <1>5, HeadOfQueue DEF AdmitHead
  <2>3. toPrefill' \in Seq(Requests)
    BY <2>2, <1>1, <1>5, AppendRange DEF AdmitHead
  <2> QED BY <2>2, <2>3, <1>1, <1>5 DEF AdmitHead
<1>6. CASE Prefill \/ Decode
  <2>1. /\ UNCHANGED <<waiting, running, stillRunning, arrivals>>
        /\ toPrefill' = toPrefill \/ toPrefill' = <<>>
        /\ batch' = batch \/ batch' = toPrefill \/ batch' = running
    BY <1>6 DEF Prefill, Decode, queueVars
  <2>2. toPrefill' \in Seq(Requests)
    <3>1. <<>> \in Seq(Requests)
      OBVIOUS
    <3> QED BY <3>1, <2>1, <1>1
  <2>3. batch' \in Seq(Requests)
    BY <2>1, <1>1
  <2> QED BY <2>1, <2>2, <2>3, <1>1
<1>7. CASE EmitPrefill
  <2>1. batch # <<>>
    BY <1>7 DEF EmitPrefill
  <2>2. Head(batch) \in Requests /\ batch' \in Seq(Requests)
    BY <2>1, <1>7, HeadOfBatch DEF EmitPrefill
  <2>3. running' \in Seq(Requests)
    <3>1. running' = running \/ running' = Append(running, Head(batch))
      BY <1>7 DEF EmitPrefill
    <3>2. Append(running, Head(batch)) \in Seq(Requests)
      BY <2>2, <1>1, AppendRange
    <3> QED BY <3>1, <3>2, <1>1
  <2> QED BY <2>2, <2>3, <1>1, <1>7 DEF EmitPrefill
<1>8. CASE EmitDecode
  <2>1. batch # <<>>
    BY <1>8 DEF EmitDecode
  <2>2. Head(batch) \in Requests /\ batch' \in Seq(Requests)
    BY <2>1, <1>8, HeadOfBatch DEF EmitDecode
  <2>3. stillRunning' \in Seq(Requests)
    <3>1. stillRunning' = stillRunning \/ stillRunning' = Append(stillRunning, Head(batch))
      BY <1>8 DEF EmitDecode
    <3>2. Append(stillRunning, Head(batch)) \in Seq(Requests)
      BY <2>2, <1>1, AppendRange
    <3> QED BY <3>1, <3>2, <1>1
  <2> QED BY <2>2, <2>3, <1>1, <1>8 DEF EmitDecode, queueVars
<1>9. CASE EndDecode
  BY <1>1, <1>9 DEF EndDecode
<1>10. CASE Quiet
  BY <1>1, <1>10, QuietChanges DEF queueVars
<1> QED BY <1>2, <1>3, <1>4, <1>5, <1>6, <1>7, <1>8, <1>9, <1>10
        DEF Next, SchedulerStep, Admission, EngineStep, OtherThreads, Quiet

\* The requests' fields keep their types; folding never makes a budget negative.
LEMMA RequestTypesKept ==
    ASSUME IInv, Next
    PROVE  RequestTypes'
<1> USE DEF IInv, RequestTypes
<1>1. RequestTypes
  BY TypeParts
<1>2. CASE RejectHead
  <2>1. PICK r \in Requests : r = Head(waiting)
    BY <1>2, HeadOfQueue DEF RejectHead, RoomToAdmit
  <2>2. Append(stream[r], EndMark) \in Seq(Nat)
    BY <1>1 DEF EndMark
  <2> QED BY <2>1, <2>2, <1>1, <1>2 DEF RejectHead, Reject
<1>3. CASE EvictForHead
  <2>1. PICK i \in DOMAIN running : Evict(i)
    BY <1>3 DEF EvictForHead
  <2>2. PICK v \in Requests : v = running[i] /\ v \in Range(running)
    <3>1. running \in Seq(Requests)
      BY DEF TypeOK
    <3> QED BY <3>1, RangeType
  <2>3. numOutput[v] <= maxNew[v] /\ numOutput[v] \in Nat /\ maxNew[v] \in Nat
    BY <1>1 DEF Budgets
  <2>4. maxNew[v] - numOutput[v] \in Nat /\ numInput[v] + numOutput[v] \in Nat
    BY <2>3, <1>1
  <2> QED BY <2>1, <2>2, <2>4, <1>1, <1>3 DEF EvictForHead, Evict, Fold
<1>4. CASE Prefill
  BY <1>1, <1>4 DEF Prefill
<1>5. CASE EmitPrefill \/ EmitDecode
  <2>1. batch # <<>>
    BY <1>5 DEF EmitPrefill, EmitDecode
  <2>2. PICK r \in Requests : r = Head(batch) /\ r \in Range(batch)
    BY <2>1, HeadOfBatch
  <2>3. PrefillToken(r) \in Nat /\ DecodeToken(r) \in Nat
    BY <1>1 DEF PrefillToken, DecodeToken, KvLength
  <2>4. PICK token \in Nat : FinishRequest(r, token) \/ KeepGoing(r, token)
    BY <2>2, <2>3, <1>5 DEF EmitPrefill, EmitDecode
  <2>5. /\ Append(stream[r], token) \in Seq(Nat)
        /\ stream[r] \o <<token, EndMark>> \in Seq(Nat)
    <3>1. stream[r] \in Seq(Nat) /\ EndMark \in Nat
      BY <1>1 DEF EndMark
    <3>2. Append(stream[r], token) \in Seq(Nat)
      BY <3>1
    <3>3. stream[r] \o <<token, EndMark>> \in Seq(Nat)
      BY <3>1, AppendTwo
    <3> QED BY <3>2, <3>3
  <2>6. CASE FinishRequest(r, token)
    <3>1. /\ numOutput' = [numOutput EXCEPT ![r] = @ + 1]
          /\ stream' = [stream EXCEPT ![r] = @ \o <<token, EndMark>>]
          /\ status' = [status EXCEPT ![r] = "FINISHED"]
          /\ UNCHANGED <<asked, numInput, maxNew>>
      BY <2>6 DEF FinishRequest
    <3>2. numOutput' \in [Requests -> Nat]
      BY <3>1, <1>1
    <3>3. stream' \in [Requests -> Seq(Nat)]
      BY <3>1, <2>5, <1>1
    <3>4. status' \in [Requests -> {"WAITING", "RUNNING", "FINISHED"}]
      BY <3>1, <1>1
    <3> QED BY <3>1, <3>2, <3>3, <3>4, <1>1
  <2>7. CASE KeepGoing(r, token)
    BY <2>5, <2>7, <1>1 DEF KeepGoing
  <2> QED BY <2>4, <2>6, <2>7
<1>6. CASE \/ AdmitHead \/ Decode \/ EndDecode
           \/ \E r \in Requests : AddRequest(r)
  BY <1>1, <1>6 DEF AdmitHead, Decode, EndDecode, AddRequest, requestVars
<1>7. CASE Quiet
  BY <1>1, <1>7, QuietChanges DEF requestVars
<1> QED BY <1>2, <1>3, <1>4, <1>5, <1>6, <1>7
        DEF Next, SchedulerStep, Admission, EngineStep, OtherThreads, Quiet

\* The counters keep their types; evictions_remaining never goes below zero.
LEMMA CounterTypesKept ==
    ASSUME IInv, Next
    PROVE  CounterTypes'
<1> USE DEF IInv, CounterTypes
<1>1. CounterTypes /\ RequestTypes
  BY TypeParts
<1>2. CASE BeginStep
  <2>1. Len(running) \in Nat
    BY DEF TypeOK
  <2> QED BY <2>1, <1>1, <1>2 DEF BeginStep, statVars, ProgramCounters
<1>3. CASE RejectHead
  BY <1>1, <1>3 DEF RejectHead, Reject, localVars
<1>4. CASE EvictForHead
  BY <1>1, <1>4 DEF EvictForHead, MayEvict, statVars
<1>5. CASE AdmitHead
  <2>1. waiting # <<>>
    BY <1>5 DEF AdmitHead, RoomToAdmit
  <2>2. numInput[Head(waiting)] \in Nat
    BY <2>1, <1>1, HeadOfQueue DEF RequestTypes
  <2> QED BY <2>2, <1>1, <1>5 DEF AdmitHead, statVars
<1>6. CASE EndAdmission
  BY <1>1, <1>6 DEF EndAdmission, AfterPrefill, statVars, ProgramCounters
<1>7. CASE Prefill \/ Decode
  BY <1>1, <1>7 DEF Prefill, Decode, statVars, ProgramCounters
<1>8. CASE EmitPrefill \/ EmitDecode
  <2>1. batch # <<>>
    BY <1>8 DEF EmitPrefill, EmitDecode
  <2>2. PICK r \in Requests : r = Head(batch)
    BY <2>1, HeadOfBatch
  <2>3. PICK token : FinishRequest(r, token) \/ KeepGoing(r, token)
    BY <2>2, <1>8 DEF EmitPrefill, EmitDecode
  <2>4. totalFinished' \in Nat /\ totalGenerated' \in Nat
    <3>1. totalFinished \in Nat /\ totalGenerated \in Nat /\ numOutput[r] \in Nat
      BY <1>1 DEF RequestTypes
    <3> QED BY <2>3, <3>1 DEF FinishRequest, KeepGoing, statVars
  <2>5. UNCHANGED <<runningFlag, pc, packedTokens, evictionsLeft, failures>>
    BY <1>8 DEF EmitPrefill, EmitDecode
  <2> QED BY <2>4, <2>5, <1>1
<1>9. CASE \/ EndPrefill \/ EndDecode \/ Idle \/ Exit \/ Stopped \/ Start \/ Stop
           \/ \E r \in Requests : AddRequest(r)
  BY <1>1, <1>9 DEF EndPrefill, EndDecode, Idle, Exit, Stopped, Start, Stop, AddRequest,
                    AfterPrefill, statVars, localVars, vars, ProgramCounters
<1> QED BY <1>2, <1>3, <1>4, <1>5, <1>6, <1>7, <1>8, <1>9
        DEF Next, SchedulerStep, Admission, EngineStep, OtherThreads

----------------------------------------------------------------------------
\* The inductive invariant, and what follows from it.

\* The invariant holds when the scheduler has been built.
LEMMA InitEstablishes == Init => IInv
<1> SUFFICES ASSUME Init PROVE IInv
  OBVIOUS
<1> USE DEF Init, RequestInit
<1> DEFINE n == NumPages - ScratchPages
<1>1. n \in Nat /\ NumPages \in Nat /\ ScratchPages \in Nat /\ ScratchPages <= NumPages
  BY PoolAssumption, SchedulerAssumption
<1>2. /\ free = [i \in 1 .. n |-> ScratchPages + i - 1]
      /\ refcount = [p \in Pages |-> IF p < ScratchPages THEN 1 ELSE 0]
  BY DEF PoolAfterScratch
<1> HIDE DEF n
<1>3. free \in Seq(Pages) /\ Len(free) = n /\ DOMAIN free = 1 .. n
  <2>1. \A i \in 1 .. n : ScratchPages + i - 1 \in Pages
    BY <1>1 DEF Pages, n
  <2> QED BY <2>1, <1>1, <1>2
<1>4. IsInjective(free)
  BY <1>1, <1>2, <1>3 DEF IsInjective
<1>5. Range(free) = ScratchPages .. NumPages - 1
  <2>1. Range(free) \subseteq ScratchPages .. NumPages - 1
    BY <1>1, <1>2, <1>3 DEF Range, n
  <2>2. ASSUME NEW p \in ScratchPages .. NumPages - 1 PROVE p \in Range(free)
    <3>1. p - ScratchPages + 1 \in 1 .. n
      BY <1>1 DEF n
    <3>2. free[p - ScratchPages + 1] = p
      BY <3>1, <1>1, <1>2
    <3> QED BY <3>1, <3>2, <1>3 DEF Range
  <2> QED BY <2>1, <2>2
<1>6. \A r \in Requests : kv[r] = <<>>
  OBVIOUS
<1>7. PoolTypeOK
  BY <1>1, <1>2, <1>3 DEF PoolTypeOK, Pages
<1>8. PagesExclusive
  BY <1>1, <1>4, <1>5, <1>6, RangeEmpty DEF PagesExclusive, Scratch
<1>9. PoolPartitioned
  <2>1. kv \in [Requests -> Seq(Pages)]
    OBVIOUS
  <2>2. Pages = Range(free) \cup Scratch
    BY <1>1, <1>5 DEF Pages, Scratch
  <2>3. UNION {Range(kv[r]) : r \in Requests} = {}
    BY <1>6, RangeEmpty
  <2>4. \A p \in Pages : refcount[p] = IF p \in Range(free) THEN 0 ELSE 1
    BY <1>1, <1>2, <1>5 DEF Pages
  <2> QED BY <2>1, <2>2, <2>3, <2>4, <1>7, <1>8 DEF PoolPartitioned
<1>10. \A r \in Requests : asked[r].prompt \in Nat /\ asked[r].maxNew \in Nat \ {0}
  BY SchedulerAssumption
<1>11. TypeOK
  <2>1. RequestTypes
    BY <1>10 DEF RequestTypes
  <2>2. <<>> \in Seq(Requests)
    OBVIOUS
  <2>3. QueueTypes /\ CounterTypes
    BY <2>2 DEF QueueTypes, CounterTypes, ProgramCounters
  <2>4. kv \in [Requests -> Seq(Pages)]
    OBVIOUS
  <2> QED BY <2>1, <2>3, <2>4, <1>7, TypeParts
<1>12. Places
  BY RangeEmpty DEF Places, WaitingPlace, ToPrefillPlace, RunningPlace, BatchPlace,
                    StillRunningPlace, NewPlace
<1>13. \A r \in Requests : Streamed(r) = 0
  BY DEF Streamed
<1>14. Budgets
  BY <1>10, <1>13 DEF Budgets, FoldConservesTokens
<1>15. StreamExact
  BY <1>10, <1>13 DEF StreamExact
<1>16. PageTables
  BY RangeEmpty DEF PageTables
<1> QED BY <1>9, <1>11, <1>12, <1>14, <1>15, <1>16 DEF IInv

\* Every step, and every step of another thread, keeps the invariant.
LEMMA StepPreserves == IInv /\ [Next]_vars => IInv'
<1> SUFFICES ASSUME IInv, [Next]_vars PROVE IInv'
  OBVIOUS
<1>1. CASE UNCHANGED vars
  <2>1. UNCHANGED <<poolVars, requestVars, queueVars, localVars, statVars, runningFlag,
                    pc, arrivals, failures>>
    BY <1>1 DEF vars
  <2> USE DEF requestVars, queueVars, localVars, statVars, IInv
  <2>2. PoolPartitioned' /\ PageTables'
    BY <2>1, PagesUnchanged
  <2>3. Budgets' /\ StreamExact'
    BY <2>1, PromisesUnchanged
  <2>4. TypeOK'
    BY <2>1, <2>2, TypeParts DEF RequestTypes, QueueTypes, CounterTypes, PoolPartitioned
  <2>5. Places'
    BY <2>1 DEF Places, WaitingPlace, ToPrefillPlace, RunningPlace, BatchPlace,
                StillRunningPlace, NewPlace
  <2> QED BY <2>2, <2>3, <2>4, <2>5
<1>2. CASE Next
  <2>1. Places'
    BY <1>2, PlacesAdd, PlacesReject, PlacesAdmit, PlacesEvict, PlacesPrefill,
       PlacesDecode, PlacesEmitPrefill, PlacesEmitDecode, PlacesEndDecode, PlacesQuiet
       DEF Next, SchedulerStep, Admission, EngineStep, OtherThreads, Quiet
  <2>2. Budgets' /\ StreamExact'
    <3>1. CASE \/ AdmitHead \/ Decode \/ EndDecode
               \/ \E r \in Requests : AddRequest(r)
      <4>1. UNCHANGED <<asked, status, numInput, numOutput, maxNew, stream>>
        BY <3>1 DEF AdmitHead, Decode, EndDecode, AddRequest, requestVars
      <4> QED BY <4>1, PromisesUnchanged DEF IInv
    <3>2. CASE Quiet
      <4>1. UNCHANGED <<asked, status, numInput, numOutput, maxNew, stream>>
        BY <3>2, QuietChanges DEF requestVars
      <4> QED BY <4>1, PromisesUnchanged DEF IInv
    <3> QED BY <1>2, <3>1, <3>2, PromisesReject, PromisesEvict, PromisesPrefill,
               PromisesEmit
            DEF Next, SchedulerStep, Admission, EngineStep, OtherThreads, Quiet
  <2>3. PoolPartitioned' /\ PageTables'
    <3>1. CASE \/ Decode \/ EndDecode \/ \E r \in Requests : AddRequest(r)
      <4>1. UNCHANGED <<poolVars, asked, status, kv, toPrefill>>
        BY <3>1 DEF Decode, EndDecode, AddRequest, requestVars, localVars
      <4> QED BY <4>1, PagesUnchanged DEF IInv
    <3>2. CASE Quiet
      <4>1. UNCHANGED <<poolVars, asked, status, kv, toPrefill>>
        BY <3>2, QuietChanges DEF requestVars
      <4> QED BY <4>1, PagesUnchanged DEF IInv
    <3> QED BY <1>2, <3>1, <3>2, PagesReject, PagesEvict, PagesAdmit, PagesPrefill,
               PagesEmit
            DEF Next, SchedulerStep, Admission, EngineStep, OtherThreads, Quiet
  <2>4. TypeOK'
    BY <1>2, <2>3, TypeParts, RequestTypesKept, QueueTypesKept, CounterTypesKept
       DEF PoolPartitioned, Pages
  <2> QED BY <2>1, <2>2, <2>3, <2>4 DEF IInv
<1> QED BY <1>1, <1>2

\* The invariant holds always.
LEMMA Inductive == Spec => []IInv
BY InitEstablishes, StepPreserves, PTL DEF Spec

----------------------------------------------------------------------------
\* The theorems.

\* Every variable keeps its type; in particular no fold makes a request's budget
\* negative and no admission loop evicts more often than its bound allows.
THEOREM TypeCorrect == Spec => []TypeOK
<1>1. IInv => TypeOK
  BY DEF IInv
<1> QED BY <1>1, Inductive, PTL

\* No page is in two page tables, or in one and free, whatever the scheduler
\* admits, evicts, rejects and finishes and whichever engine calls raise.
THEOREM PagesStayExclusive == Spec => []PagesExclusive
<1>1. IInv => PagesExclusive
  BY DEF IInv, PoolPartitioned
<1> QED BY <1>1, Inductive, PTL

\* No page is lost: each is free, the runner's or in the table of a request that
\* was admitted and is not done.
THEOREM PagesAreNotLost == Spec => []NoPageLeaked
<1>1. IInv => NoPageLeaked
  BY DEF IInv, PoolPartitioned, PageTables, NoPageLeaked
<1> QED BY <1>1, Inductive, PTL

\* Every decode step writes inside the page table its request was given.
THEOREM DecodeStaysInTable == Spec => []PageTableCoversDecode
<1>1. IInv => PageTableCoversDecode
  <2> SUFFICES ASSUME IInv, pc = "decode", NEW r \in Range(running)
               PROVE  KvLength(r) < Len(kv[r]) * PageSize /\ numInput[r] <= KvLength(r)
    BY DEF PageTableCoversDecode
  <2> USE DEF IInv
  <2>1. r \in Requests
    BY QueuesTyped
  <2>2. status[r] = "RUNNING" /\ numOutput[r] >= 1
    BY DEF Places, RunningPlace
  <2>3. Len(kv[r]) = PagesNeeded(asked[r].prompt + asked[r].maxNew)
    BY <2>1, <2>2 DEF PageTables
  <2>4. /\ numInput[r] \in Nat /\ numOutput[r] \in Nat /\ maxNew[r] \in Nat
        /\ numOutput[r] < maxNew[r]
        /\ numInput[r] + maxNew[r] = asked[r].prompt + asked[r].maxNew
    BY <2>1, <2>2 DEF TypeOK, Budgets, FoldConservesTokens
  <2> DEFINE all == numInput[r] + maxNew[r]
  <2>5. all \in Nat /\ KvLength(r) < all /\ numInput[r] <= KvLength(r)
    BY <2>2, <2>4 DEF KvLength
  <2>6. all <= Len(kv[r]) * PageSize /\ Len(kv[r]) \in Nat
    BY <2>3, <2>4, <2>5, PagesNeededCovers
  <2>7. KvLength(r) \in Int /\ Len(kv[r]) * PageSize \in Nat
    BY <2>4, <2>6, PoolAssumption DEF KvLength
  <2> HIDE DEF all
  <2> QED BY <2>5, <2>6, <2>7
<1> QED BY <1>1, Inductive, PTL

\* The client of a request reads its tokens once, in order and never too many,
\* and the end mark exactly when the request is finished, through any evictions.
THEOREM StreamsAreExact == Spec => []StreamExact
<1>1. IInv => StreamExact
  BY DEF IInv
<1> QED BY <1>1, Inductive, PTL

\* A request is never in two of the queue, the prefill batch and the decode
\* batch, nor in one of them twice, nor anywhere once it is finished.
THEOREM RequestsAreInOnePlace == Spec => []OnePlace
<1>1. IInv => OnePlace
  <2> SUFFICES ASSUME IInv PROVE OnePlace
    OBVIOUS
  <2> USE DEF IInv, Places
  <2>1. /\ waiting \in Seq(Requests) /\ IsInjective(waiting)
        /\ Prefilling \in Seq(Requests) /\ IsInjective(Prefilling)
        /\ Range(waiting) \cap Range(Prefilling) = {}
    BY DEF TypeOK, Prefilling, WaitingPlace, ToPrefillPlace, BatchPlace
  <2>2. /\ Decoding \in Seq(Requests) /\ IsInjective(Decoding)
        /\ Range(Decoding) = IF pc = "emitDecode"
                             THEN Range(batch) \cup Range(stillRunning)
                             ELSE Range(running)
    <3>1. /\ batch \in Seq(Requests) /\ stillRunning \in Seq(Requests)
          /\ running \in Seq(Requests)
          /\ IsInjective(batch) /\ IsInjective(stillRunning) /\ IsInjective(running)
          /\ Range(batch) \cap Range(stillRunning) = {}
      BY DEF TypeOK, BatchPlace, StillRunningPlace, RunningPlace
    <3>2. /\ batch \o stillRunning \in Seq(Requests) /\ IsInjective(batch \o stillRunning)
          /\ Range(batch \o stillRunning) = Range(batch) \cup Range(stillRunning)
      BY <3>1, ConcatRange
    <3> QED BY <3>1, <3>2 DEF Decoding
  <2>3. \A r \in Range(Decoding) : status[r] = "RUNNING" /\ r \in Range(arrivals)
    BY <2>2 DEF BatchPlace, StillRunningPlace, RunningPlace
  <2>4. \A r \in Range(waiting) : status[r] = "WAITING" /\ r \in Range(arrivals)
    BY DEF WaitingPlace
  <2>5. \A r \in Range(Prefilling) : /\ status[r] # "FINISHED" /\ r \in Range(arrivals)
                                     /\ r \notin Range(Decoding)
    <3>1. CASE pc = "emitPrefill"
      BY <3>1, <2>2 DEF Prefilling, BatchPlace
    <3>2. CASE pc # "emitPrefill"
      BY <3>2, <2>3 DEF Prefilling, ToPrefillPlace
    <3> QED BY <3>1, <3>2
  <2> DEFINE w == waiting \o Prefilling
  <2>6. /\ w \in Seq(Requests) /\ IsInjective(w)
        /\ Range(w) = Range(waiting) \cup Range(Prefilling)
    BY <2>1, ConcatRange
  <2> HIDE DEF w
  <2>7. Range(w) \cap Range(Decoding) = {}
    BY <2>3, <2>4, <2>5, <2>6
  <2>8. /\ IsInjective(w \o Decoding)
        /\ Range(w \o Decoding) = Range(w) \cup Range(Decoding)
    BY <2>2, <2>6, <2>7, ConcatRange
  <2> QED BY <2>3, <2>4, <2>5, <2>6, <2>8 DEF OnePlace, w
<1> QED BY <1>1, Inductive, PTL

----------------------------------------------------------------------------
\* The order of service, and nobody lost.

\* A request that has tokens of this run has been sent some.
Started == \A r \in Requests : numOutput[r] # 0 => stream[r] # <<>>

Order == EvictedComesBackFirst /\ FirstComeFirstServed /\ Started

----------------------------------------------------------------------------
\* The order of arrival.

\* Of two requests that were added, one came earlier, and only one.
LEMMA EarlierIsStrict ==
    ASSUME IInv, NEW r \in Range(arrivals), NEW s \in Range(arrivals), r # s
    PROVE  /\ Earlier(r, s) \/ Earlier(s, r)
           /\ ~(Earlier(r, s) /\ Earlier(s, r))
<1>1. arrivals \in Seq(Requests) /\ IsInjective(arrivals)
  BY DEF IInv, TypeOK, Places, NewPlace
<1>2. /\ DOMAIN arrivals = 1 .. Len(arrivals) /\ Len(arrivals) \in Nat
      /\ \A e \in Range(arrivals) : \E i \in 1 .. Len(arrivals) : e = arrivals[i]
  BY <1>1, RangeType
<1>3. PICK i \in 1 .. Len(arrivals) : arrivals[i] = r
  BY <1>2
<1>4. PICK j \in 1 .. Len(arrivals) : arrivals[j] = s
  BY <1>2
<1>5. i \in Nat /\ j \in Nat /\ i # j
  BY <1>2, <1>3, <1>4
<1>6. \A k \in DOMAIN arrivals : /\ arrivals[k] = r => k = i
                                 /\ arrivals[k] = s => k = j
  BY <1>1, <1>2, <1>3, <1>4 DEF IsInjective
<1>7. i < j \/ j < i
  BY <1>5
<1>8. Earlier(r, s) \/ Earlier(s, r)
  BY <1>2, <1>3, <1>4, <1>7 DEF Earlier
<1>9. ~(i < j /\ j < i)
  BY <1>5
<1> QED BY <1>6, <1>8, <1>9 DEF Earlier

\* Only requests that were added came earlier or later than others.
LEMMA EarlierIsAdded ==
    ASSUME IInv, NEW r, NEW s, Earlier(r, s)
    PROVE  r \in Range(arrivals) /\ s \in Range(arrivals) /\ r # s
<1>1. arrivals \in Seq(Requests) /\ IsInjective(arrivals)
  BY DEF IInv, TypeOK, Places, NewPlace
<1>2. /\ DOMAIN arrivals = 1 .. Len(arrivals) /\ Len(arrivals) \in Nat
      /\ \A i \in 1 .. Len(arrivals) : arrivals[i] \in Range(arrivals)
  BY <1>1, RangeType
<1>3. PICK i \in DOMAIN arrivals, j \in DOMAIN arrivals :
          i < j /\ arrivals[i] = r /\ arrivals[j] = s
  BY DEF Earlier
<1>4. i # j
  BY <1>2, <1>3
<1> QED BY <1>1, <1>2, <1>3, <1>4 DEF IsInjective

\* A request that is added comes after all the others, whose order stays.
LEMMA AddedLast ==
    ASSUME IInv, NEW r \in Requests, AddRequest(r)
    PROVE  /\ \A s, t : Earlier(s, t) => Earlier(s, t)'
           /\ \A s \in Range(arrivals) : Earlier(s, r)'
           /\ \A s, t : t # r /\ Earlier(s, t)' => Earlier(s, t)
           /\ \A t : ~ Earlier(r, t)'
<1>1. /\ arrivals \in Seq(Requests) /\ arrivals' = Append(arrivals, r)
      /\ r \notin Range(arrivals)
  BY DEF AddRequest, IInv, TypeOK
<1> DEFINE a == arrivals
           b == Append(arrivals, r)
<1>2. /\ DOMAIN a = 1 .. Len(a) /\ Len(a) \in Nat
      /\ \A i \in 1 .. Len(a) : a[i] \in Range(arrivals)
      /\ \A e \in Range(arrivals) : \E i \in 1 .. Len(a) : e = a[i]
  BY <1>1, RangeType
<1>3. /\ DOMAIN b = 1 .. Len(a) + 1
      /\ \A i \in 1 .. Len(a) : b[i] = a[i]
      /\ b[Len(a) + 1] = r
  BY <1>1, AppendProperties
<1>4. arrivals' = b /\ arrivals = a
  BY <1>1
<1> HIDE DEF a, b
<1>5. PICK n \in Nat : n = Len(a)
  BY <1>2
<1>6. ASSUME NEW s, NEW t, Earlier(s, t) PROVE Earlier(s, t)'
  <2>1. PICK i \in 1 .. n, j \in 1 .. n : i < j /\ a[i] = s /\ a[j] = t
    BY <1>2, <1>4, <1>5, <1>6 DEF Earlier
  <2>2. i \in 1 .. n + 1 /\ j \in 1 .. n + 1 /\ b[i] = s /\ b[j] = t
    BY <2>1, <1>3, <1>5
  <2> QED BY <2>1, <2>2, <1>3, <1>4, <1>5 DEF Earlier
<1>7. ASSUME NEW s \in Range(arrivals) PROVE Earlier(s, r)'
  <2>1. PICK i \in 1 .. n : a[i] = s
    BY <1>2, <1>5
  <2>2. i \in 1 .. n + 1 /\ n + 1 \in 1 .. n + 1 /\ i < n + 1
    BY <2>1, <1>5
  <2>3. b[i] = s /\ b[n + 1] = r
    BY <2>1, <1>3, <1>5
  <2> QED BY <2>2, <2>3, <1>3, <1>4, <1>5 DEF Earlier
<1>8. \A i \in 1 .. n : b[i] # r
  BY <1>1, <1>2, <1>3, <1>5
<1>9. \A i \in 1 .. n + 1 : i = n + 1 \/ i \in 1 .. n
  BY <1>5
<1>10. ASSUME NEW s, NEW t, Earlier(s, t)'
       PROVE  s # r /\ (t # r => Earlier(s, t))
  <2>1. PICK i \in 1 .. n + 1, j \in 1 .. n + 1 : i < j /\ b[i] = s /\ b[j] = t
    BY <1>3, <1>4, <1>5, <1>10 DEF Earlier
  <2>2. i \in 1 .. n
    BY <2>1, <1>5
  <2>3. s # r
    BY <2>1, <2>2, <1>8
  <2>4. ASSUME t # r PROVE Earlier(s, t)
    <3>1. j \in 1 .. n
      BY <2>1, <2>4, <1>3, <1>5, <1>9
    <3>2. a[i] = s /\ a[j] = t
      BY <2>1, <2>2, <3>1, <1>3, <1>5
    <3> QED BY <2>1, <2>2, <3>1, <3>2, <1>2, <1>4, <1>5 DEF Earlier
  <2> QED BY <2>3, <2>4
<1> QED BY <1>6, <1>7, <1>10

----------------------------------------------------------------------------
\* The queue, by position.

\* deque.popleft: everybody moves up by one.
LEMMA TailByPosition ==
    ASSUME TypeOK, waiting # <<>>
    PROVE  /\ DOMAIN waiting = 1 .. Len(waiting) /\ 1 \in DOMAIN waiting
           /\ Head(waiting) = waiting[1]
           /\ DOMAIN Tail(waiting) = 1 .. Len(waiting) - 1
           /\ \A i \in DOMAIN Tail(waiting) : /\ i + 1 \in DOMAIN waiting
                                              /\ Tail(waiting)[i] = waiting[i + 1]
<1>1. waiting \in Seq(Requests)
  BY DEF TypeOK
<1>2. Len(waiting) \in Nat /\ Len(waiting) # 0 /\ DOMAIN waiting = 1 .. Len(waiting)
  BY <1>1
<1>3. /\ Head(waiting) = waiting[1] /\ Tail(waiting) \in Seq(Requests)
      /\ Len(Tail(waiting)) = Len(waiting) - 1
      /\ \A i \in 1 .. Len(waiting) - 1 : Tail(waiting)[i] = waiting[i + 1]
  BY <1>1, <1>2
<1> QED BY <1>2, <1>3

\* deque.append: the last place is new.
LEMMA AppendByPosition ==
    ASSUME TypeOK, NEW r \in Requests
    PROVE  /\ DOMAIN waiting = 1 .. Len(waiting) /\ Len(waiting) \in Nat
           /\ DOMAIN Append(waiting, r) = 1 .. Len(waiting) + 1
           /\ \A i \in DOMAIN waiting : Append(waiting, r)[i] = waiting[i]
           /\ Append(waiting, r)[Len(waiting) + 1] = r
<1>1. waiting \in Seq(Requests)
  BY DEF TypeOK
<1>2. /\ Append(waiting, r) \in Seq(Requests)
      /\ Len(Append(waiting, r)) = Len(waiting) + 1
      /\ \A i \in 1 .. Len(waiting) : Append(waiting, r)[i] = waiting[i]
      /\ Append(waiting, r)[Len(waiting) + 1] = r
  BY <1>1, AppendProperties
<1>3. /\ DOMAIN waiting = 1 .. Len(waiting) /\ Len(waiting) \in Nat
      /\ DOMAIN Append(waiting, r) = 1 .. Len(Append(waiting, r))
  BY <1>1, <1>2
<1> QED BY <1>2, <1>3

\* deque.appendleft: everybody moves down by one.
LEMMA PushFrontByPosition ==
    ASSUME TypeOK, NEW v \in Requests
    PROVE  LET w == <<v>> \o waiting
           IN  /\ DOMAIN waiting = 1 .. Len(waiting) /\ Len(waiting) \in Nat
               /\ DOMAIN w = 1 .. Len(waiting) + 1
               /\ w[1] = v
               /\ \A i \in 2 .. Len(waiting) + 1 : /\ i - 1 \in DOMAIN waiting
                                                   /\ w[i] = waiting[i - 1]
<1> DEFINE h == <<v>>
<1>1. h \in Seq(Requests) /\ Len(h) = 1 /\ h[1] = v
  OBVIOUS
<1>2. waiting \in Seq(Requests) /\ Len(waiting) \in Nat /\ DOMAIN waiting = 1 .. Len(waiting)
  BY DEF TypeOK
<1> HIDE DEF h
<1>3. /\ DOMAIN (h \o waiting) = 1 .. 1 + Len(waiting)
      /\ \A i \in 1 .. 1 + Len(waiting) :
            (h \o waiting)[i] = IF i <= 1 THEN h[i] ELSE waiting[i - 1]
  <2>1. /\ h \o waiting \in Seq(Requests)
        /\ Len(h \o waiting) = Len(h) + Len(waiting)
        /\ \A i \in 1 .. Len(h) + Len(waiting) :
            (h \o waiting)[i] = IF i <= Len(h) THEN h[i] ELSE waiting[i - Len(h)]
    BY <1>1, <1>2, ConcatProperties
  <2>2. DOMAIN (h \o waiting) = 1 .. Len(h \o waiting)
    BY <2>1
  <2> QED BY <2>1, <2>2, <1>1
<1>4. PICK n \in Nat : n = Len(waiting)
  BY <1>2
<1>5. \A i \in 2 .. n + 1 : i \in 1 .. 1 + n /\ ~(i <= 1) /\ i - 1 \in 1 .. n
  BY <1>4
<1>6. 1 \in 1 .. 1 + n /\ 1 <= 1 /\ 1 + n = n + 1
  BY <1>4
<1> QED BY <1>1, <1>2, <1>3, <1>4, <1>5, <1>6 DEF h

----------------------------------------------------------------------------
\* The order is preserved, action by action.

\* What a request needs is what it asked for, however often it was folded.
LEMMA NeededAsAsked ==
    ASSUME IInv, NEW r \in Requests
    PROVE  Needed(r) \in Nat /\ Needed(r) = PagesNeeded(asked[r].prompt + asked[r].maxNew)
<1>1. Budget(r) = asked[r].prompt + asked[r].maxNew
  BY DEF Budget, IInv, Budgets, FoldConservesTokens
<1>2. asked[r].prompt \in Nat \ {0} /\ asked[r].maxNew \in Nat
  BY SchedulerAssumption DEF IInv, TypeOK
<1>3. Budget(r) \in Nat \ {0}
  BY <1>1, <1>2
<1> QED BY <1>1, <1>3, PagesNeededCovers DEF Needed

\* A queued request was added, and is not running.
LEMMA QueuedWereAdded ==
    ASSUME IInv
    PROVE  /\ Range(waiting) \subseteq Requests /\ Range(waiting) \subseteq Range(arrivals)
           /\ \A i \in DOMAIN waiting : waiting[i] \in Range(waiting)
           /\ DOMAIN waiting = 1 .. Len(waiting)
<1>1. waiting \in Seq(Requests)
  BY DEF IInv, TypeOK
<1> QED BY <1>1, RangeType DEF IInv, Places, WaitingPlace

\* Steps that leave the queue and its requests alone, and take no page.
LEMMA OrderKept ==
    ASSUME IInv, IInv', Order,
           UNCHANGED <<waiting, arrivals, numInput, maxNew>>,
           NumFree <= NumFree',
           \A s \in Range(waiting) : stream'[s] = stream[s]
    PROVE  EvictedComesBackFirst' /\ FirstComeFirstServed'
<1>1. \A r, s : Earlier(r, s)' <=> Earlier(r, s)
  BY DEF Earlier
<1>2. PICK m \in Nat, n \in Nat : m = NumFree /\ n = NumFree'
  BY DEF NumFree, IInv, TypeOK, PoolTypeOK, Pages
<1>3. ASSUME NEW i \in DOMAIN waiting, stream[waiting[i]] # <<>>
      PROVE  i = 1 /\ Fits(waiting[1])'
  <2>1. i = 1 /\ Fits(waiting[1])
    BY <1>3 DEF Order, EvictedComesBackFirst
  <2>2. PICK w \in Requests : w = waiting[1]
    BY <2>1, QueuedWereAdded
  <2>3. PICK k \in Nat : k = Needed(w)
    BY NeededAsAsked
  <2>4. (Needed(w))' = Needed(w)
    BY DEF Needed, Budget, PagesNeeded
  <2>5. k <= m
    BY <1>2, <2>1, <2>2, <2>3 DEF Fits
  <2>6. k <= n
    BY <1>2, <2>5
  <2> QED BY <1>2, <2>1, <2>2, <2>3, <2>4, <2>6 DEF Fits
<1>4. \A i \in DOMAIN waiting : stream'[waiting[i]] = stream[waiting[i]]
  BY QueuedWereAdded
<1>5. EvictedComesBackFirst'
  BY <1>3, <1>4 DEF EvictedComesBackFirst
<1>6. FirstComeFirstServed'
  BY <1>1 DEF Order, FirstComeFirstServed
<1> QED BY <1>5, <1>6

\* The head of the queue leaves it: nobody who came before others is behind them.
LEMMA OrderWithoutHead ==
    ASSUME IInv, Order, waiting # <<>>, waiting' = Tail(waiting), UNCHANGED arrivals,
           \A s \in Range(waiting) \ {Head(waiting)} : stream'[s] = stream[s]
    PROVE  EvictedComesBackFirst' /\ FirstComeFirstServed'
<1>1. TypeOK /\ Places
  BY DEF IInv
<1>ends. /\ Head(waiting) \in Requests /\ Head(waiting) \in Range(waiting)
      /\ Tail(waiting) \in Seq(Requests)
      /\ Range(Tail(waiting)) = Range(waiting) \ {Head(waiting)}
  BY <1>1, HeadOfQueue
<1>head. PICK h \in Requests : h = Head(waiting)
  BY <1>ends
<1>tail. PICK t \in Seq(Requests) : t = Tail(waiting)
  BY <1>ends
<1>2. /\ 1 \in DOMAIN waiting /\ h = waiting[1]
      /\ DOMAIN waiting = 1 .. Len(waiting) /\ DOMAIN t = 1 .. Len(waiting) - 1
      /\ \A i \in DOMAIN t : i + 1 \in DOMAIN waiting /\ t[i] = waiting[i + 1]
  BY <1>1, <1>head, <1>tail, TailByPosition
<1>3. h \in Range(waiting) /\ Range(t) = Range(waiting) \ {h}
  BY <1>ends, <1>head, <1>tail
<1>4. /\ DOMAIN t = 1 .. Len(t)
      /\ \A i \in DOMAIN t : t[i] \in Range(t)
      /\ \A e \in Range(t) : \E i \in DOMAIN t : e = t[i]
  <2>1. /\ \A i \in 1 .. Len(t) : t[i] \in Range(t)
        /\ \A e \in Range(t) : \E i \in 1 .. Len(t) : e = t[i]
        /\ DOMAIN t = 1 .. Len(t)
    BY RangeType
  <2> QED BY <2>1
<1>5. waiting' = t /\ \A s \in Range(t) : stream'[s] = stream[s]
  BY <1>3, <1>head, <1>tail
<1>6. \A r, s : Earlier(r, s)' <=> Earlier(r, s)
  BY DEF Earlier
<1>7. \A i \in DOMAIN t : i \in Nat /\ i + 1 # 1 /\ 1 < i + 1
  <2>1. \A i \in 1 .. Len(t) : i \in Nat /\ i >= 1
    OBVIOUS
  <2>2. \A i \in Nat : i >= 1 => i + 1 # 1 /\ 1 < i + 1
    OBVIOUS
  <2> QED BY <1>4, <2>1, <2>2
<1>8. \A i \in DOMAIN t : stream[t[i]] = <<>>
  BY <1>2, <1>7 DEF Order, EvictedComesBackFirst
<1>9. EvictedComesBackFirst'
  BY <1>4, <1>5, <1>8 DEF EvictedComesBackFirst
<1>10. \A i \in DOMAIN t : Earlier(h, t[i])
  BY <1>2, <1>7 DEF Order, FirstComeFirstServed
<1>11. ASSUME NEW i \in DOMAIN t, NEW j \in DOMAIN t, i < j PROVE Earlier(t[i], t[j])
  <2>1. i + 1 < j + 1
    BY <1>7, <1>11
  <2> QED BY <2>1, <1>2 DEF Order, FirstComeFirstServed
<1>12. ASSUME NEW r \in Range(t), NEW s \in Requests, stream'[r] = <<>>, Earlier(r, s)
       PROVE  s \in Range(t) /\ stream'[s] = <<>>
  <2>1. s \in Range(waiting) /\ stream[s] = <<>>
    BY <1>3, <1>5, <1>12 DEF Order, FirstComeFirstServed
  <2>2. Earlier(h, r)
    BY <1>4, <1>10
  <2>3. s # h
    <3>1. h \in Range(arrivals) /\ r \in Range(arrivals) /\ h # r
      BY <2>2, EarlierIsAdded
    <3>2. ~ Earlier(r, h)
      BY <3>1, <2>2, EarlierIsStrict
    <3> QED BY <3>2, <1>12
  <2> QED BY <2>1, <2>3, <1>3, <1>5
<1>13. FirstComeFirstServed'
  BY <1>5, <1>6, <1>11, <1>12 DEF FirstComeFirstServed
<1> QED BY <1>9, <1>13

\* add_request: the new one is last in both orders.
LEMMA OrderAdd ==
    ASSUME IInv, Order, NEW r \in Requests, AddRequest(r)
    PROVE  EvictedComesBackFirst' /\ FirstComeFirstServed'
<1>longer. PICK w \in Seq(Requests) : w = Append(waiting, r)
  BY AppendRange DEF IInv, TypeOK
<1>1. /\ TypeOK /\ waiting \in Seq(Requests)
      /\ waiting' = w /\ r \notin Range(arrivals)
      /\ UNCHANGED <<free, stream, numInput, maxNew>>
  BY <1>longer DEF AddRequest, IInv, TypeOK, requestVars, poolVars
<1>2. /\ DOMAIN waiting = 1 .. Len(waiting) /\ Len(waiting) \in Nat
      /\ DOMAIN w = 1 .. Len(waiting) + 1
      /\ \A i \in DOMAIN waiting : w[i] = waiting[i]
      /\ w[Len(waiting) + 1] = r
  BY <1>longer, <1>1, AppendByPosition
<1>3. Range(w) = Range(waiting) \cup {r}
  BY <1>longer, <1>1, AppendRange
<1>4. PICK n \in Nat : n = Len(waiting)
  BY <1>2
<1>5. \A i \in 1 .. n + 1 : i = n + 1 \/ i \in 1 .. n
  BY <1>4
<1>6. stream[r] = <<>>
  BY <1>1 DEF IInv, Places, NewPlace
<1>7. \A s : Fits(s)' <=> Fits(s)
  BY <1>1 DEF Fits, Needed, Budget, PagesNeeded, NumFree
<1>8. ASSUME NEW i \in 1 .. n + 1, stream[w[i]] # <<>>
      PROVE  i = 1 /\ Fits(w[1])'
  <2>1. i \in 1 .. n
    BY <1>2, <1>4, <1>5, <1>6, <1>8
  <2>2. i \in DOMAIN waiting /\ stream[waiting[i]] # <<>>
    BY <2>1, <1>2, <1>4, <1>8
  <2>3. i = 1 /\ Fits(waiting[1])
    BY <2>2 DEF Order, EvictedComesBackFirst
  <2> QED BY <2>2, <2>3, <1>2, <1>7
<1>9. EvictedComesBackFirst'
  BY <1>1, <1>2, <1>4, <1>8 DEF EvictedComesBackFirst
<1>10. ASSUME NEW i \in 1 .. n + 1, NEW j \in 1 .. n + 1, i < j
       PROVE  Earlier(w[i], w[j])'
  <2>1. i \in 1 .. n
    BY <1>4, <1>10
  <2>2. w[i] = waiting[i] /\ waiting[i] \in Range(arrivals)
    BY <2>1, <1>2, <1>4, QueuedWereAdded
  <2>3. CASE j = n + 1
    BY <2>2, <2>3, <1>2, <1>4, AddedLast
  <2>4. CASE j \in 1 .. n
    <3>1. Earlier(waiting[i], waiting[j])
      BY <2>1, <2>4, <1>2, <1>4, <1>10 DEF Order, FirstComeFirstServed
    <3> QED BY <3>1, <2>1, <2>4, <1>2, <1>4, AddedLast
  <2> QED BY <2>3, <2>4, <1>5
<1>11. ASSUME NEW q \in Range(waiting), NEW s \in Requests, stream[q] = <<>>, Earlier(q, s)'
       PROVE  s \in Range(w) /\ stream[s] = <<>>
  <2>1. CASE s = r
    BY <2>1, <1>3, <1>6
  <2>2. CASE s # r
    <3>1. Earlier(q, s)
      BY <2>2, <1>11, AddedLast
    <3> QED BY <3>1, <1>3, <1>11 DEF Order, FirstComeFirstServed
  <2> QED BY <2>1, <2>2
<1>12. ASSUME NEW q \in Range(w), NEW s \in Requests, stream[q] = <<>>, Earlier(q, s)'
       PROVE  s \in Range(w) /\ stream[s] = <<>>
  <2>1. q # r
    BY <1>12, AddedLast
  <2> QED BY <2>1, <1>3, <1>11, <1>12
<1>13. FirstComeFirstServed'
  <2>1. \A i, j \in DOMAIN w : i < j => Earlier(w[i], w[j])'
    BY <1>2, <1>4, <1>10
  <2> QED BY <2>1, <1>1, <1>12 DEF FirstComeFirstServed
<1> QED BY <1>9, <1>13

\* A page table that is given back makes the free list longer by its length.
LEMMA ReleaseByLength ==
    ASSUME IInv, IInv', NEW r \in Requests, ReleaseKv(r)
    PROVE  /\ NumFree \in Nat /\ NumFree' \in Nat /\ Len(kv[r]) \in Nat
           /\ NumFree' = NumFree + Len(kv[r])
<1>1. /\ PoolTypeOK /\ kv[r] \in Seq(Pages) /\ free \in Seq(Pages)
      /\ Range(kv[r]) \cap Range(free) = {} /\ Range(kv[r]) \subseteq Pages
      /\ \A p \in Pages : refcount[p] = IF p \in Range(free) THEN 0 ELSE 1
  <2>1. PoolTypeOK /\ kv[r] \in Seq(Pages) /\ Range(kv[r]) \cap Range(free) = {}
    BY DEF IInv, PoolPartitioned, PagesExclusive
  <2>2. \A p \in Pages : refcount[p] = IF p \in Range(free) THEN 0 ELSE 1
    BY DEF IInv, PoolPartitioned
  <2> QED BY <2>1, <2>2, RangeType DEF PoolTypeOK
<1>2. \A p \in Range(kv[r]) : refcount[p] = 1
  BY <1>1
<1>3. free' = free \o kv[r]
  BY <1>1, <1>2, FreeUnshared DEF ReleaseKv
<1>4. Len(free \o kv[r]) = Len(free) + Len(kv[r])
  BY <1>1, ConcatProperties
<1> QED BY <1>1, <1>3, <1>4 DEF NumFree

\* _evict_lowest_progress: nobody evicted waits, so the victim came first, and there
\* is room for it.
LEMMA OrderEvict ==
    ASSUME IInv, IInv', Order, EvictForHead
    PROVE  EvictedComesBackFirst' /\ FirstComeFirstServed'
<1>1. /\ TypeOK /\ waiting # <<>> /\ ~ Fits(Head(waiting)) /\ pc = "admit"
      /\ UNCHANGED <<stream, arrivals, asked>>
  BY DEF IInv, EvictForHead, RoomToAdmit
<1>2. PICK v \in Requests : /\ v \in Range(running) /\ ReleaseKv(v) /\ Requeue(v)
  <2>1. PICK i \in DOMAIN running : Evict(i)
    BY DEF EvictForHead
  <2>2. running[i] \in Requests /\ running[i] \in Range(running)
    <3>1. running \in Seq(Requests)
      BY <1>1 DEF TypeOK
    <3> QED BY <3>1, RangeType
  <2> QED BY <2>1, <2>2 DEF Evict
<1>3. /\ status[v] = "RUNNING" /\ numOutput[v] # 0 /\ v \in Range(arrivals)
      /\ v \notin Range(waiting)
  <2>1. status[v] = "RUNNING" /\ numOutput[v] >= 1 /\ v \in Range(arrivals)
    BY <1>1, <1>2 DEF IInv, Places, RunningPlace
  <2>2. \A s \in Range(waiting) : status[s] = "WAITING"
    BY DEF IInv, Places, WaitingPlace
  <2> QED BY <2>1, <2>2
<1>4. stream[v] # <<>>
  BY <1>3 DEF Order, Started
<1>5. \A i \in DOMAIN waiting : stream[waiting[i]] = <<>>
  <2>1. Head(waiting) = waiting[1]
    BY <1>1, TailByPosition
  <2> QED BY <2>1, <1>1 DEF Order, EvictedComesBackFirst
<1>6. ASSUME NEW i \in DOMAIN waiting PROVE Earlier(v, waiting[i])
  <2>1. waiting[i] \in Range(waiting) /\ waiting[i] \in Range(arrivals)
    BY QueuedWereAdded
  <2>2. ~ Earlier(waiting[i], v)
    BY <2>1, <1>3, <1>5 DEF Order, FirstComeFirstServed
  <2> QED BY <2>1, <2>2, <1>3, EarlierIsStrict
<1>longer. PICK w \in Seq(Requests) : w = <<v>> \o waiting
  BY <1>1, PushFrontRange DEF TypeOK
<1>7. /\ DOMAIN waiting = 1 .. Len(waiting) /\ Len(waiting) \in Nat
      /\ DOMAIN w = 1 .. Len(waiting) + 1
      /\ w[1] = v
      /\ \A i \in 2 .. Len(waiting) + 1 : i - 1 \in DOMAIN waiting /\ w[i] = waiting[i - 1]
  BY <1>longer, <1>1, PushFrontByPosition
<1>8. waiting' = w /\ Range(w) = Range(waiting) \cup {v}
  <2>1. waiting \in Seq(Requests)
    BY <1>1 DEF TypeOK
  <2>2. Range(<<v>> \o waiting) = Range(waiting) \cup {v}
    BY <2>1, PushFrontRange
  <2>3. waiting' = <<v>> \o waiting
    BY <1>2 DEF Requeue
  <2> QED BY <1>longer, <2>2, <2>3
<1>9. PICK n \in Nat : n = Len(waiting)
  BY <1>7
<1>10. \A i \in 1 .. n + 1 : i = 1 \/ i \in 2 .. n + 1
  BY <1>9
<1>11. Fits(v)'
  <2>1. kv[v] # <<>> /\ Len(kv[v]) = PagesNeeded(asked[v].prompt + asked[v].maxNew)
    BY <1>3 DEF IInv, PageTables
  <2>2. (Needed(v))' = PagesNeeded(asked[v].prompt + asked[v].maxNew)
    <3>1. (Needed(v))' = PagesNeeded(asked'[v].prompt + asked'[v].maxNew)
      <4>1. (Budget(v))' = asked'[v].prompt + asked'[v].maxNew
        BY DEF IInv, Budgets, FoldConservesTokens, Budget
      <4> QED BY <4>1 DEF Needed, PagesNeeded
    <3> QED BY <3>1, <1>1
  <2>3. /\ NumFree \in Nat /\ NumFree' \in Nat /\ Len(kv[v]) \in Nat
        /\ NumFree' = NumFree + Len(kv[v])
    BY <1>2, ReleaseByLength
  <2>4. PICK m \in Nat, k \in Nat : m = NumFree /\ k = Len(kv[v])
    BY <2>3
  <2>5. k <= m + k
    BY <2>4
  <2> QED BY <2>1, <2>2, <2>3, <2>4, <2>5 DEF Fits
<1>12. EvictedComesBackFirst'
  <2>1. \A i \in 1 .. n + 1 : stream[w[i]] # <<>> => i = 1
    BY <1>5, <1>7, <1>9, <1>10
  <2>2. DOMAIN w = 1 .. n + 1 /\ stream' = stream /\ waiting' = w
    BY <1>1, <1>7, <1>8, <1>9
  <2>3. Fits(w[1])'
    BY <1>7, <1>11
  <2> QED BY <2>1, <2>2, <2>3 DEF EvictedComesBackFirst
<1>13. \A r, s : Earlier(r, s)' <=> Earlier(r, s)
  BY <1>1 DEF Earlier
<1>14. ASSUME NEW i \in 1 .. n + 1, NEW j \in 1 .. n + 1, i < j
       PROVE  Earlier(w[i], w[j])
  <2>1. j \in 2 .. n + 1
    BY <1>9, <1>14
  <2>2. j - 1 \in DOMAIN waiting /\ w[j] = waiting[j - 1]
    BY <2>1, <1>7, <1>9
  <2>3. CASE i = 1
    BY <2>2, <2>3, <1>6, <1>7
  <2>4. CASE i \in 2 .. n + 1
    <3>1. i - 1 \in DOMAIN waiting /\ w[i] = waiting[i - 1]
      BY <2>4, <1>7, <1>9
    <3>2. i - 1 < j - 1
      BY <2>1, <2>4, <1>14, <1>9
    <3> QED BY <3>1, <3>2, <2>2 DEF Order, FirstComeFirstServed
  <2> QED BY <2>3, <2>4, <1>10
<1>15. ASSUME NEW r \in Range(w), NEW s \in Requests, stream[r] = <<>>, Earlier(r, s)
       PROVE  s \in Range(w) /\ stream[s] = <<>>
  BY <1>4, <1>8, <1>15 DEF Order, FirstComeFirstServed
<1>16. FirstComeFirstServed'
  <2>1. \A i, j \in DOMAIN w : i < j => Earlier(w[i], w[j])
    BY <1>7, <1>9, <1>14
  <2>2. waiting' = w /\ stream' = stream
    BY <1>1, <1>8
  <2> QED BY <2>1, <2>2, <1>13, <1>15 DEF FirstComeFirstServed
<1> QED BY <1>12, <1>16

\* A token is handled: it is not for anybody in the queue, and takes no page.
LEMMA OrderEmit ==
    ASSUME IInv, IInv', Order, EmitPrefill \/ EmitDecode
    PROVE  Order'
<1>1. /\ batch # <<>> /\ UNCHANGED <<waiting, arrivals>>
      /\ TypeOK /\ Places
  BY DEF EmitPrefill, EmitDecode, queueVars, IInv
<1>2. PICK r \in Requests : r = Head(batch) /\ r \in Range(batch)
  BY <1>1, HeadOfBatch
<1>3. PICK token \in Nat : FinishRequest(r, token) \/ KeepGoing(r, token)
  <2>1. numInput[r] \in Nat /\ numOutput[r] \in Nat
    BY <1>1 DEF TypeOK
  <2>2. PrefillToken(r) \in Nat /\ DecodeToken(r) \in Nat
    BY <2>1 DEF PrefillToken, DecodeToken, KvLength
  <2> QED BY <1>2, <2>2 DEF EmitPrefill, EmitDecode
<1>4. /\ \A s \in Requests \ {r} : numOutput'[s] = numOutput[s] /\ stream'[s] = stream[s]
      /\ UNCHANGED <<numInput, maxNew>>
  BY <1>1, <1>3, TokenHandled DEF FinishRequest, KeepGoing
<1>5. r \notin Range(waiting)
  BY <1>2 DEF IInv, Places, WaitingPlace, BatchPlace
<1>6. \A s \in Range(waiting) : stream'[s] = stream[s]
  BY <1>4, <1>5, QueuedWereAdded
<1>7. NumFree <= NumFree'
  <2>1. CASE FinishRequest(r, token)
    BY <2>1, ReleaseByLength DEF FinishRequest
  <2>2. CASE KeepGoing(r, token)
    BY <2>2 DEF KeepGoing, poolVars, NumFree, IInv, TypeOK, PoolTypeOK
  <2> QED BY <1>3, <2>1, <2>2
<1>8. stream'[r] # <<>>
  <2>1. stream[r] \in Seq(Nat) /\ stream \in [Requests -> Seq(Nat)]
    BY <1>1 DEF TypeOK
  <2>2. CASE FinishRequest(r, token)
    <3>1. stream'[r] = stream[r] \o <<token, EndMark>>
      BY <2>1, <2>2 DEF FinishRequest
    <3>2. Len(stream[r] \o <<token, EndMark>>) = Len(stream[r]) + 2 /\ Len(stream[r]) \in Nat
      BY <2>1, AppendTwo DEF EndMark
    <3>3. stream[r] \o <<token, EndMark>> # <<>>
      BY <3>2
    <3> QED BY <3>1, <3>3
  <2>3. CASE KeepGoing(r, token)
    <3>1. stream'[r] = Append(stream[r], token)
      BY <2>1, <2>3 DEF KeepGoing
    <3> QED BY <3>1, <2>1, AppendRange
  <2> QED BY <1>3, <2>2, <2>3
<1>9. Started'
  BY <1>4, <1>8 DEF Order, Started
<1>10. EvictedComesBackFirst' /\ FirstComeFirstServed'
  BY <1>1, <1>4, <1>6, <1>7, OrderKept
<1> QED BY <1>9, <1>10 DEF Order

\* The steps that put nothing on a stream that was empty, or start nothing.
LEMMA StartedKept ==
    ASSUME IInv, Order, Next, ~ EmitPrefill, ~ EmitDecode
    PROVE  Started'
<1>1. TypeOK
  BY DEF IInv
<1>2. CASE RejectHead
  <2>1. Head(waiting) \in Requests
    BY <1>1, <1>2, HeadOfQueue DEF IInv, RejectHead, RoomToAdmit
  <2>2. /\ numOutput' = numOutput
        /\ \A s \in Requests : \/ stream'[s] = stream[s]
                               \/ stream'[s] = Append(stream[s], EndMark)
    BY <1>1, <1>2, <2>1 DEF RejectHead, Reject, TypeOK
  <2>3. ASSUME NEW s \in Requests PROVE Append(stream[s], EndMark) # <<>>
    <3>1. stream[s] \in Seq(Nat) /\ EndMark \in Nat
      BY <1>1 DEF TypeOK, EndMark
    <3> QED BY <3>1, AppendRange
  <2> QED BY <2>2, <2>3 DEF Order, Started
<1>3. CASE EvictForHead
  <2>1. PICK v \in Requests : Fold(v)
    <3>1. PICK i \in DOMAIN running : Evict(i)
      BY <1>3 DEF EvictForHead
    <3>2. running[i] \in Requests
      <4>1. running \in Seq(Requests)
        BY <1>1 DEF TypeOK
      <4> QED BY <4>1, RangeType
    <3> QED BY <3>1, <3>2 DEF Evict
  <2>2. \A s \in Requests : numOutput'[s] = numOutput[s] \/ numOutput'[s] = 0
    BY <1>1, <2>1 DEF Fold, TypeOK
  <2>3. stream' = stream
    BY <1>3 DEF EvictForHead
  <2> QED BY <2>2, <2>3 DEF Order, Started
<1>4. CASE AdmitHead \/ Prefill \/ Decode \/ EndDecode \/ (\E r \in Requests : AddRequest(r))
  BY <1>4 DEF AdmitHead, Prefill, Decode, EndDecode, AddRequest, requestVars, Order, Started
<1>5. CASE Quiet
  BY <1>5, QuietChanges DEF requestVars, Order, Started
<1> QED BY <1>2, <1>3, <1>4, <1>5
        DEF Next, SchedulerStep, Admission, EngineStep, OtherThreads, Quiet

LEMMA OrderInit == Init => Order
<1> SUFFICES ASSUME Init PROVE Order
  OBVIOUS
<1>1. waiting = <<>> /\ numOutput = [r \in Requests |-> 0]
  BY DEF Init, RequestInit
<1>2. DOMAIN waiting = {} /\ Range(waiting) = {}
  BY <1>1, RangeEmpty
<1>3. Started
  BY <1>1 DEF Started
<1> QED BY <1>2, <1>3 DEF Order, EvictedComesBackFirst, FirstComeFirstServed

LEMMA OrderPreserved == IInv /\ Order /\ [Next]_vars => Order'
<1> SUFFICES ASSUME IInv, Order, [Next]_vars PROVE Order'
  OBVIOUS
<1>1. IInv' /\ TypeOK /\ Places
  BY StepPreserves DEF IInv
<1>2. ASSUME UNCHANGED <<waiting, arrivals, numInput, maxNew, stream>>, NumFree <= NumFree'
      PROVE  EvictedComesBackFirst' /\ FirstComeFirstServed'
  BY <1>1, <1>2, OrderKept
<1>3. ASSUME UNCHANGED poolVars PROVE NumFree <= NumFree'
  BY <1>1, <1>3 DEF NumFree, poolVars, TypeOK, PoolTypeOK
<1>4. CASE UNCHANGED vars
  <2>1. UNCHANGED <<waiting, arrivals, numInput, maxNew, stream, numOutput, poolVars>>
    BY <1>4 DEF vars, requestVars, queueVars
  <2>2. Started'
    BY <2>1 DEF Order, Started
  <2> QED BY <1>2, <1>3, <2>1, <2>2 DEF Order
<1>5. CASE EmitPrefill \/ EmitDecode
  BY <1>1, <1>5, OrderEmit
<1>6. CASE Next /\ ~ EmitPrefill /\ ~ EmitDecode
  <2>1. Started'
    BY <1>6, StartedKept
  <2>2. CASE \E r \in Requests : AddRequest(r)
    BY <2>1, <2>2, OrderAdd DEF Order
  <2>3. CASE EvictForHead
    BY <1>1, <2>1, <2>3, OrderEvict DEF Order
  <2>4. CASE RejectHead
    <3>1. waiting # <<>> /\ waiting' = Tail(waiting) /\ UNCHANGED arrivals
      BY <2>4 DEF RejectHead, RoomToAdmit
    <3>2. \A s \in Range(waiting) \ {Head(waiting)} : stream'[s] = stream[s]
      BY <1>1, <2>4, QueuesTyped DEF RejectHead, Reject, TypeOK
    <3> QED BY <2>1, <3>1, <3>2, OrderWithoutHead DEF Order
  <2>5. CASE AdmitHead
    <3>1. waiting # <<>> /\ waiting' = Tail(waiting) /\ UNCHANGED <<arrivals, stream>>
      BY <2>5 DEF AdmitHead, RoomToAdmit
    <3> QED BY <2>1, <3>1, OrderWithoutHead DEF Order
  <2>6. CASE Prefill \/ Decode \/ EndDecode
    <3>1. UNCHANGED <<waiting, arrivals, numInput, maxNew, stream, poolVars>>
      BY <2>6 DEF Prefill, Decode, EndDecode, requestVars, queueVars
    <3> QED BY <1>2, <1>3, <2>1, <3>1 DEF Order
  <2>7. CASE Quiet
    <3>1. UNCHANGED <<waiting, arrivals, numInput, maxNew, stream, poolVars>>
      BY <2>7, QuietChanges DEF requestVars, queueVars
    <3> QED BY <1>2, <1>3, <2>1, <3>1 DEF Order
  <2> QED BY <1>6, <2>2, <2>3, <2>4, <2>5, <2>6, <2>7
          DEF Next, SchedulerStep, Admission, EngineStep, OtherThreads, Quiet
<1> QED BY <1>4, <1>5, <1>6

\* The queue is in order of arrival, evicted requests included, and nobody is started
\* before somebody who came earlier (scheduler.py, add_request, appendleft in
\* _evict_lowest_progress and the admission loop of _step_paged).
THEOREM ServedInOrder == Spec => []FirstComeFirstServed
<1>1. Order => FirstComeFirstServed
  BY DEF Order
<1> QED BY OrderInit, OrderPreserved, Inductive, <1>1, PTL DEF Spec

\* At most one evicted request waits, at the head of the queue, with the pages it needs
\* free: eviction never gives up progress for nothing (_evict_lowest_progress).
THEOREM EvictedReturnsFirst == Spec => []EvictedComesBackFirst
<1>1. Order => EvictedComesBackFirst
  BY DEF Order
<1> QED BY OrderInit, OrderPreserved, Inductive, <1>1, PTL DEF Spec

----------------------------------------------------------------------------
\* Nobody is lost.

\* Where a request is that has a status of its own, at each point of the loop.
Active(r) == CASE pc = "emitPrefill" -> r \in Range(batch) \cup Range(running)
               [] pc = "emitDecode"  -> r \in Range(batch) \cup Range(stillRunning)
               [] OTHER              -> r \in Range(running)

OnTheWay ==
    failures = 0 =>
        \A r \in Requests :
            /\ status[r] = "RUNNING" => Active(r)
            /\ status[r] = "WAITING" /\ r \in Range(arrivals) =>
                  r \in Range(waiting) \cup Range(toPrefill)

\* OnTheWay says what NoRequestLost says of the two lists joined.
LEMMA NobodyLost == IInv /\ OnTheWay => NoRequestLost
<1> SUFFICES ASSUME IInv, OnTheWay, failures = 0
             PROVE  /\ RunningIsActive
                    /\ \A r \in Range(arrivals) :
                          status[r] = "WAITING" => r \in Range(waiting \o toPrefill)
  BY DEF NoRequestLost
<1>1. /\ waiting \in Seq(Requests) /\ running \in Seq(Requests)
      /\ toPrefill \in Seq(Requests) /\ batch \in Seq(Requests)
      /\ stillRunning \in Seq(Requests)
  BY DEF IInv, TypeOK
<1>2. Range(arrivals) \subseteq Requests
  BY QueuesTyped DEF IInv
<1>3. Range(waiting \o toPrefill) = Range(waiting) \cup Range(toPrefill)
  BY <1>1, ConcatRange
<1>4. /\ Range(batch \o running) = Range(batch) \cup Range(running)
      /\ Range(toPrefill \o running) = Range(toPrefill) \cup Range(running)
  BY <1>1, ConcatRange
<1>5. Range(toPrefill \o (batch \o stillRunning))
          = Range(toPrefill) \cup Range(batch) \cup Range(stillRunning)
  <2>1. /\ batch \o stillRunning \in Seq(Requests)
        /\ Range(batch \o stillRunning) = Range(batch) \cup Range(stillRunning)
    BY <1>1, ConcatRange
  <2>2. Range(toPrefill \o (batch \o stillRunning))
            = Range(toPrefill) \cup Range(batch \o stillRunning)
    <3>1. PICK d \in Seq(Requests) : d = batch \o stillRunning
      BY <2>1
    <3>2. Range(toPrefill \o d) = Range(toPrefill) \cup Range(d)
      BY <1>1, ConcatRange
    <3> QED BY <3>1, <3>2
  <2> QED BY <2>1, <2>2
<1>6. ASSUME NEW r \in Requests, status[r] = "RUNNING"
      PROVE  r \in Range(Prefilling \o Decoding)
  <2>1. Active(r)
    BY <1>6 DEF OnTheWay
  <2>2. CASE pc = "emitPrefill"
    <3>1. Prefilling \o Decoding = batch \o running
      BY <2>2 DEF Prefilling, Decoding
    <3> QED BY <2>1, <2>2, <3>1, <1>4 DEF Active
  <2>3. CASE pc = "emitDecode"
    <3>1. Prefilling \o Decoding = toPrefill \o (batch \o stillRunning)
      BY <2>3 DEF Prefilling, Decoding
    <3>2. r \in Range(batch) \cup Range(stillRunning)
      BY <2>1, <2>3 DEF Active
    <3> QED BY <3>1, <3>2, <1>5
  <2>4. CASE pc # "emitPrefill" /\ pc # "emitDecode"
    <3>1. Prefilling \o Decoding = toPrefill \o running
      BY <2>4 DEF Prefilling, Decoding
    <3>2. r \in Range(running)
      BY <2>1, <2>4 DEF Active
    <3> QED BY <3>1, <3>2, <1>4
  <2> QED BY <2>2, <2>3, <2>4
<1>7. RunningIsActive
  BY <1>6 DEF RunningIsActive
<1> QED BY <1>2, <1>3, <1>7 DEF OnTheWay

LEMMA OnTheWayInit == Init => OnTheWay
<1> SUFFICES ASSUME Init PROVE OnTheWay
  OBVIOUS
<1>1. arrivals = <<>> /\ \A r \in Requests : status[r] = "WAITING"
  BY DEF Init, RequestInit
<1> QED BY <1>1, RangeEmpty DEF OnTheWay

\* A token is handled: its request stays, in the list it is appended to, or is done.
LEMMA OnTheWayEmit ==
    ASSUME IInv, OnTheWay, EmitPrefill \/ EmitDecode
    PROVE  OnTheWay'
<1> SUFFICES ASSUME failures' = 0, NEW s \in Requests
             PROVE  /\ status'[s] = "RUNNING" => Active(s)'
                    /\ status'[s] = "WAITING" /\ s \in Range(arrivals') =>
                          s \in Range(waiting') \cup Range(toPrefill')
  BY DEF OnTheWay
<1>1. /\ batch # <<>> /\ batch' = Tail(batch)
      /\ UNCHANGED <<waiting, toPrefill, arrivals, pc, failures>>
      /\ pc \in {"emitPrefill", "emitDecode"}
      /\ TypeOK /\ Places
  BY DEF EmitPrefill, EmitDecode, queueVars, IInv
<1>2. PICK r \in Requests : /\ r = Head(batch) /\ r \in Range(batch)
                            /\ Range(batch') = Range(batch) \ {r}
  BY <1>1, HeadOfBatch
<1>3. PICK token : FinishRequest(r, token) \/ KeepGoing(r, token)
  BY <1>2 DEF EmitPrefill, EmitDecode
<1>4. /\ \A q \in Requests \ {r} : status'[q] = status[q]
      /\ FinishRequest(r, token) => status'[r] = "FINISHED"
      /\ KeepGoing(r, token) => status'[r] = status[r]
      /\ status[r] = "RUNNING"
  <2>1. status[r] = "RUNNING"
    BY <1>1, <1>2 DEF Places, BatchPlace
  <2> QED BY <2>1, <1>1, <1>3, TokenHandled
<1>5. /\ status[s] = "RUNNING" => Active(s)
      /\ status[s] = "WAITING" /\ s \in Range(arrivals) =>
            s \in Range(waiting) \cup Range(toPrefill)
  BY <1>1 DEF OnTheWay
<1>6. status'[s] = "WAITING" => status[s] = "WAITING"
  BY <1>3, <1>4
<1>7. ASSUME status'[s] = "RUNNING" PROVE Active(s)'
  <2>1. status[s] = "RUNNING"
    BY <1>3, <1>4, <1>7
  <2>2. CASE pc = "emitPrefill"
    <3>1. EmitPrefill
      BY <2>2 DEF EmitPrefill, EmitDecode
    <3>2. \/ status'[r] = "FINISHED" /\ running' = running
          \/ running' = Append(running, r)
      BY <3>1, <1>1, <1>2, TokenHandled DEF EmitPrefill
    <3>3. s \in Range(batch) \cup Range(running)
      BY <1>5, <2>1, <2>2 DEF Active
    <3>4. s \in Range(batch') \cup Range(running')
      <4>1. CASE running' = Append(running, r)
        <5>1. Range(running') = Range(running) \cup {r}
          BY <4>1, <1>1, AppendRange DEF TypeOK
        <5> QED BY <5>1, <3>3, <1>2
      <4>2. CASE status'[r] = "FINISHED" /\ running' = running
        BY <4>2, <3>3, <1>2, <1>7
      <4> QED BY <3>2, <4>1, <4>2
    <3> QED BY <3>4, <2>2, <1>1 DEF Active
  <2>3. CASE pc = "emitDecode"
    <3>1. EmitDecode
      BY <2>3 DEF EmitPrefill, EmitDecode
    <3>2. \/ status'[r] = "FINISHED" /\ stillRunning' = stillRunning
          \/ stillRunning' = Append(stillRunning, r)
      BY <3>1, <1>1, <1>2, TokenHandled DEF EmitDecode
    <3>3. s \in Range(batch) \cup Range(stillRunning)
      BY <1>5, <2>1, <2>3 DEF Active
    <3>4. s \in Range(batch') \cup Range(stillRunning')
      <4>1. CASE stillRunning' = Append(stillRunning, r)
        <5>1. Range(stillRunning') = Range(stillRunning) \cup {r}
          BY <4>1, <1>1, AppendRange DEF TypeOK
        <5> QED BY <5>1, <3>3, <1>2
      <4>2. CASE status'[r] = "FINISHED" /\ stillRunning' = stillRunning
        BY <4>2, <3>3, <1>2, <1>7
      <4> QED BY <3>2, <4>1, <4>2
    <3> QED BY <3>4, <2>3, <1>1 DEF Active
  <2> QED BY <2>2, <2>3, <1>1
<1> QED BY <1>1, <1>5, <1>6, <1>7

LEMMA OnTheWayPreserved == IInv /\ OnTheWay /\ [Next]_vars => OnTheWay'
<1> SUFFICES ASSUME IInv, OnTheWay, [Next]_vars PROVE OnTheWay'
  OBVIOUS
<1>1. TypeOK /\ Places /\ failures \in Nat
  BY DEF IInv, TypeOK
<1>2. CASE UNCHANGED vars
  BY <1>2 DEF vars, requestVars, queueVars, localVars, OnTheWay, Active
<1>3. CASE EmitPrefill \/ EmitDecode
  BY <1>3, OnTheWayEmit
<1>4. CASE \E r \in Requests : AddRequest(r)
  <2>1. PICK r \in Requests : AddRequest(r)
    BY <1>4
  <2>2. /\ UNCHANGED <<status, running, toPrefill, batch, stillRunning, pc, failures>>
        /\ waiting' = Append(waiting, r) /\ arrivals' = Append(arrivals, r)
        /\ waiting \in Seq(Requests) /\ arrivals \in Seq(Requests)
    BY <1>1, <2>1 DEF AddRequest, requestVars, localVars, TypeOK
  <2>3. /\ Range(waiting') = Range(waiting) \cup {r}
        /\ Range(arrivals') = Range(arrivals) \cup {r}
    BY <2>2, AppendRange
  <2> QED BY <2>2, <2>3 DEF OnTheWay, Active
<1>5. CASE RejectHead
  <2>1. waiting # <<>> /\ pc = "admit"
    BY <1>5 DEF RejectHead, RoomToAdmit
  <2>2. PICK h \in Requests : h = Head(waiting) /\ Range(Tail(waiting)) = Range(waiting) \ {h}
    BY <1>1, <2>1, HeadOfQueue
  <2>3. /\ waiting' = Tail(waiting) /\ status' = [status EXCEPT ![h] = "FINISHED"]
        /\ UNCHANGED <<running, toPrefill, batch, stillRunning, pc, failures, arrivals>>
    BY <1>5, <2>2 DEF RejectHead, Reject, localVars
  <2>4. status'[h] = "FINISHED" /\ \A s \in Requests \ {h} : status'[s] = status[s]
    BY <1>1, <2>3 DEF TypeOK
  <2> QED BY <2>2, <2>3, <2>4 DEF OnTheWay, Active
<1>6. CASE EvictForHead
  <2>1. /\ pc = "admit"
        /\ UNCHANGED <<pc, toPrefill, batch, stillRunning, failures, arrivals>>
    BY <1>6 DEF EvictForHead
  <2>2. PICK i \in DOMAIN running : Evict(i)
    BY <1>6 DEF EvictForHead
  <2>3. running \in Seq(Requests) /\ i \in 1 .. Len(running) /\ IsInjective(running)
    <3>1. running \in Seq(Requests) /\ IsInjective(running)
      BY <1>1 DEF TypeOK, Places, RunningPlace
    <3> QED BY <3>1, RangeType
  <2>4. PICK v \in Requests : v = running[i]
    BY <2>3, RangeType
  <2>5. /\ running' = RemoveAt(running, i) /\ waiting' = <<v>> \o waiting
        /\ status' = [status EXCEPT ![v] = "WAITING"]
    BY <2>2, <2>4 DEF Evict, LeaveRunning, Requeue
  <2>6. Range(running') = Range(running) \ {v}
    BY <2>3, <2>4, <2>5, RemoveAtRange
  <2>7. waiting \in Seq(Requests)
    BY <1>1 DEF TypeOK
  <2>8. Range(waiting') = Range(waiting) \cup {v}
    BY <2>5, <2>7, PushFrontRange
  <2>9. status'[v] = "WAITING" /\ \A s \in Requests \ {v} : status'[s] = status[s]
    BY <1>1, <2>5 DEF TypeOK
  <2> QED BY <2>1, <2>6, <2>8, <2>9 DEF OnTheWay, Active
<1>7. CASE AdmitHead
  <2>1. waiting # <<>>
    BY <1>7 DEF AdmitHead, RoomToAdmit
  <2>2. PICK h \in Requests : h = Head(waiting) /\ Range(Tail(waiting)) = Range(waiting) \ {h}
    BY <1>1, <2>1, HeadOfQueue
  <2>3. /\ waiting' = Tail(waiting) /\ toPrefill' = Append(toPrefill, h)
        /\ UNCHANGED <<status, running, batch, stillRunning, pc, failures, arrivals>>
    BY <1>7, <2>2 DEF AdmitHead
  <2>4. Range(toPrefill') = Range(toPrefill) \cup {h}
    BY <1>1, <2>3, AppendRange DEF TypeOK
  <2> QED BY <2>2, <2>3, <2>4 DEF OnTheWay, Active
<1>8. CASE Prefill
  <2>1. CASE failures' = failures + 1
    BY <1>1, <2>1 DEF OnTheWay
  <2>2. CASE failures' = failures /\ pc' = "emitPrefill" /\ batch' = toPrefill
    <3>1. /\ pc = "prefill" /\ toPrefill' = <<>>
          /\ UNCHANGED <<waiting, running, arrivals>>
      BY <1>8 DEF Prefill, queueVars
    <3>2. \A s \in Requests :
             status'[s] = IF s \in Range(toPrefill) THEN "RUNNING" ELSE status[s]
      BY <1>8 DEF Prefill
    <3> QED BY <2>2, <3>1, <3>2, RangeEmpty DEF OnTheWay, Active
  <2> QED BY <1>8, <2>1, <2>2 DEF Prefill
<1>9. CASE Decode
  <2>1. CASE failures' = failures + 1
    BY <1>1, <2>1 DEF OnTheWay
  <2>2. CASE failures' = failures /\ pc' = "emitDecode" /\ batch' = running
    <3>1. pc = "decode" /\ UNCHANGED <<status, waiting, toPrefill, arrivals>>
      BY <1>9 DEF Decode, requestVars, queueVars
    <3> QED BY <2>2, <3>1 DEF OnTheWay, Active
  <2> QED BY <1>9, <2>1, <2>2 DEF Decode
<1>10. CASE EndDecode
  <2>1. /\ pc = "emitDecode" /\ batch = <<>> /\ running' = stillRunning /\ pc' = "loop"
        /\ UNCHANGED <<status, waiting, toPrefill, arrivals, failures>>
    BY <1>10 DEF EndDecode, requestVars
  <2> QED BY <2>1, RangeEmpty DEF OnTheWay, Active
<1>11. CASE Quiet
  <2>1. /\ UNCHANGED <<status, waiting, running, toPrefill, batch, stillRunning, arrivals,
                       failures>>
        /\ \/ UNCHANGED pc
           \/ /\ pc \notin {"emitPrefill", "emitDecode"}
              /\ pc' \notin {"emitPrefill", "emitDecode"}
           \/ pc = "emitPrefill" /\ pc' \in {"loop", "decode"} /\ batch = <<>>
    BY <1>11, QuietChanges DEF requestVars, queueVars
  <2> QED BY <2>1, RangeEmpty DEF OnTheWay, Active
<1> QED BY <1>2, <1>3, <1>4, <1>5, <1>6, <1>7, <1>8, <1>9, <1>10, <1>11
        DEF Next, SchedulerStep, Admission, EngineStep, OtherThreads, Quiet

\* Unless an engine call raises, every request that was added is in the queue, in the
\* prefill or in the decode until it is finished (scheduler.py, _step_paged).
THEOREM NobodyIsLost == Spec => []NoRequestLost
BY OnTheWayInit, OnTheWayPreserved, NobodyLost, Inductive, PTL DEF Spec

----------------------------------------------------------------------------
\* The abstract lifecycle: each step of the paged scheduler is a step of it or leaves
\* what a client can see alone.

\* The abstract phase, as the refinement mapping gives it.
phase == [r \in Requests |-> IF r \in Range(arrivals) THEN status[r] ELSE "new"]

\* A request that has pages, or has been sent a token and is not done, can be
\* admitted again: _reject_request never meets a request that already streamed.
AdmittedFits ==
    \A r \in Requests :
        kv[r] # <<>> \/ (stream[r] # <<>> /\ status[r] # "FINISHED") =>
            PagesNeeded(asked[r].prompt + asked[r].maxNew) <= NumPages

\* What a client asks for is positive.
LEMMA AskedPositive ==
    ASSUME TypeOK, NEW r \in Requests
    PROVE  asked[r].prompt + asked[r].maxNew \in Nat
<1>1. asked[r] \in [prompt : PromptLens, maxNew : MaxNews]
  BY DEF TypeOK
<1>2. asked[r].prompt \in Nat /\ asked[r].maxNew \in Nat
  BY <1>1, SchedulerAssumption
<1> QED BY <1>2

\* AdmittedFits holds before the first request.
LEMMA AdmittedFitsInit == Init => AdmittedFits
BY DEF Init, RequestInit, AdmittedFits

\* AdmittedFits is kept by every step: only admission, which checks the size
\* first, gives a request pages, and only a request with pages is sent tokens.
LEMMA AdmittedFitsStep == IInv /\ AdmittedFits /\ [Next]_vars => AdmittedFits'
<1> SUFFICES ASSUME IInv, AdmittedFits, [Next]_vars PROVE AdmittedFits'
  OBVIOUS
<1> USE DEF IInv
<1>1. CASE UNCHANGED <<asked, status, kv, stream>>
  BY <1>1 DEF AdmittedFits, PagesNeeded
<1>2. CASE RejectHead
  <2>1. PICK r \in Requests : r = Head(waiting)
    BY <1>2, HeadOfQueue DEF RejectHead, RoomToAdmit
  <2>2. /\ status' = [status EXCEPT ![r] = "FINISHED"]
        /\ stream' = [stream EXCEPT ![r] = Append(@, EndMark)]
        /\ UNCHANGED <<asked, kv>>
    BY <2>1, <1>2 DEF RejectHead, Reject
  <2>3. /\ \A s \in Requests \ {r} : status'[s] = status[s] /\ stream'[s] = stream[s]
        /\ status'[r] = "FINISHED"
    BY <2>2 DEF TypeOK
  <2> QED BY <2>2, <2>3 DEF AdmittedFits, PagesNeeded
<1>3. CASE EvictForHead
  <2>1. PICK i \in DOMAIN running : Evict(i)
    BY <1>3 DEF EvictForHead
  <2>2. PICK v \in Requests : v = running[i] /\ v \in Range(running)
    <3>1. running \in Seq(Requests)
      BY DEF TypeOK
    <3> QED BY <3>1, RangeType
  <2>3. /\ status' = [status EXCEPT ![v] = "WAITING"]
        /\ kv' = [kv EXCEPT ![v] = <<>>]
        /\ UNCHANGED <<asked, stream>>
    BY <2>1, <2>2, <1>3 DEF EvictForHead, Evict, ReleaseKv
  <2>4. status[v] = "RUNNING"
    BY <2>2, <1>3 DEF EvictForHead, Places, RunningPlace
  <2>5. \A s \in Requests \ {v} : status'[s] = status[s] /\ kv'[s] = kv[s]
    BY <2>3 DEF TypeOK
  <2>6. kv[v] # <<>>
    BY <2>4 DEF PageTables
  <2> QED BY <2>3, <2>5, <2>6 DEF AdmittedFits, PagesNeeded
<1>4. CASE AdmitHead
  <2>1. PICK r \in Requests : r = Head(waiting)
    BY <1>4, HeadOfQueue DEF AdmitHead, RoomToAdmit
  <2>2. /\ ~ TooBig(r)
        /\ kv' = [kv EXCEPT ![r] = Allocated(Needed(r))]
        /\ UNCHANGED <<asked, status, stream>>
    BY <2>1, <1>4 DEF AdmitHead
  <2>3. Budget(r) = asked[r].prompt + asked[r].maxNew
    BY DEF Budgets, FoldConservesTokens, Budget
  <2>4. PagesNeeded(asked[r].prompt + asked[r].maxNew) <= NumPages
    <3>1. asked[r].prompt + asked[r].maxNew \in Nat
      BY AskedPositive
    <3>2. Needed(r) \in Nat /\ ~ (Needed(r) > NumPages)
      BY <2>2, <2>3, <3>1, PagesNeededCovers DEF TooBig, Needed
    <3>3. Needed(r) <= NumPages
      BY <3>2, PoolAssumption
    <3> QED BY <3>3, <2>3 DEF Needed
  <2>5. \A s \in Requests \ {r} : kv'[s] = kv[s]
    BY <2>2 DEF TypeOK
  <2> QED BY <2>2, <2>4, <2>5 DEF AdmittedFits, PagesNeeded
<1>5. CASE Prefill
  <2>1. UNCHANGED <<asked, kv, stream>>
    BY <1>5 DEF Prefill
  <2>2. \A s \in Requests : status'[s] # "FINISHED" => status[s] # "FINISHED"
    BY <1>5 DEF Prefill, Places, ToPrefillPlace
  <2> QED BY <2>1, <2>2 DEF AdmittedFits, PagesNeeded
<1>6. CASE EmitPrefill \/ EmitDecode
  <2>1. PICK r \in Requests : r = Head(batch) /\ r \in Range(batch)
    BY <1>6, HeadOfBatch DEF EmitPrefill, EmitDecode
  <2>2. PICK token : FinishRequest(r, token) \/ KeepGoing(r, token)
    BY <2>1, <1>6 DEF EmitPrefill, EmitDecode
  <2>3. \A s \in Requests \ {r} : status'[s] = status[s] /\ stream'[s] = stream[s]
    BY <2>2, TokenHandled
  <2>4. kv[r] # <<>>
    BY <2>1 DEF Places, BatchPlace, PageTables
  <2>5. \A s \in Requests \ {r} : kv'[s] = kv[s]
    BY <2>2 DEF FinishRequest, KeepGoing, ReleaseKv, TypeOK
  <2>6. asked' = asked
    BY <2>2 DEF FinishRequest, KeepGoing
  <2> QED BY <2>3, <2>4, <2>5, <2>6 DEF AdmittedFits, PagesNeeded
<1>7. CASE Quiet \/ Decode \/ EndDecode \/ \E r \in Requests : AddRequest(r)
  <2>1. UNCHANGED <<asked, status, kv, stream>>
    BY <1>7, QuietChanges DEF Decode, EndDecode, AddRequest, requestVars
  <2> QED BY <2>1, <1>1
<1>8. UNCHANGED vars => UNCHANGED <<asked, status, kv, stream>>
  BY DEF vars, requestVars
<1> QED BY <1>1, <1>2, <1>3, <1>4, <1>5, <1>6, <1>7, <1>8
        DEF Next, SchedulerStep, Admission, EngineStep, OtherThreads, Quiet

\* AdmittedFits holds always.
LEMMA AdmittedFitsAlways == Spec => [](IInv /\ AdmittedFits)
<1>1. Init => IInv /\ AdmittedFits
  BY InitEstablishes, AdmittedFitsInit
<1>2. IInv /\ AdmittedFits /\ [Next]_vars => (IInv /\ AdmittedFits)'
  BY StepPreserves, AdmittedFitsStep
<1> QED BY <1>1, <1>2, PTL DEF Spec

----------------------------------------------------------------------------
\* Each step, as a step of the lifecycle.

\* The mapped phase of one request.
LEMMA PhaseOf ==
    /\ \A r \in Requests : phase[r] = IF r \in Range(arrivals) THEN status[r] ELSE "new"
    /\ \A r \in Requests : phase'[r] = IF r \in Range(arrivals') THEN status'[r] ELSE "new"
BY DEF phase

\* add_request is Submit.
LEMMA AddIsSubmit ==
    ASSUME IInv, NEW r \in Requests, AddRequest(r)
    PROVE  Lifecycle!Submit(r)
<1> USE DEF IInv
<1>1. /\ r \notin Range(arrivals) /\ status[r] = "WAITING"
      /\ UNCHANGED <<asked, status, stream>>
  BY DEF AddRequest, requestVars, Places, NewPlace
<1>2. Range(arrivals') = Range(arrivals) \cup {r}
  BY AppendRange DEF AddRequest, TypeOK
<1>3. phase' = [phase EXCEPT ![r] = "WAITING"]
  BY <1>1, <1>2 DEF phase
<1> QED BY <1>1, <1>3 DEF Lifecycle!Submit, phase

\* _reject_request is Refuse: the request never ran.
LEMMA RejectIsRefuse ==
    ASSUME IInv, AdmittedFits, RejectHead
    PROVE  \E r \in Requests : Lifecycle!Refuse(r)
<1> USE DEF IInv
<1>1. PICK r \in Requests : r = Head(waiting) /\ r \in Range(waiting)
  BY HeadOfQueue DEF RejectHead, RoomToAdmit
<1>2. status[r] = "WAITING" /\ r \in Range(arrivals)
  BY <1>1 DEF Places, WaitingPlace
<1>3. stream[r] = <<>>
  <2>1. Budget(r) = asked[r].prompt + asked[r].maxNew
    BY DEF Budgets, FoldConservesTokens, Budget
  <2>2. asked[r].prompt + asked[r].maxNew \in Nat
    BY AskedPositive
  <2>3. Needed(r) \in Nat /\ Needed(r) > NumPages
    BY <1>1, <2>1, <2>2, PagesNeededCovers DEF RejectHead, TooBig, Needed
  <2>4. ~ (Needed(r) <= NumPages)
    BY <2>3, PoolAssumption
  <2> QED BY <2>1, <2>4, <1>2 DEF AdmittedFits, Needed
<1>4. /\ status' = [status EXCEPT ![r] = "FINISHED"]
      /\ stream' = [stream EXCEPT ![r] = Append(@, EndMark)]
      /\ UNCHANGED <<asked, arrivals>>
  BY <1>1 DEF RejectHead, Reject
<1>5. stream' = [stream EXCEPT ![r] = <<Lifecycle!EndMark>>]
  BY <1>3, <1>4 DEF TypeOK, EndMark, Lifecycle!EndMark
<1>6. phase[r] = "WAITING" /\ phase' = [phase EXCEPT ![r] = "FINISHED"]
  BY <1>2, <1>4 DEF phase, TypeOK
<1> QED BY <1>3, <1>4, <1>5, <1>6 DEF Lifecycle!Refuse, phase

\* An eviction is Preempt.
LEMMA EvictIsPreempt ==
    ASSUME IInv, EvictForHead
    PROVE  \E r \in Requests : Lifecycle!Preempt(r)
<1> USE DEF IInv
<1>1. PICK i \in DOMAIN running : Evict(i)
  BY DEF EvictForHead
<1>2. PICK v \in Requests : v = running[i] /\ v \in Range(running)
  <2>1. running \in Seq(Requests)
    BY DEF TypeOK
  <2> QED BY <2>1, RangeType
<1>3. status[v] = "RUNNING" /\ v \in Range(arrivals)
  BY <1>2 DEF EvictForHead, Places, RunningPlace
<1>4. /\ status' = [status EXCEPT ![v] = "WAITING"]
      /\ UNCHANGED <<asked, stream, arrivals>>
  BY <1>1, <1>2 DEF EvictForHead, Evict
<1>5. phase[v] = "RUNNING" /\ phase' = [phase EXCEPT ![v] = "WAITING"]
  BY <1>3, <1>4 DEF phase, TypeOK
<1> QED BY <1>4, <1>5 DEF Lifecycle!Preempt, phase

\* A prefill, also one that raises, is Start of its batch.
LEMMA PrefillIsStart ==
    ASSUME IInv, Prefill
    PROVE  \E S \in SUBSET Requests : Lifecycle!Start(S)
<1> USE DEF IInv
<1>0. PICK S \in SUBSET Requests : S = Range(toPrefill)
  BY QueuesTyped
<1>1. /\ S \subseteq Range(arrivals)
      /\ \A r \in S : status[r] = "WAITING"
  BY <1>0 DEF Places, ToPrefillPlace
<1>2. /\ status' = [r \in Requests |-> IF r \in S THEN "RUNNING" ELSE status[r]]
      /\ UNCHANGED <<asked, stream, arrivals>>
  BY <1>0 DEF Prefill
<1>3. /\ \A r \in S : phase[r] = "WAITING"
      /\ phase' = [r \in Requests |-> IF r \in S THEN "RUNNING" ELSE phase[r]]
  BY <1>1, <1>2 DEF phase
<1>4. Lifecycle!Start(S)
  BY <1>2, <1>3 DEF Lifecycle!Start, phase
<1> QED BY <1>4

\* A token is Emit or, with the end mark, EmitLast.
LEMMA TokenIsEmit ==
    ASSUME IInv, EmitPrefill \/ EmitDecode
    PROVE  \E r \in Requests : Lifecycle!Emit(r) \/ Lifecycle!EmitLast(r)
<1> USE DEF IInv
<1>1. PICK r \in Requests : r = Head(batch) /\ r \in Range(batch)
  BY HeadOfBatch DEF EmitPrefill, EmitDecode
<1>2. status[r] = "RUNNING" /\ r \in Range(arrivals)
  BY <1>1 DEF Places, BatchPlace
<1>3. \/ FinishRequest(r, NextToken(r))
      \/ ~ OutOfBudget(r) /\ KeepGoing(r, NextToken(r))
  <2>1. EmitPrefill => PrefillToken(r) = NextToken(r)
    BY <1>1, EngineTokens DEF EmitPrefill, Places, BatchPlace
  <2>2. EmitDecode => DecodeToken(r) = NextToken(r)
    BY <1>1, EngineTokens DEF EmitDecode, Places, BatchPlace
  <2> QED BY <2>1, <2>2, <1>1 DEF EmitPrefill, EmitDecode
<1>4. arrivals' = arrivals /\ asked' = asked
  BY <1>3 DEF EmitPrefill, EmitDecode, FinishRequest, KeepGoing
<1>5. /\ NextToken(r) = Lifecycle!Token(r)
      /\ Streamed(r) = Len(stream[r]) /\ Len(stream[r]) \in Nat
  BY <1>2 DEF NextToken, Lifecycle!Token, Streamed, TypeOK
<1>6. /\ numOutput[r] \in Nat /\ maxNew[r] \in Nat /\ numInput[r] \in Nat
      /\ numOutput[r] < maxNew[r]
      /\ numInput[r] + maxNew[r] = asked[r].prompt + asked[r].maxNew
      /\ numInput[r] + numOutput[r] = asked[r].prompt + Streamed(r)
  BY <1>2 DEF TypeOK, Budgets, FoldConservesTokens
<1>7. asked[r].prompt \in Nat /\ asked[r].maxNew \in Nat
  BY SchedulerAssumption DEF TypeOK
<1>8. /\ Len(stream[r]) < asked[r].maxNew
      /\ numOutput[r] + 1 < maxNew[r] => Len(stream[r]) + 1 < asked[r].maxNew
  <2>1. PICK sent \in Nat : sent = Len(stream[r])
    BY <1>5
  <2>2. PICK prompt \in Nat : prompt = asked[r].prompt
    BY <1>7
  <2>3. PICK all \in Nat : all = asked[r].maxNew
    BY <1>7
  <2>4. /\ numInput[r] + numOutput[r] = prompt + sent
        /\ numInput[r] + maxNew[r] = prompt + all
    BY <2>1, <2>2, <2>3, <1>5, <1>6
  <2>5. /\ numOutput[r] \in Nat /\ maxNew[r] \in Nat /\ numInput[r] \in Nat
        /\ numOutput[r] < maxNew[r]
    BY <1>6
  <2>6. sent < all /\ (numOutput[r] + 1 < maxNew[r] => sent + 1 < all)
    BY <2>4, <2>5
  <2> QED BY <2>1, <2>3, <2>6
<1>9. CASE FinishRequest(r, NextToken(r))
  <2>1. Len(stream[r]) < asked[r].maxNew
    BY <1>8
  <2>2. /\ status' = [status EXCEPT ![r] = "FINISHED"]
        /\ stream' = [stream EXCEPT ![r] = @ \o <<Lifecycle!Token(r), Lifecycle!EndMark>>]
    BY <1>5, <1>9 DEF FinishRequest, EndMark, Lifecycle!EndMark
  <2>3. phase[r] = "RUNNING" /\ phase' = [phase EXCEPT ![r] = "FINISHED"]
    BY <2>2, <1>2, <1>4 DEF phase, TypeOK
  <2>4. Lifecycle!EmitLast(r)
    BY <2>1, <2>2, <2>3, <1>4 DEF Lifecycle!EmitLast, phase
  <2> QED BY <2>4
<1>10. CASE ~ OutOfBudget(r) /\ KeepGoing(r, NextToken(r))
  <2>1. numOutput[r] + 1 < maxNew[r]
    BY <1>6, <1>10 DEF OutOfBudget
  <2>2. Len(stream[r]) + 1 < asked[r].maxNew
    BY <2>1, <1>8
  <2>3. /\ status' = status
        /\ stream' = [stream EXCEPT ![r] = Append(@, Lifecycle!Token(r))]
    BY <1>5, <1>10 DEF KeepGoing
  <2>4. phase[r] = "RUNNING" /\ phase' = phase
    BY <2>3, <1>2, <1>4 DEF phase
  <2>5. Lifecycle!Emit(r)
    BY <2>2, <2>3, <2>4, <1>4 DEF Lifecycle!Emit, phase
  <2> QED BY <2>5
<1> QED BY <1>3, <1>9, <1>10

----------------------------------------------------------------------------
\* Every behaviour of the paged scheduler is, for its clients, a behaviour of the
\* lifecycle: batches, evictions and engine failures do not show in the streams.
THEOREM PagedImplementsLifecycle == Spec => ImplementsLifecycle
<1>1. Init => Lifecycle!Init
  BY RangeEmpty DEF Init, RequestInit, Lifecycle!Init
<1>2. IInv /\ AdmittedFits /\ [Next]_vars => [Lifecycle!Next]_(Lifecycle!lifecycleVars)
  <2> SUFFICES ASSUME IInv, AdmittedFits, [Next]_vars
               PROVE  Lifecycle!Next \/ UNCHANGED <<asked, phase, stream>>
    BY DEF Lifecycle!lifecycleVars, phase
  <2>1. CASE \/ Quiet \/ AdmitHead \/ Decode \/ EndDecode \/ UNCHANGED vars
    <3>1. UNCHANGED <<asked, status, stream, arrivals>>
      BY <2>1, QuietChanges DEF AdmitHead, Decode, EndDecode, requestVars, vars
    <3> QED BY <3>1 DEF phase
  <2> QED BY <2>1, AddIsSubmit, RejectIsRefuse, EvictIsPreempt, PrefillIsStart, TokenIsEmit
          DEF Next, SchedulerStep, Admission, EngineStep, OtherThreads, Quiet,
              Lifecycle!Next
<1> QED BY <1>1, <1>2, AdmittedFitsAlways, PTL DEF Spec, ImplementsLifecycle, Lifecycle!Spec


----------------------------------------------------------------------------
\* A batch stays within its limits.

\* The requests that take up a place of max_running.
Placed == Len(toPrefill) + Len(batch)
            + IF pc = "emitDecode" THEN Len(stillRunning) ELSE Len(running)

\* packed_tokens is the length of the prompts admitted in this step, folded ones
\* with what was folded into them; and they fit the budget unless there is one only.
Packing ==
    /\ packedTokens = IF pc = "admit" THEN SumOf(numInput, toPrefill) ELSE 0
    /\ pc \in {"admit", "prefill"} /\ PrefillBudget > 0 =>
          \/ Len(toPrefill) = 1
          \/ SumOf(numInput, toPrefill) <= PrefillBudget

Limits == Placed <= MaxRunning /\ Packing

\* The lists whose lengths are counted.
LEMMA ListLengths ==
    ASSUME TypeOK
    PROVE  /\ Len(toPrefill) \in Nat /\ Len(batch) \in Nat
           /\ Len(running) \in Nat /\ Len(stillRunning) \in Nat
           /\ MaxRunning \in Nat /\ PrefillBudget \in Nat /\ packedTokens \in Nat
           /\ \A r \in Requests : numInput[r] \in Nat
<1>1. /\ toPrefill \in Seq(Requests) /\ batch \in Seq(Requests)
      /\ running \in Seq(Requests) /\ stillRunning \in Seq(Requests)
      /\ numInput \in [Requests -> Nat] /\ packedTokens \in Nat
  BY DEF TypeOK
<1> QED BY <1>1, SchedulerAssumption

\* Only admission takes up another place, and it looks whether there is one.
LEMMA PlacedStep ==
    ASSUME IInv, Placed <= MaxRunning, [Next]_vars
    PROVE  Placed' <= MaxRunning
<1>1. /\ toPrefill \in Seq(Requests) /\ batch \in Seq(Requests)
      /\ running \in Seq(Requests) /\ stillRunning \in Seq(Requests)
  BY DEF IInv, TypeOK
<1>2. /\ Len(toPrefill) \in Nat /\ Len(batch) \in Nat
      /\ Len(running) \in Nat /\ Len(stillRunning) \in Nat /\ MaxRunning \in Nat
  BY ListLengths DEF IInv
<1>3. /\ pc \notin {"emitPrefill", "emitDecode"} => Len(batch) = 0
      /\ pc # "emitDecode" => Len(stillRunning) = 0
      /\ pc \notin {"admit", "prefill"} => Len(toPrefill) = 0
  BY DEF IInv, Places, BatchPlace, StillRunningPlace, ToPrefillPlace
<1>4. Len(<<>>) = 0
  OBVIOUS
<1>5. CASE AdmitHead
  <2>1. /\ pc = "admit" /\ pc' = "admit" /\ Len(running) + Len(toPrefill) < MaxRunning
        /\ toPrefill' = Append(toPrefill, Head(waiting))
        /\ UNCHANGED <<running, batch>>
    BY <1>5 DEF AdmitHead, RoomToAdmit
  <2>2. Len(toPrefill') = Len(toPrefill) + 1
    BY <1>1, <2>1
  <2>3. Placed' = Len(toPrefill) + 1 + Len(batch) + Len(running)
    BY <1>2, <2>1, <2>2 DEF Placed
  <2> QED BY <1>2, <1>3, <2>1, <2>3
<1>6. CASE EvictForHead
  <2>1. PICK i \in DOMAIN running : running' = RemoveAt(running, i)
    BY <1>6 DEF EvictForHead, Evict, LeaveRunning
  <2>2. Len(running') = Len(running) - 1
    BY <1>1, <2>1, RemoveAtRange
  <2>3. /\ pc = "admit" /\ pc' = "admit" /\ UNCHANGED <<toPrefill, batch>>
    BY <1>6 DEF EvictForHead
  <2>4. Placed = Len(toPrefill) + Len(batch) + Len(running)
    BY <2>3 DEF Placed
  <2>5. Placed' = Len(toPrefill) + Len(batch) + (Len(running) - 1)
    BY <2>2, <2>3 DEF Placed
  <2> QED BY <1>2, <2>4, <2>5
<1>7. CASE Prefill
  <2>1. /\ pc = "prefill" /\ toPrefill' = <<>> /\ UNCHANGED running
        /\ \/ pc' = "emitPrefill" /\ batch' = toPrefill
           \/ pc' = "loop" /\ batch' = batch
    BY <1>7 DEF Prefill, queueVars
  <2>2. Placed = Len(toPrefill) + Len(batch) + Len(running) /\ Len(batch) = 0
    BY <1>3, <2>1 DEF Placed
  <2>3. Placed' = Len(batch') + Len(running)
    BY <1>2, <1>4, <2>1, <2>2 DEF Placed
  <2> QED BY <1>2, <2>1, <2>2, <2>3
<1>8. CASE Decode
  <2>1. /\ pc = "decode" /\ UNCHANGED <<running, toPrefill, stillRunning>>
        /\ \/ pc' = "emitDecode" /\ batch' = running
           \/ pc' = "loop" /\ batch' = batch
    BY <1>8 DEF Decode, queueVars
  <2>2. /\ Placed = Len(toPrefill) + Len(batch) + Len(running)
        /\ Len(batch) = 0 /\ Len(stillRunning) = 0
    BY <1>3, <2>1 DEF Placed
  <2>3. CASE pc' = "emitDecode" /\ batch' = running
    <3>1. Placed' = Len(toPrefill) + Len(running) + Len(stillRunning)
      BY <2>1, <2>3 DEF Placed
    <3> QED BY <1>2, <2>2, <3>1
  <2>4. CASE pc' = "loop" /\ batch' = batch
    <3>1. Placed' = Len(toPrefill) + Len(batch) + Len(running)
      BY <2>1, <2>4 DEF Placed
    <3> QED BY <1>2, <2>2, <3>1
  <2> QED BY <2>1, <2>3, <2>4
<1>9. CASE EmitPrefill
  <2>1. /\ pc = "emitPrefill" /\ pc' = "emitPrefill" /\ batch # <<>>
        /\ batch' = Tail(batch) /\ UNCHANGED <<toPrefill, stillRunning>>
        /\ running' = running \/ running' = Append(running, Head(batch))
    BY <1>9 DEF EmitPrefill
  <2>2. Head(batch) \in Requests
    BY <2>1, HeadOfBatch DEF IInv
  <2>3. /\ Len(batch') = Len(batch) - 1
        /\ Len(running') = Len(running) \/ Len(running') = Len(running) + 1
    BY <1>1, <2>1, <2>2
  <2>4. /\ Placed = Len(toPrefill) + Len(batch) + Len(running)
        /\ Placed' = Len(toPrefill) + Len(batch') + Len(running')
    BY <2>1 DEF Placed
  <2> QED BY <1>2, <2>3, <2>4
<1>10. CASE EmitDecode
  <2>1. /\ pc = "emitDecode" /\ pc' = "emitDecode" /\ batch # <<>>
        /\ batch' = Tail(batch) /\ UNCHANGED <<toPrefill, running>>
        /\ stillRunning' = stillRunning \/ stillRunning' = Append(stillRunning, Head(batch))
    BY <1>10 DEF EmitDecode, queueVars
  <2>2. Head(batch) \in Requests
    BY <2>1, HeadOfBatch DEF IInv
  <2>3. /\ Len(batch') = Len(batch) - 1
        /\ \/ Len(stillRunning') = Len(stillRunning)
           \/ Len(stillRunning') = Len(stillRunning) + 1
    BY <1>1, <2>1, <2>2
  <2>4. /\ Placed = Len(toPrefill) + Len(batch) + Len(stillRunning)
        /\ Placed' = Len(toPrefill) + Len(batch') + Len(stillRunning')
    BY <2>1 DEF Placed
  <2> QED BY <1>2, <2>3, <2>4
<1>11. CASE EndDecode
  <2>1. /\ pc = "emitDecode" /\ pc' = "loop" /\ running' = stillRunning
        /\ UNCHANGED <<toPrefill, batch>>
    BY <1>11 DEF EndDecode
  <2> QED BY <2>1 DEF Placed
<1>12. CASE \/ RejectHead \/ \E r \in Requests : AddRequest(r)
            \/ UNCHANGED vars
  <2>1. UNCHANGED <<pc, running, toPrefill, batch, stillRunning>>
    BY <1>12 DEF RejectHead, AddRequest, localVars, vars, queueVars
  <2> QED BY <2>1 DEF Placed
<1>13. CASE Quiet
  <2>1. /\ UNCHANGED <<running, toPrefill, batch, stillRunning>>
        /\ pc = "emitDecode" <=> pc' = "emitDecode"
    BY <1>13, QuietChanges DEF queueVars
  <2> QED BY <2>1 DEF Placed
<1> QED BY <1>5, <1>6, <1>7, <1>8, <1>9, <1>10, <1>11, <1>12, <1>13
        DEF Next, SchedulerStep, Admission, EngineStep, OtherThreads, Quiet

\* packed_tokens follows to_prefill: an admission adds the prompt, an eviction folds
\* a request that is not in to_prefill, and the count starts again from nothing.
LEMMA PackingStep ==
    ASSUME IInv, Packing, [Next]_vars
    PROVE  Packing'
<1>1. /\ toPrefill \in Seq(Requests) /\ numInput \in [Requests -> Nat]
      /\ pc \notin {"admit", "prefill"} => toPrefill = <<>>
  BY DEF IInv, TypeOK, Places, ToPrefillPlace
<1>2. /\ Len(toPrefill) \in Nat /\ PrefillBudget \in Nat /\ packedTokens \in Nat
  BY ListLengths DEF IInv
<1>3. CASE AdmitHead
  <2> DEFINE r == Head(waiting)
  <2>1. /\ pc = "admit" /\ pc' = "admit" /\ waiting # <<>> /\ UNCHANGED numInput
        /\ ~ OverPrefillBudget(r)
        /\ toPrefill' = Append(toPrefill, r)
        /\ packedTokens' = packedTokens + numInput[r]
    BY <1>3 DEF AdmitHead, RoomToAdmit
  <2>2. r \in Requests
    BY <2>1, HeadOfQueue DEF IInv
  <2> HIDE DEF r
  <2>3. SumOf(numInput, Append(toPrefill, r)) = SumOf(numInput, toPrefill) + numInput[r]
    BY <1>1, <2>2, SumOfAppend
  <2>4. packedTokens = SumOf(numInput, toPrefill)
    BY <2>1 DEF Packing
  <2>5. SumOf(numInput', toPrefill') = packedTokens'
    BY <2>1, <2>3, <2>4
  <2>6. ASSUME PrefillBudget > 0
        PROVE  Len(toPrefill') = 1 \/ packedTokens' <= PrefillBudget
    <3>1. CASE toPrefill = <<>>
      BY <2>1, <2>2, <3>1
    <3>2. CASE toPrefill # <<>>
      <4>1. ~ (packedTokens + numInput[r] > PrefillBudget)
        BY <2>1, <2>6, <3>2 DEF OverPrefillBudget
      <4>2. numInput[r] \in Nat
        BY <1>1, <2>2
      <4> QED BY <1>2, <2>1, <4>1, <4>2
    <3> QED BY <3>1, <3>2
  <2> QED BY <2>1, <2>5, <2>6 DEF Packing
<1>4. CASE EvictForHead
  <2>1. PICK i \in DOMAIN running : Evict(i)
    BY <1>4 DEF EvictForHead
  <2>2. PICK v : v = running[i]
    OBVIOUS
  <2>3. /\ numInput' = [numInput EXCEPT ![v] = @ + numOutput[v]]
        /\ pc = "admit" /\ pc' = "admit" /\ UNCHANGED <<toPrefill, packedTokens>>
    BY <1>4, <2>1, <2>2 DEF EvictForHead, Evict, Fold
  <2>4. v \in Range(running) /\ status[v] = "RUNNING"
    <3>1. running \in Seq(Requests)
      BY DEF IInv, TypeOK
    <3>2. v \in Range(running)
      BY <2>2, <3>1, RangeType
    <3> QED BY <2>3, <3>2 DEF IInv, Places, RunningPlace
  <2>5. v \notin Range(toPrefill)
    BY <2>4 DEF IInv, Places, ToPrefillPlace
  <2>6. \A r \in Range(toPrefill) : numInput'[r] = numInput[r]
    <3>1. Range(toPrefill) \subseteq Requests
      BY <1>1, RangeType
    <3> QED BY <1>1, <2>3, <2>5, <3>1
  <2>7. PICK w : w = numInput'
    OBVIOUS
  <2>8. SumOf(w, toPrefill) = SumOf(numInput, toPrefill)
    BY <1>1, <2>6, <2>7, SumOfSame
  <2> QED BY <2>3, <2>7, <2>8 DEF Packing
<1>5. CASE EndAdmission
  <2>1. /\ pc = "admit" /\ pc' # "admit" /\ packedTokens' = 0
        /\ UNCHANGED <<numInput, toPrefill>>
    BY <1>5 DEF EndAdmission, AfterPrefill, requestVars
  <2> QED BY <2>1 DEF Packing
<1>6. CASE BeginStep
  <2>1. /\ pc = "loop" /\ pc' = "admit" /\ UNCHANGED <<numInput, toPrefill, packedTokens>>
    BY <1>6 DEF BeginStep, requestVars
  <2>2. toPrefill = <<>> /\ packedTokens = 0
    BY <1>1, <2>1 DEF Packing
  <2>3. SumOf(numInput, toPrefill) = 0
    BY <2>2, SumOfNothing
  <2>4. 0 <= PrefillBudget
    BY <1>2
  <2> QED BY <2>1, <2>2, <2>3, <2>4 DEF Packing
<1>7. CASE \/ RejectHead \/ \E r \in Requests : AddRequest(r)
           \/ Stop \/ Idle \/ Stopped \/ UNCHANGED vars
  <2>1. UNCHANGED <<pc, numInput, toPrefill, packedTokens>>
    BY <1>7 DEF RejectHead, AddRequest, Stop, Idle, Stopped, localVars, vars, requestVars
  <2> QED BY <2>1 DEF Packing
<1>8. CASE \/ Prefill \/ EmitPrefill \/ EndPrefill \/ Decode \/ EmitDecode \/ EndDecode
           \/ Exit \/ Start
  <2>1. /\ pc # "admit" /\ pc' \notin {"admit", "prefill"} /\ UNCHANGED packedTokens
    BY <1>8 DEF Prefill, EmitPrefill, EndPrefill, Decode, EmitDecode, EndDecode, Exit, Start,
                AfterPrefill, localVars
  <2> QED BY <2>1 DEF Packing
<1> QED BY <1>3, <1>4, <1>5, <1>6, <1>7, <1>8
        DEF Next, SchedulerStep, Admission, EngineStep, OtherThreads

\* No step makes a batch too large, in requests or, unless it is a single one, in the
\* tokens of a packed prefill; also when prompts have grown by folding (scheduler.py,
\* the admission loop of _step_paged).
THEOREM BatchesStayWithinLimits == Spec => []BatchWithinLimits
<1>1. Init => Limits
  <2> SUFFICES ASSUME Init PROVE Limits
    OBVIOUS
  <2>1. /\ pc = "unstarted" /\ packedTokens = 0
        /\ toPrefill = <<>> /\ batch = <<>> /\ running = <<>>
    BY DEF Init
  <2>2. Placed = 0
    BY <2>1 DEF Placed
  <2> QED BY <2>1, <2>2, SchedulerAssumption DEF Limits, Packing
<1>2. IInv /\ Limits /\ [Next]_vars => Limits'
  BY PlacedStep, PackingStep, SchedulerAssumption DEF Limits
<1>3. IInv /\ Limits => BatchWithinLimits
  <2> SUFFICES ASSUME IInv, Limits PROVE BatchWithinLimits
    OBVIOUS
  <2>1. Len(Prefilling) + Len(Decoding) <= MaxRunning
    <3>1. /\ pc = "emitPrefill" => Len(toPrefill) = 0
          /\ pc \notin {"emitPrefill", "emitDecode"} => Len(batch) = 0
      BY DEF IInv, Places, BatchPlace, ToPrefillPlace
    <3>2. /\ Len(toPrefill) \in Nat /\ Len(batch) \in Nat
          /\ Len(running) \in Nat /\ Len(stillRunning) \in Nat
      BY ListLengths DEF IInv
    <3>3. Len(batch \o stillRunning) = Len(batch) + Len(stillRunning)
      <4>1. batch \in Seq(Requests) /\ stillRunning \in Seq(Requests)
        BY DEF IInv, TypeOK
      <4> QED BY <4>1
    <3>4. Len(Prefilling) + Len(Decoding) = Placed
      <4>1. CASE pc = "emitPrefill"
        <5>1. Prefilling = batch /\ Decoding = running
          BY <4>1 DEF Prefilling, Decoding
        <5>2. Placed = Len(toPrefill) + Len(batch) + Len(running) /\ Len(toPrefill) = 0
          BY <3>1, <4>1 DEF Placed
        <5> QED BY <3>2, <5>1, <5>2
      <4>2. CASE pc = "emitDecode"
        BY <3>2, <3>3, <4>2 DEF Prefilling, Decoding, Placed
      <4>3. CASE pc \notin {"emitPrefill", "emitDecode"}
        <5>1. Prefilling = toPrefill /\ Decoding = running
          BY <4>3 DEF Prefilling, Decoding
        <5>2. Placed = Len(toPrefill) + Len(batch) + Len(running) /\ Len(batch) = 0
          BY <3>1, <4>3 DEF Placed
        <5> QED BY <3>2, <5>1, <5>2
      <4> QED BY <4>1, <4>2, <4>3
    <3> QED BY <3>4 DEF Limits
  <2>2. pc = "prefill" /\ PrefillBudget > 0 =>
           Len(toPrefill) = 1 \/ SumOf(numInput, toPrefill) <= PrefillBudget
    BY DEF Limits, Packing
  <2> QED BY <2>1, <2>2 DEF BatchWithinLimits, SumOf
<1> QED BY <1>1, <1>2, <1>3, Inductive, PTL DEF Spec

=============================================================================
