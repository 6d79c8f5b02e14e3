--------------------------- MODULE EngineSetupProofs ---------------------------
(***************************************************************************)
(* From the ladder to the serving engine, for every set of arguments.      *)
(*                                                                         *)
(* The ladder: for every min_b, max_b, max_waste and every outcome of the  *)
(* rounding it rises and its worst-case waste is bounded, and so is the    *)
(* waste that the runner measures once it serves with that ladder; and no  *)
(* other choice of buckets has fewer.                                      *)
(*                                                                         *)
(* The rotary tables: the inductive invariant says what the start-up       *)
(* leaves to the forward passes: a cap on the command line is the length   *)
(* of the tables for good, and what the graphs are bound to reaches the    *)
(* runner's cap.                                                           *)
(***************************************************************************)
EXTENDS EngineSetup, SequenceLemmas

----------------------------------------------------------------------------
\* The ladder.

Domains == /\ minB \in Nat \ {0} /\ maxB \in Nat \ {0} /\ minB <= maxB
           /\ maxWaste \in 0 .. 99
           /\ ladder \in Seq(Nat) /\ ladder # <<>>

\* Rises, for all pairs of places and not neighbours only.
Sorted == /\ ladder[1] = minB
          /\ \A i, j \in 1 .. Len(ladder) : i < j => ladder[i] < ladder[j]
          /\ Prev <= maxB

\* The place of the bucket for a batch: the least one that is large enough.
IsPlaceFor(i, live) ==
    /\ i \in 1 .. Len(ladder) /\ live <= ladder[i]
    /\ \A j \in 1 .. Len(ladder) : live <= ladder[j] => ladder[i] <= ladder[j]

\* WasteBounded with the bucket at hand and not chosen.
Placed == \A live \in minB .. Prev :
             \E i \in 1 .. Len(ladder) : IsPlaceFor(i, live) /\ Tolerated(live, ladder[i])

IInv == Domains /\ Sorted /\ Placed

----------------------------------------------------------------------------
\* Below max_b, no bucket is the one before it again.
LEMMA ClampedAboveLast ==
    ASSUME NEW p \in Nat, p = Prev, NEW top \in Nat, top = maxB, p < top, NEW c \in Int
    PROVE  NextBucket(c) = IF (IF c < p + 1 THEN p + 1 ELSE c) > top THEN top
                           ELSE IF c < p + 1 THEN p + 1 ELSE c
<1>1. PICK n \in Int : n = AtMostMaxB(AtLeast(c, p + 1))
  BY DEF AtMostMaxB, AtLeast
<1>2. n = IF (IF c < p + 1 THEN p + 1 ELSE c) > top THEN top
          ELSE IF c < p + 1 THEN p + 1 ELSE c
  BY <1>1 DEF AtMostMaxB, AtLeast
<1>3. n # p
  BY <1>2
<1>4. NextBucket(c) = n
  BY <1>1, <1>3 DEF NextBucket, PastPrev
<1> QED  BY <1>2, <1>4

\* A bucket that the next turn of the loop may add is above the last one and at
\* most max_b, and tolerated by every batch it is the bucket for.
LEMMA NextBucketFits ==
    ASSUME IInv, Prev < maxB, NEW cap \in Caps
    PROVE  /\ NextBucket(cap) \in Nat
           /\ Prev < NextBucket(cap) /\ NextBucket(cap) <= maxB
           /\ \A live \in Prev + 1 .. NextBucket(cap) : Tolerated(live, NextBucket(cap))
<1> DEFINE n == NextBucket(cap)
<1>1. /\ Prev \in Nat /\ maxB \in Nat /\ maxWaste \in 0 .. 99
  BY DEF IInv, Domains, Prev
<1>2. PICK p \in Nat, w \in 0 .. 99, top \in Nat : p = Prev /\ w = maxWaste /\ top = maxB
  BY <1>1
<1>3. PICK d \in 1 .. 100 : d = 100 - w /\ d = Divisor
  BY <1>2 DEF Divisor
<1>4. PICK q \in Nat : q = Dividend \div d /\ q * d <= (p + 1) * 100 /\ q >= 1
  <2>1. Dividend = (p + 1) * 100 /\ Dividend \in Nat
    BY <1>2 DEF Dividend
  <2>2. Dividend \div d \in Nat /\ (Dividend \div d) * d <= Dividend
    BY <2>1
  <2>3. Dividend \div d >= 1
    BY <2>1
  <2> QED  BY <2>1, <2>2, <2>3
<1>5. cap \in Int /\ cap <= q
  BY <1>3, <1>4 DEF Caps, Quotient
<1>6. PICK c \in Int : c = cap /\ c <= q
  BY <1>5
<1>8. p < top
  BY <1>2
<1>7. n = IF (IF c < p + 1 THEN p + 1 ELSE c) > top THEN top
          ELSE IF c < p + 1 THEN p + 1 ELSE c
  BY <1>2, <1>6, <1>8, ClampedAboveLast
<1>9. n \in Nat /\ p < n /\ n <= top /\ (n = p + 1 \/ n <= q)
  BY <1>6, <1>7, <1>8
<1>10. ASSUME NEW live \in p + 1 .. n
       PROVE  (n - live) * 100 <= w * n
  <2>1. PICK k \in Nat : k = n /\ p < k /\ live \in Nat /\ p + 1 <= live /\ live <= k
    BY <1>9
  <2>2. CASE n = p + 1
    <3>1. k = live
      BY <2>1, <2>2
    <3>2. w * k >= 0
      OBVIOUS
    <3> QED  BY <2>1, <3>1, <3>2
  <2>3. CASE n <= q
    <3>1. k * d <= q * d
      BY <2>1, <2>3
    <3>2. k * d <= (p + 1) * 100
      BY <1>4, <3>1
    <3>3. k * d = k * 100 - w * k
      BY <1>3
    <3>4. w * k \in Nat
      OBVIOUS
    <3> QED  BY <2>1, <3>2, <3>3, <3>4
  <2> QED  BY <1>9, <2>2, <2>3
<1>11. \A live \in p + 1 .. n : Tolerated(live, n)
  BY <1>2, <1>10 DEF Tolerated
<1> QED  BY <1>2, <1>9, <1>11

LEMMA InitInvariant == Init => IInv
<1> SUFFICES ASSUME Init PROVE IInv
  OBVIOUS
<1>1. Domains
  BY GridAssumption DEF Init, Domains
<1>2. Len(ladder) = 1 /\ ladder[1] = minB /\ Prev = minB
  BY DEF Init, Prev
<1>3. Sorted
  BY <1>1, <1>2 DEF Sorted, Domains
<1>4. ASSUME NEW live \in minB .. Prev
      PROVE  IsPlaceFor(1, live) /\ Tolerated(live, ladder[1])
  <2>1. live = ladder[1] /\ live \in Nat
    BY <1>1, <1>2 DEF Domains
  <2>2. IsPlaceFor(1, live)
    BY <1>2, <2>1 DEF IsPlaceFor
  <2>3. Tolerated(live, ladder[1])
    <3> maxWaste \in Nat
      BY <1>1 DEF Domains
    <3>1. PICK w \in Nat, n \in Nat : w = maxWaste /\ n = live
      BY <2>1
    <3>2. w * n \in Nat
      OBVIOUS
    <3>3. (n - n) * 100 <= w * n
      BY <3>2
    <3> QED  BY <2>1, <3>1, <3>3 DEF Tolerated
  <2> QED  BY <2>2, <2>3
<1> QED  BY <1>1, <1>2, <1>3, <1>4 DEF IInv, Placed

LEMMA ExtendInvariant == IInv /\ Extend => IInv'
<1> SUFFICES ASSUME IInv, Extend PROVE IInv'
  OBVIOUS
<1> USE DEF IInv
<1>1. PICK cap \in Caps : ladder' = Append(ladder, NextBucket(cap))
  BY DEF Extend
<1>2. PICK n \in Nat : /\ ladder' = Append(ladder, n)
                       /\ Prev < n /\ n <= maxB
                       /\ \A live \in Prev + 1 .. n : Tolerated(live, n)
  BY <1>1, NextBucketFits DEF Extend
<1>3. PICK len \in Nat \ {0} : len = Len(ladder)
  BY DEF Domains
<1>4. /\ ladder' \in Seq(Nat) /\ ladder' # <<>> /\ Len(ladder') = len + 1
      /\ \A i \in 1 .. len : ladder'[i] = ladder[i]
      /\ ladder'[len + 1] = n
  BY <1>2, <1>3 DEF Domains
<1>5. minB' = minB /\ maxB' = maxB /\ maxWaste' = maxWaste
  BY DEF Extend, inputs
<1>6. Domains'
  BY <1>4, <1>5 DEF Domains
<1>7. Prev' = n
  BY <1>4 DEF Prev
<1>8. /\ \A i \in 1 .. len : ladder[i] \in Nat /\ ladder[i] <= Prev
      /\ Prev \in Nat /\ Prev = ladder[len]
  BY <1>3 DEF Domains, Sorted, Prev
<1>9. Sorted'
  <2>1. ladder'[1] = minB'
    BY <1>3, <1>4, <1>5 DEF Sorted
  <2>2. ASSUME NEW i \in 1 .. Len(ladder'), NEW j \in 1 .. Len(ladder'), i < j
        PROVE  ladder'[i] < ladder'[j]
    <3>1. CASE j = len + 1
      <4>1. i \in 1 .. len
        BY <1>4, <2>2, <3>1
      <4> QED  BY <1>2, <1>4, <1>8, <3>1, <4>1
    <3>2. CASE j # len + 1
      <4>1. i \in 1 .. len /\ j \in 1 .. len
        BY <1>4, <2>2, <3>2
      <4> QED  BY <1>3, <1>4, <2>2, <4>1 DEF Sorted
    <3> QED  BY <3>1, <3>2
  <2> QED  BY <1>2, <1>5, <1>7, <2>1, <2>2 DEF Sorted
<1>10. ASSUME NEW live \in minB' .. Prev'
       PROVE  \E i \in 1 .. Len(ladder') :
                 IsPlaceFor(i, live)' /\ Tolerated(live, ladder[i])'
  <2>1. CASE live <= Prev
    <3>1. live \in minB .. Prev
      BY <1>5, <1>7, <1>8, <2>1 DEF Domains
    <3>2. PICK i \in 1 .. len : IsPlaceFor(i, live) /\ Tolerated(live, ladder[i])
      BY <1>3, <3>1 DEF Placed
    <3>3. i \in 1 .. len + 1 /\ ladder'[i] = ladder[i] /\ ladder[i] < n
      BY <1>2, <1>4, <1>8
    <3>4. IsPlaceFor(i, live)'
      <4>1. live <= ladder'[i]
        BY <3>2, <3>3 DEF IsPlaceFor
      <4>2. ASSUME NEW j \in 1 .. len + 1, live <= ladder'[j]
            PROVE  ladder'[i] <= ladder'[j]
        <5>1. CASE j = len + 1
          BY <1>4, <1>8, <3>3, <5>1
        <5>2. CASE j \in 1 .. len
          BY <1>3, <1>4, <3>2, <3>3, <4>2, <5>2 DEF IsPlaceFor
        <5> QED  BY <5>1, <5>2
      <4> QED  BY <1>4, <3>3, <4>1, <4>2 DEF IsPlaceFor
    <3>5. Tolerated(live, ladder[i])'
      BY <1>5, <3>2, <3>3 DEF Tolerated
    <3> QED  BY <1>4, <3>3, <3>4, <3>5
  <2>2. CASE ~ (live <= Prev)
    <3>1. live \in Prev + 1 .. n
      BY <1>5, <1>7, <1>8, <2>2 DEF Domains
    <3>2. IsPlaceFor(len + 1, live)'
      <4>1. ASSUME NEW j \in 1 .. len + 1, live <= ladder'[j]
            PROVE  n <= ladder'[j]
        <5>1. CASE j = len + 1
          BY <1>4, <5>1
        <5>2. CASE j \in 1 .. len
          BY <1>4, <1>8, <3>1, <4>1, <5>2
        <5> QED  BY <5>1, <5>2
      <4> QED  BY <1>4, <3>1, <4>1 DEF IsPlaceFor
    <3>3. Tolerated(live, ladder[len + 1])'
      BY <1>2, <1>4, <1>5, <3>1 DEF Tolerated
    <3> QED  BY <1>4, <3>2, <3>3
  <2> QED  BY <2>1, <2>2
<1> QED  BY <1>6, <1>9, <1>10 DEF Placed

LEMMA ReturnInvariant == IInv /\ Return => IInv'
<1> SUFFICES ASSUME IInv, Return PROVE IInv'
  OBVIOUS
<1>1. Prev = maxB
  BY DEF IInv, Sorted, Domains, Return, Prev
<1>2. ladder' = ladder /\ UNCHANGED inputs
  BY <1>1 DEF Return
<1> QED  BY <1>2 DEF IInv, Domains, Sorted, Placed, IsPlaceFor, Tolerated, Prev, inputs

\* A turn of the loop, or its end, keeps the invariant.
LEMMA GridStep == IInv /\ [Next]_vars => IInv'
<1> SUFFICES ASSUME IInv, [Next]_vars PROVE IInv'
  OBVIOUS
<1>1. CASE Extend
  BY <1>1, ExtendInvariant
<1>2. CASE Return
  BY <1>2, ReturnInvariant
<1>3. CASE UNCHANGED vars
  BY <1>3 DEF vars, inputs, IInv, Domains, Sorted, Placed, IsPlaceFor, Tolerated, Prev
<1> QED  BY <1>1, <1>2, <1>3 DEF Next

\* The ladder is placed at every turn of the loop.
THEOREM GridInvariant == Spec => []IInv
BY InitInvariant, GridStep, PTL DEF Spec

\* The runner finds a bucket for every batch that the ladder covers, and the batch
\* does not waste too much of it.
LEMMA BucketFound ==
    ASSUME IInv, NEW live \in minB .. Prev
    PROVE  /\ BucketFor(live, Buckets) \in Buckets
           /\ BucketFor(live, Buckets) >= live
           /\ Tolerated(live, BucketFor(live, Buckets))
<1>1. PICK i \in 1 .. Len(ladder) : IsPlaceFor(i, live) /\ Tolerated(live, ladder[i])
  BY DEF IInv, Placed
<1>2. Buckets = {ladder[j] : j \in 1 .. Len(ladder)} /\ Buckets \subseteq Nat
  BY DEF IInv, Domains, Buckets
<1>3. /\ ladder[i] \in Buckets /\ ladder[i] >= live
      /\ \A c \in Buckets : c >= live => ladder[i] <= c
  <2>1. live \in Int
    BY DEF IInv, Domains, Prev
  <2> QED  BY <1>1, <1>2, <2>1 DEF IsPlaceFor
<1>4. ASSUME NEW b \in Buckets, b >= live, \A c \in Buckets : c >= live => b <= c
      PROVE  b = ladder[i]
  <2>1. b <= ladder[i] /\ ladder[i] <= b
    BY <1>3, <1>4
  <2>2. b \in Nat /\ ladder[i] \in Nat
    BY <1>2, <1>3
  <2> QED  BY <2>1, <2>2
<1>5. BucketFor(live, Buckets) = ladder[i]
  BY <1>3, <1>4 DEF BucketFor
<1> QED  BY <1>1, <1>3, <1>5

\* The invariant, put as Rises and WasteBounded put it.
LEMMA GridFacts == IInv => Rises /\ WasteBounded
<1>1. IInv => Rises
  BY DEF IInv, Domains, Sorted, Rises
<1>2. IInv => WasteBounded
  BY BucketFound DEF WasteBounded
<1> QED  BY <1>1, <1>2

----------------------------------------------------------------------------
\* The ladder of propose_ladder rises strictly from min_b and never passes max_b,
\* for all arguments: the clean-up after the loop has nothing to do.
THEOREM LadderRises == Spec => []Rises
BY GridInvariant, GridFacts, PTL

\* With the buckets chosen so far no batch from min_b to the last of them wastes
\* more than max_waste, for all arguments and whatever rounding did.
THEOREM LadderWasteBounded == Spec => []WasteBounded
BY GridInvariant, GridFacts, PTL

----------------------------------------------------------------------------
\* The greedy choice is the best one.

\* Each bucket is as large as the batch just above the one before it tolerates, but for
\* those that rounding made smaller.
Greedy ==
    /\ cutShort \subseteq 1 .. Len(ladder) - 1
    /\ \A i \in (1 .. Len(ladder) - 1) \ cutShort : \A b \in Nat :
          ladder[i + 1] < b /\ b <= maxB => ~ Tolerated(ladder[i] + 1, b)

\* The quotient leaves out no bucket that is tolerated.
LEMMA NextBucketLargest ==
    ASSUME IInv, Prev < maxB,
           NEW b \in Nat, NextBucket(Quotient) < b, b <= maxB
    PROVE  ~ Tolerated(Prev + 1, b)
<1>1. /\ Prev \in Nat /\ maxB \in Nat /\ maxWaste \in 0 .. 99
  BY DEF IInv, Domains, Prev
<1>2. PICK p \in Nat, w \in 0 .. 99, top \in Nat : p = Prev /\ w = maxWaste /\ top = maxB
  BY <1>1
<1>3. PICK d \in 1 .. 100 : d = 100 - w /\ d = Divisor
  BY <1>2 DEF Divisor
<1>4. PICK q \in Nat : q = Dividend \div d /\ (p + 1) * 100 < (q + 1) * d
  <2>1. PICK m \in Nat : m = (p + 1) * 100 /\ m = Dividend
    BY <1>2 DEF Dividend
  <2>2. m \div d \in Nat /\ m < ((m \div d) + 1) * d
    OBVIOUS
  <2> QED BY <2>1, <2>2
<1>5. Quotient = q
  BY <1>3, <1>4 DEF Quotient
<1>6. b >= q + 1
  <2>1. NextBucket(q) = IF (IF q < p + 1 THEN p + 1 ELSE q) > top THEN top
                        ELSE IF q < p + 1 THEN p + 1 ELSE q
    BY <1>2, ClampedAboveLast
  <2>2. NextBucket(q) < b /\ b <= top
    BY <1>2, <1>5
  <2> QED BY <1>2, <2>1, <2>2
<1>7. (p + 1) * 100 < b * d
  <2>1. (q + 1) * d <= b * d
    <3>1. PICK e \in Nat : b = q + 1 + e
      BY <1>6
    <3>2. e * d \in Nat
      OBVIOUS
    <3>3. b * d = (q + 1) * d + e * d
      BY <3>1
    <3> QED BY <3>2, <3>3
  <2>2. (p + 1) * 100 \in Nat /\ (q + 1) * d \in Nat /\ b * d \in Nat
    OBVIOUS
  <2> QED BY <1>4, <2>1, <2>2
<1>8. b * d = b * 100 - w * b
  BY <1>3
<1>9. ~ ((b - (p + 1)) * 100 <= w * b)
  <2>1. w * b \in Nat
    OBVIOUS
  <2> QED BY <1>7, <1>8, <2>1
<1> QED BY <1>2, <1>9 DEF Tolerated

\* Each turn of the loop is greedy, or its place is noted.
LEMMA GreedyStep == IInv /\ Greedy /\ [Next]_vars => Greedy'
<1> SUFFICES ASSUME IInv, Greedy, [Next]_vars PROVE Greedy'
  OBVIOUS
<1>1. CASE Extend
  <2>1. PICK cap \in Caps :
            /\ ladder' = Append(ladder, NextBucket(cap))
            /\ cutShort' = IF NextBucket(cap) < NextBucket(Quotient)
                           THEN cutShort \cup {Len(ladder)} ELSE cutShort
    BY <1>1 DEF Extend
  <2>2. PICK n \in Nat : n = NextBucket(cap)
    BY <1>1, NextBucketFits DEF Extend
  <2>3. PICK len \in Nat \ {0} : len = Len(ladder)
    BY DEF IInv, Domains
  <2>4. /\ Len(ladder') = len + 1 /\ ladder'[len + 1] = n
        /\ \A i \in 1 .. len : ladder'[i] = ladder[i]
    BY <2>1, <2>2, <2>3 DEF IInv, Domains
  <2>5. maxB' = maxB /\ maxWaste' = maxWaste
    BY <1>1 DEF Extend, inputs
  <2>6. PICK largest \in Nat : largest = NextBucket(Quotient)
    <3>1. Quotient \in Caps
      BY DEF Caps
    <3> QED BY <1>1, <3>1, NextBucketFits DEF Extend
  <2>7. /\ cutShort \subseteq 1 .. len - 1 /\ cutShort \subseteq cutShort'
        /\ cutShort' \subseteq 1 .. len
        /\ n < largest => len \in cutShort'
    <3>1. cutShort' = IF n < largest THEN cutShort \cup {len} ELSE cutShort
      BY <2>1, <2>2, <2>3, <2>6
    <3>2. cutShort \subseteq 1 .. len - 1
      BY <2>3 DEF Greedy
    <3>3. len \in 1 .. len /\ 1 .. len - 1 \subseteq 1 .. len
      BY <2>3
    <3> QED BY <3>1, <3>2, <3>3
  <2>8. ASSUME NEW i \in (1 .. len) \ cutShort', NEW b \in Nat, ladder'[i + 1] < b, b <= maxB
        PROVE  ~ Tolerated(ladder[i] + 1, b)
    <3>1. CASE i = len
      <4>1. ladder[i] = Prev /\ n < b
        BY <2>3, <2>4, <2>8, <3>1 DEF Prev
      <4>2. ~ (n < largest)
        BY <2>7, <2>8, <3>1
      <4>3. NextBucket(Quotient) < b
        BY <2>6, <4>1, <4>2
      <4> QED BY <1>1, <2>8, <4>1, <4>3, NextBucketLargest DEF Extend
    <3>2. CASE i # len
      <4>1. i \in 1 .. Len(ladder) - 1 /\ i + 1 \in 1 .. len /\ i \notin cutShort
        BY <2>3, <2>7, <2>8, <3>2
      <4>2. ladder[i + 1] < b
        BY <2>4, <2>8, <4>1
      <4> QED BY <2>8, <4>1, <4>2 DEF Greedy
    <3> QED BY <3>1, <3>2
  <2>9. ASSUME NEW i \in (1 .. Len(ladder') - 1) \ cutShort', NEW b \in Nat,
               ladder'[i + 1] < b, b <= maxB'
        PROVE  ~ Tolerated(ladder[i] + 1, b)'
    <3>1. i \in (1 .. len) \ cutShort'
      BY <2>4, <2>9
    <3>2. ladder'[i] = ladder[i]
      BY <2>4, <3>1
    <3>3. ~ Tolerated(ladder[i] + 1, b)
      BY <2>5, <2>8, <2>9, <3>1
    <3> QED BY <2>5, <3>2, <3>3 DEF Tolerated
  <2>10. cutShort' \subseteq 1 .. Len(ladder') - 1
    BY <2>4, <2>7
  <2> QED BY <2>9, <2>10 DEF Greedy
<1>2. CASE Return
  <2>1. Prev = maxB
    BY <1>2 DEF IInv, Sorted, Domains, Return, Prev
  <2>2. ladder' = ladder /\ cutShort' = cutShort /\ maxB' = maxB /\ maxWaste' = maxWaste
    BY <1>2, <2>1 DEF Return, inputs
  <2> QED BY <2>2 DEF Greedy, Tolerated
<1>3. CASE UNCHANGED vars
  BY <1>3 DEF vars, inputs, Greedy, Tolerated
<1> QED BY <1>1, <1>2, <1>3 DEF Next

\* Buckets that serve every batch have one in each gap of the ladder that is as wide as
\* it may be.
LEMMA OneInEachGap ==
    ASSUME IInv, Greedy, Prev = maxB,
           NEW S \in SUBSET (minB .. maxB), maxB \in S, Good(S),
           NEW i \in (1 .. Len(ladder) - 1) \ cutShort
    PROVE  \E b \in S : ladder[i] < b /\ b <= ladder[i + 1]
<1>1. PICK len \in Nat : len = Len(ladder) /\ ladder \in Seq(Nat) /\ i \in 1 .. len - 1
  BY DEF IInv, Domains
<1>2. /\ i \in 1 .. len /\ i + 1 \in 1 .. len /\ i < i + 1
      /\ ladder[i] \in Nat /\ ladder[i + 1] \in Nat /\ 1 \in 1 .. len /\ len \in 1 .. len
  BY <1>1
<1>3. ladder[i] < ladder[i + 1]
  BY <1>1, <1>2 DEF IInv, Sorted
<1>4. ladder[i + 1] <= maxB
  <2>1. maxB = ladder[len] /\ maxB \in Nat
    BY <1>1 DEF Prev, IInv, Domains
  <2>2. i + 1 < len => ladder[i + 1] < ladder[len]
    BY <1>1, <1>2 DEF IInv, Sorted
  <2>3. i + 1 = len \/ i + 1 < len
    BY <1>1, <1>2
  <2> QED BY <1>2, <2>1, <2>2, <2>3
<1>5. minB <= ladder[i] /\ minB \in Nat /\ maxB \in Nat
  <2>1. minB = ladder[1] /\ minB \in Nat /\ maxB \in Nat
    BY DEF IInv, Sorted, Domains
  <2>2. 1 < i => ladder[1] < ladder[i]
    BY <1>1, <1>2 DEF IInv, Sorted
  <2>3. 1 = i \/ 1 < i
    BY <1>1
  <2> QED BY <1>2, <2>1, <2>2, <2>3
<1>6. PICK live \in Nat : live = ladder[i] + 1
  BY <1>2
<1>7. live \in minB .. maxB /\ live <= maxB
  BY <1>2, <1>3, <1>4, <1>5, <1>6
<1>8. S \in SUBSET Nat
  BY <1>5
<1>9. \E b \in S : b >= live /\ \A c \in S : c >= live => b <= c
  BY <1>7, <1>8, LeastFrom
<1>10. PICK b \in S : b = BucketFor(live, S) /\ b >= live
  BY <1>9 DEF BucketFor
<1>11. Tolerated(live, b)
  BY <1>7, <1>10 DEF Good
<1>12. b \in Nat /\ b <= maxB
  BY <1>5, <1>10
<1>13. ~ (ladder[i + 1] < b)
  BY <1>6, <1>11, <1>12 DEF Greedy
<1> QED BY <1>2, <1>6, <1>10, <1>12, <1>13

\* Of n places as many are left as are not noted to be cut short.
LEMMA PlacesLeft ==
    ASSUME NEW n \in Nat, n >= 1, NEW C \in SUBSET (1 .. n - 1)
    PROVE  /\ Cardinality((1 .. n) \ {k + 1 : k \in C}) \in Nat
           /\ Cardinality(C) \in Nat
           /\ Cardinality((1 .. n) \ {k + 1 : k \in C}) >= n - Cardinality(C)
<1>1. PICK D : D = {k + 1 : k \in C}
  OBVIOUS
<1>2. /\ IsFiniteSet(1 .. n) /\ Cardinality(1 .. n) = n
  <2>1. 1 \in Int /\ n \in Int
    OBVIOUS
  <2>2. /\ IsFiniteSet(1 .. n)
        /\ Cardinality(1 .. n) = IF 1 > n THEN 0 ELSE n - 1 + 1
    BY <2>1, FS_Interval
  <2> QED BY <2>2
<1>3. C \subseteq 1 .. n /\ D \subseteq 1 .. n
  BY <1>1
<1>4. IsFiniteSet(C) /\ IsFiniteSet(D)
  BY <1>2, <1>3, FS_Subset
<1>5. Cardinality(C) \in Nat /\ Cardinality(D) \in Nat
  BY <1>4, FS_CardinalityType
<1>6. Cardinality(D) <= Cardinality(C)
  <2>1. PICK h : h = [d \in D |-> d - 1]
    OBVIOUS
  <2>2. h \in [D -> C]
    BY <1>1, <1>3, <2>1
  <2>3. IsInjective(h)
    BY <1>3, <2>1 DEF IsInjective
  <2>4. h \in Injection(D, C)
    BY <2>2, <2>3 DEF Injection
  <2> QED BY <1>4, <2>4, FS_Injection
<1>7. /\ Cardinality((1 .. n) \ D) = Cardinality(1 .. n) - Cardinality((1 .. n) \cap D)
      /\ IsFiniteSet((1 .. n) \ D)
  BY <1>2, FS_Difference
<1>8. (1 .. n) \cap D = D
  BY <1>3
<1>9. Cardinality((1 .. n) \ D) \in Nat
  BY <1>7, FS_CardinalityType
<1>10. Cardinality((1 .. n) \ D) >= n - Cardinality(C)
  <2>1. PICK d \in Nat : d = Cardinality(D)
    BY <1>5
  <2>2. PICK c \in Nat : c = Cardinality(C)
    BY <1>5
  <2>3. Cardinality((1 .. n) \ D) = n - d
    BY <1>2, <1>7, <1>8, <2>1
  <2>4. d <= c
    BY <1>6, <2>1, <2>2
  <2>5. n - d >= n - c
    BY <2>4
  <2> QED BY <2>2, <2>3, <2>5
<1> QED BY <1>1, <1>5, <1>9, <1>10

\* So they are as many as the ladder's, less those that rounding made smaller.
LEMMA GreedyIsFewest ==
    ASSUME IInv, Greedy, Prev = maxB,
           NEW S \in SUBSET (minB .. maxB), minB \in S, maxB \in S, Good(S)
    PROVE  Cardinality(S) + Cardinality(cutShort) >= Len(ladder)
<1>1. PICK len \in Nat : len = Len(ladder) /\ ladder \in Seq(Nat) /\ len >= 1
  BY DEF IInv, Domains
<1> DEFINE I == (1 .. len) \ {k + 1 : k \in cutShort}
<1>2. PICK g : g = [k \in I |->
                      IF k = 1 THEN minB
                      ELSE CHOOSE b \in S : ladder[k - 1] < b /\ b <= ladder[k]]
  OBVIOUS
<1>3. minB = ladder[1] /\ (1 \in I => g[1] = minB)
  BY <1>1, <1>2 DEF IInv, Sorted
<1>4. ASSUME NEW k \in I, k # 1
      PROVE  g[k] \in S /\ ladder[k - 1] < g[k] /\ g[k] <= ladder[k]
  <2>1. PICK i \in (1 .. Len(ladder) - 1) \ cutShort : i = k - 1 /\ i + 1 = k
    <3>1. k \in Nat /\ k - 1 \in 1 .. len - 1 /\ (k - 1) + 1 = k
      BY <1>1, <1>4
    <3>2. k - 1 \notin cutShort
      BY <1>4, <3>1
    <3> QED BY <1>1, <3>1, <3>2
  <2>2. \E b \in S : ladder[i] < b /\ b <= ladder[i + 1]
    BY OneInEachGap
  <2>3. \E b \in S : ladder[k - 1] < b /\ b <= ladder[k]
    BY <2>1, <2>2
  <2>4. g[k] = CHOOSE b \in S : ladder[k - 1] < b /\ b <= ladder[k]
    BY <1>2, <1>4
  <2> QED BY <2>3, <2>4
<1>5. \A k \in I : g[k] \in S /\ g[k] <= ladder[k]
  <2>1. \A k \in I : k = 1 => g[k] \in S /\ g[k] <= ladder[k]
    <3>1. minB \in Nat
      BY DEF IInv, Domains
    <3> QED BY <1>3, <3>1
  <2> QED BY <1>4, <2>1
<1>6. S \in SUBSET Nat
  BY DEF IInv, Domains
<1>7. ASSUME NEW j \in I, NEW k \in I, j < k PROVE g[j] < g[k]
  <2>1. k # 1 /\ k - 1 \in 1 .. len /\ (j = k - 1 \/ j < k - 1) /\ j \in 1 .. len
    BY <1>1, <1>7
  <2>2. ladder[j] \in Nat /\ ladder[k - 1] \in Nat
    BY <1>1, <2>1
  <2>3. ladder[j] <= ladder[k - 1]
    <3>1. j < k - 1 => ladder[j] < ladder[k - 1]
      BY <1>1, <2>1 DEF IInv, Sorted
    <3> QED BY <2>1, <2>2, <3>1
  <2>4. g[j] <= ladder[j] /\ ladder[k - 1] < g[k] /\ g[j] \in Nat /\ g[k] \in Nat
    BY <1>4, <1>5, <1>6, <1>7, <2>1
  <2> QED BY <2>2, <2>3, <2>4
<1>8. g \in Injection(I, S)
  <2>1. g \in [I -> S]
    BY <1>2, <1>5
  <2>2. ASSUME NEW j \in I, NEW k \in I, j # k PROVE g[j] # g[k]
    <3>1. j < k \/ k < j
      BY <1>1, <2>2
    <3>2. g[j] \in Nat /\ g[k] \in Nat
      BY <1>5, <1>6
    <3> QED BY <1>7, <3>1, <3>2
  <2>3. IsInjective(g)
    BY <2>1, <2>2 DEF IsInjective
  <2> QED BY <2>1, <2>3 DEF Injection
<1>9. IsFiniteSet(S)
  <2>1. minB \in Int /\ maxB \in Int
    BY DEF IInv, Domains
  <2>2. IsFiniteSet(minB .. maxB)
    BY <2>1, FS_Interval
  <2> QED BY <2>2, FS_Subset
<1>10. Cardinality(I) >= len - Cardinality(cutShort)
  BY <1>1, PlacesLeft DEF Greedy
<1>11. Cardinality(I) <= Cardinality(S)
  BY <1>8, <1>9, FS_Injection
<1>12. Cardinality(S) \in Nat
  BY <1>9, FS_CardinalityType
<1>13. Cardinality(I) \in Nat /\ Cardinality(cutShort) \in Nat
  BY <1>1, PlacesLeft DEF Greedy
<1> QED BY <1>1, <1>10, <1>11, <1>12, <1>13

\* When the loop returns, another choice has fewer buckets only by those places.
LEMMA ReturnsFewest ==
    IInv /\ Greedy /\ [Next]_vars =>
        (returned' /\ ~ returned =>
            \A S \in SUBSET (minB .. maxB) :
                {minB, maxB} \subseteq S /\ Good(S) =>
                    Cardinality(S) + Cardinality(cutShort) >= Len(ladder'))
<1> SUFFICES ASSUME IInv, Greedy, [Next]_vars, returned', ~ returned,
                    NEW S \in SUBSET (minB .. maxB), {minB, maxB} \subseteq S, Good(S)
             PROVE  Cardinality(S) + Cardinality(cutShort) >= Len(ladder')
  OBVIOUS
<1>1. Return
  BY DEF Next, Extend, vars
<1>2. Prev = maxB
  BY <1>1 DEF IInv, Sorted, Domains, Return, Prev
<1>3. ladder' = ladder
  BY <1>1, <1>2 DEF Return
<1> QED BY <1>2, <1>3, GreedyIsFewest

----------------------------------------------------------------------------
\* The rotary tables.

SetupTypes ==
    /\ stage \in {"ladder", "prepopulated", "serving", "failed", "broken"}
    /\ ropeCap \in Nat /\ modelLimit \in Nat /\ cudaGraph \in BOOLEAN
    /\ cachedLen \in Nat /\ staticCap \in Nat /\ bound \in Nat

\* What Engine.__init__ finds.
NothingYet ==
    /\ ropeCap = 0 /\ cudaGraph = FALSE
    /\ cachedLen = 0 /\ staticCap = 0 /\ bound = 0

\* A cap fixes the tables at the promised length; without one nothing is fixed, and
\* the first tables are the runner's.
TablesFilled ==
    /\ ropeCap > 0 => staticCap > 0 /\ staticCap = Promised /\ cachedLen = Promised
    /\ ropeCap = 0 => staticCap = 0
    /\ stage = "prepopulated" => cudaGraph = TRUE /\ bound = 0
    /\ stage = "prepopulated" /\ ropeCap = 0 => cachedLen = 0

\* The graphs are bound to tables that reach the runner's cap, and the promised length.
GraphsBound ==
    /\ bound > 0 => cudaGraph = TRUE /\ bound >= RunnerCap /\ bound >= Promised
    /\ stage \in {"serving", "broken"} /\ cudaGraph => bound > 0

SetupInv == /\ SetupTypes
            /\ stage = "ladder" => NothingYet
            /\ TablesFilled
            /\ GraphsBound
            /\ TablesReachPromise

----------------------------------------------------------------------------
LEMMA SetupInitInv == SetupInit => SetupInv
<1> SUFFICES ASSUME SetupInit PROVE SetupInv
  OBVIOUS
<1>1. /\ stage = "ladder" /\ NothingYet
      /\ modelLimit = 0
  BY DEF SetupInit, NothingYet
<1>2. SetupTypes
  BY <1>1 DEF SetupTypes, NothingYet
<1>3. TablesFilled /\ GraphsBound
  BY <1>1 DEF TablesFilled, GraphsBound, NothingYet
<1>4. TablesReachPromise
  BY <1>1 DEF TablesReachPromise
<1> QED BY <1>1, <1>2, <1>3, <1>4 DEF SetupInv

\* A cap that is clipped to the model's limit is still one.
LEMMA ClippedCap ==
    ASSUME NEW cap \in Nat, NEW limit \in Nat \ {0}
    PROVE  /\ Clipped(cap, limit) \in Nat
           /\ cap > 0 => Clipped(cap, limit) > 0
           /\ Clipped(cap, limit) = AtMost(cap, limit)
BY DEF Clipped, AtMost

\* A table on demand is long enough for the position that asks for it.
LEMMA TableOnDemand ==
    ASSUME SetupTypes, bound = 0, staticCap = 0, NEW position \in Nat
    PROVE  TableFor(position) \in Nat /\ TableFor(position) > position
<1>1. PICK c \in Nat : c = cachedLen
  BY DEF SetupTypes
<1>2. PICK f \in Nat : f = FirstTable
  BY SetupAssumption
<1>3. CASE position < cachedLen
  BY <1>1, <1>3 DEF TableFor
<1>4. CASE ~(position < cachedLen)
  BY <1>1, <1>2, <1>4 DEF TableFor, AtLeast
<1> QED BY <1>3, <1>4

\* The length of the tables is a number, whatever they are.
LEMMA TableIsNat ==
    ASSUME SetupTypes, NEW position \in Nat
    PROVE  TableFor(position) \in Nat
<1>1. CASE bound > 0 \/ staticCap > 0
  BY <1>1 DEF TableFor, SetupTypes
<1>2. CASE ~(bound > 0 \/ staticCap > 0)
  <2>1. bound = 0 /\ staticCap = 0
    BY <1>2 DEF SetupTypes
  <2> QED BY <2>1, TableOnDemand
<1> QED BY <1>1, <1>2

\* Where nothing is bound yet, a cap is the length of the tables.
LEMMA TableOfCap ==
    ASSUME SetupInv, bound = 0, ropeCap > 0, NEW position \in Nat
    PROVE  TableFor(position) = Promised /\ cachedLen = Promised
BY DEF SetupInv, TablesFilled, TableFor

----------------------------------------------------------------------------
\* Engine.__init__ up to the runner.
LEMMA StartPreserves ==
    ASSUME SetupInv, NEW cap \in RopeCaps, NEW limit \in ModelLimits,
           NEW graph \in BOOLEAN, Start(cap, limit, graph)
    PROVE  SetupInv'
<1>1. cap \in Nat /\ limit \in Nat \ {0}
  BY SetupAssumption
<1>2. NothingYet
  BY DEF SetupInv, Start
<1>3. /\ ropeCap' = cap /\ modelLimit' = limit /\ cudaGraph' = graph
      /\ stage' = IF graph THEN "prepopulated" ELSE "serving"
      /\ bound' = 0
  BY <1>2 DEF Start, Prepopulate, rotaryVars, NothingYet
<1>4. CASE cap > 0
  <2>1. PICK n \in Nat : n = Clipped(cap, limit) /\ n > 0 /\ n = AtMost(cap, limit)
    BY <1>1, <1>4, ClippedCap
  <2>2. cachedLen' = n /\ staticCap' = n
    BY <1>2, <1>4, <2>1 DEF Start, Prepopulate, NothingYet, AtLeast
  <2>3. Promised' = n
    BY <1>3, <1>4, <2>1 DEF Promised, AtMost
  <2> QED BY <1>1, <1>3, <1>4, <2>1, <2>2, <2>3
          DEF SetupInv, SetupTypes, TablesFilled, GraphsBound, TablesReachPromise
<1>5. CASE ~(cap > 0)
  <2>1. cachedLen' = 0 /\ staticCap' = 0 /\ cap = 0
    BY <1>1, <1>2, <1>5 DEF Start, rotaryVars, NothingYet
  <2> QED BY <1>1, <1>3, <2>1
          DEF SetupInv, SetupTypes, TablesFilled, GraphsBound, TablesReachPromise
<1> QED BY <1>4, <1>5

\* _prepare_rotary_for_capture: the tables reach the runner's cap, or it raises.
LEMMA CapturePreserves ==
    ASSUME SetupInv, Capture
    PROVE  SetupInv'
<1>1. /\ stage = "prepopulated" /\ cudaGraph = TRUE /\ bound = 0
      /\ ropeCap' = ropeCap /\ modelLimit' = modelLimit /\ cudaGraph' = cudaGraph
      /\ staticCap' = staticCap
  BY DEF SetupInv, TablesFilled, Capture, flags
<1>2. PICK k \in Nat : k = RunnerCap - 1 /\ RunnerCap = k + 1
  BY SetupAssumption
<1>3. PICK n \in Nat : n = TableFor(k)
  BY TableIsNat DEF SetupInv
<1>4. Promised' = Promised
  BY <1>1 DEF Promised
<1>5. /\ ropeCap > 0 => n = Promised /\ cachedLen = n
      /\ ropeCap = 0 => n > k /\ Promised = k + 1
  <2>1. CASE ropeCap > 0
    BY <1>1, <1>3, <2>1, TableOfCap
  <2>2. CASE ropeCap = 0
    BY <1>1, <1>2, <1>3, <2>2, TableOnDemand DEF SetupInv, TablesFilled, Promised
  <2> QED BY <2>1, <2>2
<1>6. CASE k < n
  <2>1. cachedLen' = n /\ bound' = n /\ stage' = "serving"
    BY <1>2, <1>3, <1>6 DEF Capture, InTable
  <2>2. n > 0 /\ n >= RunnerCap
    BY <1>2, <1>6
  <2>3. n >= Promised
    <3>1. CASE ropeCap > 0
      BY <3>1, <1>5
    <3>2. CASE ropeCap = 0
      BY <3>2, <1>2, <1>5, <2>2
    <3> QED BY <3>1, <3>2 DEF SetupInv, SetupTypes
  <2>4. SetupTypes' /\ GraphsBound' /\ TablesReachPromise'
    BY <1>1, <1>4, <2>1, <2>2, <2>3
    DEF SetupInv, SetupTypes, GraphsBound, TablesReachPromise
  <2>5. TablesFilled'
    BY <1>1, <1>4, <1>5, <2>1 DEF SetupInv, TablesFilled
  <2> QED BY <2>1, <2>4, <2>5 DEF SetupInv
<1>7. CASE ~(k < n)
  <2>1. cachedLen' = cachedLen /\ bound' = bound /\ stage' = "failed"
    BY <1>2, <1>3, <1>7 DEF Capture, InTable
  <2>2. ropeCap > 0 /\ Promised = n
    BY <1>5, <1>7 DEF SetupInv, SetupTypes
  <2>3. Promised < RunnerCap
    BY <1>2, <1>7, <2>2
  <2> QED BY <1>1, <1>4, <2>1, <2>3
          DEF SetupInv, SetupTypes, TablesFilled, GraphsBound, TablesReachPromise
<1> QED BY <1>6, <1>7

\* A forward pass leaves what was bound alone, and breaks past the promise only.
LEMMA RunPreserves ==
    ASSUME SetupInv, stage = "serving", NEW kind, NEW position \in Nat,
           Run(kind, position),
           UNCHANGED <<ropeCap, modelLimit, cudaGraph, staticCap, bound>>,
           kind = "eager" \/ (bound > 0 /\ position < RunnerCap)
    PROVE  SetupInv'
<1>1. PICK n \in Nat : n = TableFor(position)
  BY TableIsNat DEF SetupInv
<1>2. Promised' = Promised /\ (Limited' <=> Limited)
  BY DEF Promised, Limited
<1>3. CASE position < n
  <2>1. stage' = stage /\ cachedLen' = (IF bound > 0 THEN cachedLen ELSE n)
    BY <1>1, <1>3 DEF Run, InTable
  <2>2. ropeCap > 0 => cachedLen' = cachedLen
    <3>1. CASE bound > 0
      BY <2>1, <3>1
    <3>2. CASE ~(bound > 0)
      <4>1. bound = 0
        BY <3>2 DEF SetupInv, SetupTypes
      <4> QED BY <1>1, <2>1, <3>2, <4>1, TableOfCap
    <3> QED BY <3>1, <3>2
  <2>3. SetupTypes'
    BY <2>1 DEF SetupInv, SetupTypes
  <2> QED BY <1>2, <2>1, <2>2, <2>3
          DEF SetupInv, TablesFilled, GraphsBound, TablesReachPromise
<1>4. CASE ~(position < n)
  <2>1. /\ stage' = "broken" /\ cachedLen' = cachedLen
        /\ brokenBy' = [kind |-> kind, position |-> position]
    BY <1>1, <1>4 DEF Run, InTable
  <2>2. CASE bound > 0
    <3>1. n = bound
      BY <1>1, <2>2 DEF TableFor
    <3>2. bound >= RunnerCap /\ bound >= Promised /\ cudaGraph = TRUE
      BY <2>2 DEF SetupInv, GraphsBound
    <3>3. kind = "eager"
      BY <3>1, <3>2, <1>4, SetupAssumption
    <3>4. position >= Promised
      BY <3>1, <3>2, <1>4, SetupAssumption DEF SetupInv, SetupTypes, Promised, AtMost
    <3> QED BY <1>2, <2>1, <2>2, <3>2, <3>3, <3>4
            DEF SetupInv, SetupTypes, TablesFilled, GraphsBound, TablesReachPromise, Limited
  <2>3. CASE ~(bound > 0)
    <3>1. bound = 0 /\ kind = "eager" /\ cudaGraph = FALSE
      BY <2>3 DEF SetupInv, SetupTypes, GraphsBound
    <3>2. ropeCap > 0
      BY <3>1, <1>1, <1>4, TableOnDemand DEF SetupInv, SetupTypes, TablesFilled
    <3>3. n = Promised
      BY <3>1, <3>2, <1>1, TableOfCap
    <3>4. position >= Promised
      BY <3>3, <1>4
    <3> QED BY <1>2, <2>1, <3>1, <3>2, <3>4
            DEF SetupInv, SetupTypes, TablesFilled, GraphsBound, TablesReachPromise, Limited
  <2> QED BY <2>2, <2>3
<1> QED BY <1>3, <1>4

LEMMA SetupStepPreserves == SetupInv /\ [SetupNext]_setupVars => SetupInv'
<1> SUFFICES ASSUME SetupInv, [SetupNext]_setupVars PROVE SetupInv'
  OBVIOUS
<1> DEFINE mine == <<stage, flags, rotaryVars, brokenBy>>
<1>1. ASSUME UNCHANGED mine PROVE SetupInv'
  BY <1>1 DEF mine, flags, rotaryVars, SetupInv, SetupTypes, NothingYet, TablesFilled,
              GraphsBound, TablesReachPromise, Promised, Limited
<1>2. CASE ComputeLadder
  BY <1>1, <1>2 DEF ComputeLadder
<1>3. CASE UNCHANGED setupVars
  BY <1>1, <1>3 DEF setupVars
<1>4. ASSUME NEW cap \in RopeCaps, NEW limit \in ModelLimits, NEW graph \in BOOLEAN,
             Start(cap, limit, graph)
      PROVE  SetupInv'
  BY <1>4, StartPreserves
<1>5. CASE Capture
  BY <1>5, CapturePreserves
<1>6. ASSUME NEW position \in 0 .. MaxPosition PROVE position \in Nat
  BY SetupAssumption
<1>7. ASSUME NEW position \in 0 .. MaxPosition, EagerForward(position) PROVE SetupInv'
  BY <1>6, <1>7, RunPreserves DEF EagerForward, flags
<1>8. ASSUME NEW position \in 0 .. MaxPosition, NEW live \in 1 .. maxB, Replay(live, position)
      PROVE  SetupInv'
  BY <1>6, <1>8, RunPreserves DEF Replay, Covers, flags
<1> QED BY <1>2, <1>3, <1>4, <1>5, <1>7, <1>8 DEF SetupNext

\* The engine's tables break no forward pass below the length that the flags promise,
\* and no replay at all, for every cap, model limit and position (model.py, prepopulate
\* and static_forward; cuda_graph_runner.py, covers and _prepare_rotary_for_capture).
THEOREM TablesSuffice == SetupSpec => []TablesReachPromise
<1>1. SetupInv => TablesReachPromise
  BY DEF SetupInv
<1> QED BY SetupInitInv, SetupStepPreserves, <1>1, PTL DEF SetupSpec


----------------------------------------------------------------------------
\* What padding_stats reports.

\* Nothing is counted before the ladder is there, and by its buckets afterwards; the
\* ladder then reaches max_b, and nothing is added to it.
StatInv ==
    /\ returned => Prev = maxB
    /\ stage = "ladder" => \A b \in DOMAIN replayCount :
                              b \in Nat /\ replayCount[b] = 0 /\ replayLiveSum[b] = 0
    /\ stage # "ladder" => /\ returned
                           /\ replayCount \in [Buckets -> Nat]
                           /\ replayLiveSum \in [Buckets -> Nat]
    /\ MeasuredWasteBounded

\* A replay that wastes no more than is tolerated keeps the sum within what is.
LEMMA WasteAddsUp ==
    ASSUME NEW w \in Nat, NEW c \in Nat, NEW sum \in Nat, NEW b \in Nat, NEW live \in Nat,
           (c * b - sum) * 100 <= w * c * b, (b - live) * 100 <= w * b
    PROVE  ((c + 1) * b - (sum + live)) * 100 <= w * (c + 1) * b
<1>1. PICK x \in Nat : x = c * b
  OBVIOUS
<1>2. PICK y \in Nat : y = w * c
  OBVIOUS
<1>3. PICK z \in Nat : z = y * b
  OBVIOUS
<1>4. PICK u \in Nat : u = w * b
  OBVIOUS
<1>5. (c + 1) * b = x + b
  BY <1>1
<1>6. w * (c + 1) = y + w
  BY <1>2
<1>7. (y + w) * b = z + u
  BY <1>3, <1>4
<1>8. (x - sum) * 100 <= z /\ (b - live) * 100 <= u
  BY <1>1, <1>2, <1>3, <1>4
<1>9. (x + b - (sum + live)) * 100 <= z + u
  BY <1>8
<1> QED  BY <1>5, <1>6, <1>7, <1>9

\* And one that fills its bucket with live rows, one at least, keeps their sum right.
LEMMA RowsAddUp ==
    ASSUME NEW c \in Nat, NEW sum \in Nat, NEW b \in Nat, NEW live \in Nat,
           sum <= c * b, c <= sum, 1 <= live, live <= b
    PROVE  sum + live <= (c + 1) * b /\ c + 1 <= sum + live
<1>1. PICK x \in Nat : x = c * b
  OBVIOUS
<1>2. (c + 1) * b = x + b
  BY <1>1
<1>3. sum <= x
  BY <1>1
<1> QED  BY <1>2, <1>3

\* The bucket that the runner picks for a batch: a batch below min_b goes to the first.
LEMMA BucketPicked ==
    ASSUME IInv, Prev = maxB, NEW live \in 1 .. maxB
    PROVE  LET b == BucketFor(live, Buckets)
           IN  /\ b \in Buckets /\ b >= live
               /\ b > minB \/ minB = 1 => Tolerated(live, b)
<1>1. minB \in Nat \ {0} /\ maxB \in Nat /\ live \in Nat /\ live >= 1
  BY DEF IInv, Domains
<1>2. CASE live >= minB
  <2>1. live \in minB .. Prev
    BY <1>1, <1>2
  <2> QED  BY <2>1, BucketFound
<1>3. CASE ~ (live >= minB)
  <2>1. minB \in Buckets /\ \A c \in Buckets : minB <= c /\ c \in Nat
    <3>1. /\ ladder \in Seq(Nat) /\ ladder # <<>> /\ ladder[1] = minB
          /\ \A i, j \in 1 .. Len(ladder) : i < j => ladder[i] < ladder[j]
      BY DEF IInv, Domains, Sorted
    <3>2. DOMAIN ladder = 1 .. Len(ladder) /\ 1 \in 1 .. Len(ladder)
      BY <3>1
    <3>3. ASSUME NEW j \in 1 .. Len(ladder) PROVE minB <= ladder[j] /\ ladder[j] \in Nat
      <4>1. CASE j = 1
        BY <3>1, <4>1, <1>1
      <4>2. CASE j # 1
        <5>1. 1 < j /\ ladder[j] \in Nat
          BY <3>1, <4>2
        <5>2. minB < ladder[j]
          BY <3>1, <3>2, <5>1
        <5> QED  BY <1>1, <5>1, <5>2
      <4> QED  BY <4>1, <4>2
    <3> QED  BY <3>1, <3>2, <3>3 DEF Buckets
  <2>2. minB >= live /\ minB # 1
    BY <1>1, <1>3
  <2>3. ASSUME NEW b \in Buckets, b >= live, \A c \in Buckets : c >= live => b <= c
        PROVE  b = minB
    <3>1. b <= minB /\ minB <= b /\ b \in Nat
      BY <2>1, <2>2, <2>3
    <3> QED  BY <1>1, <3>1
  <2>4. BucketFor(live, Buckets) = minB
    BY <2>1, <2>2, <2>3 DEF BucketFor
  <2>5. ~ (minB > minB)
    BY <1>1
  <2> QED  BY <2>1, <2>2, <2>4, <2>5
<1> QED  BY <1>2, <1>3

LEMMA StatInitInv == SetupInit => StatInv
<1> SUFFICES ASSUME SetupInit PROVE StatInv
  OBVIOUS
<1>1. /\ stage = "ladder" /\ returned = FALSE /\ ladder = <<minB>>
      /\ replayCount = [b \in Buckets |-> 0] /\ replayLiveSum = [b \in Buckets |-> 0]
  BY DEF SetupInit, Init
<1>2. minB \in Nat /\ maxWaste \in Nat
  BY GridAssumption DEF SetupInit, Init
<1>3. Buckets \subseteq Nat
  BY <1>1, <1>2 DEF Buckets
<1>4. ASSUME NEW b \in DOMAIN replayCount
      PROVE  /\ b \in Nat /\ replayCount[b] = 0 /\ replayLiveSum[b] = 0
             /\ 0 <= 0 * b
             /\ DummyRows(b) * 100 <= maxWaste * replayCount[b] * b
  <2>1. b \in Nat /\ replayCount[b] = 0 /\ replayLiveSum[b] = 0
    BY <1>1, <1>3
  <2>2. maxWaste * 0 * b = 0 /\ (0 * b - 0) * 100 = 0 /\ 0 * b = 0
    BY <1>2, <2>1
  <2> QED  BY <2>1, <2>2 DEF DummyRows
<1> QED  BY <1>1, <1>4 DEF StatInv, MeasuredWasteBounded

\* While the ladder is computed nothing is counted.
LEMMA ComputeStat ==
    ASSUME IInv, StatInv, ComputeLadder
    PROVE  StatInv'
<1>1. /\ maxWaste' = maxWaste /\ maxB' = maxB /\ minB' = minB /\ stage' = stage
      /\ replayCount' = replayCount /\ replayLiveSum' = replayLiveSum
  BY DEF ComputeLadder, Next, Extend, Return, inputs, statVars
<1>2. returned' => Prev' = maxB'
  <2>1. CASE Extend
    BY <2>1 DEF Extend, StatInv, IInv, Domains, Prev
  <2>2. CASE Return
    <3>1. Prev = maxB
      BY <2>2 DEF Return, IInv, Sorted, Domains, Prev
    <3>2. ladder' = ladder
      BY <2>2, <3>1 DEF Return
    <3> QED  BY <1>1, <3>1, <3>2 DEF Prev
  <2> QED  BY <2>1, <2>2 DEF ComputeLadder, Next
<1>3. stage = "ladder"
  <2>1. CASE Extend
    BY <2>1 DEF Extend, StatInv, IInv, Domains, Sorted, Prev
  <2>2. CASE Return
    BY <2>2 DEF Return, StatInv
  <2> QED  BY <2>1, <2>2 DEF ComputeLadder, Next
<1>4. MeasuredWasteBounded'
  BY <1>1 DEF StatInv, MeasuredWasteBounded, DummyRows
<1> QED  BY <1>1, <1>2, <1>3, <1>4 DEF StatInv

\* The runner starts with empty counts for the buckets of the ladder.
LEMMA StartStat ==
    ASSUME IInv, StatInv, NEW cap, NEW limit, NEW graph \in BOOLEAN, Start(cap, limit, graph)
    PROVE  StatInv'
<1>1. /\ returned /\ UNCHANGED vars /\ stage' # "ladder"
      /\ replayCount' = [b \in Buckets |-> 0] /\ replayLiveSum' = [b \in Buckets |-> 0]
  BY DEF Start
<1>2. Buckets' = Buckets /\ Prev' = Prev /\ maxB' = maxB /\ maxWaste' = maxWaste /\ returned'
  BY <1>1 DEF vars, inputs, Buckets, Prev
<1>3. Buckets \subseteq Nat /\ maxWaste \in Nat
  BY DEF IInv, Domains, Buckets
<1>4. MeasuredWasteBounded'
  <2> SUFFICES ASSUME NEW b \in Buckets
               PROVE  /\ replayLiveSum'[b] <= replayCount'[b] * b
                      /\ replayCount'[b] <= replayLiveSum'[b]
                      /\ DummyRows(b)' * 100 <= maxWaste' * replayCount'[b] * b
    BY <1>1 DEF MeasuredWasteBounded
  <2>1. replayCount'[b] = 0 /\ replayLiveSum'[b] = 0 /\ b \in Nat
    BY <1>1, <1>3
  <2>2. maxWaste * 0 * b = 0 /\ (0 * b - 0) * 100 = 0 /\ 0 * b = 0
    BY <1>3, <2>1
  <2> QED  BY <1>2, <2>1, <2>2 DEF DummyRows
<1> QED  BY <1>1, <1>2, <1>4 DEF StatInv


\* A replay is counted for the bucket that its batch does not waste too much of.
LEMMA ReplayStat ==
    ASSUME IInv, StatInv, NEW position, NEW live \in 1 .. maxB, Replay(live, position)
    PROVE  StatInv'
<1>1. PICK b : b = BucketFor(live, Buckets)
  OBVIOUS
<1>2. /\ stage = "serving" /\ UNCHANGED vars
      /\ replayCount' = [replayCount EXCEPT ![b] = @ + 1]
      /\ replayLiveSum' = [replayLiveSum EXCEPT ![b] = @ + live]
      /\ stage' # "ladder"
  BY <1>1 DEF Replay, Count, Run
<1>3. /\ Prev = maxB /\ returned
      /\ replayCount \in [Buckets -> Nat] /\ replayLiveSum \in [Buckets -> Nat]
  BY <1>2 DEF StatInv
<1>4. b \in Buckets /\ b >= live /\ (b > minB \/ minB = 1 => Tolerated(live, b))
  BY <1>1, <1>3, BucketPicked
<1>5. /\ Buckets' = Buckets /\ Prev' = Prev /\ maxB' = maxB /\ minB' = minB
      /\ maxWaste' = maxWaste /\ returned' = returned
  BY <1>2 DEF vars, inputs, Buckets, Prev
<1>6. Buckets \subseteq Nat /\ maxWaste \in Nat /\ maxB \in Nat
  BY DEF IInv, Domains, Buckets
<1>7. live \in Nat /\ b \in Nat /\ replayCount[b] \in Nat /\ replayLiveSum[b] \in Nat
  BY <1>3, <1>4, <1>6
<1>8. /\ replayCount'[b] = replayCount[b] + 1 /\ replayLiveSum'[b] = replayLiveSum[b] + live
      /\ \A d \in Buckets \ {b} : /\ replayCount'[d] = replayCount[d]
                                  /\ replayLiveSum'[d] = replayLiveSum[d]
  BY <1>2, <1>3, <1>4
<1>9. replayCount' \in [Buckets -> Nat] /\ replayLiveSum' \in [Buckets -> Nat]
  <2>1. PICK m \in Nat : m = replayCount[b] + 1
    BY <1>7
  <2>2. PICK n \in Nat : n = replayLiveSum[b] + live
    BY <1>7
  <2>3. /\ replayCount' = [replayCount EXCEPT ![b] = m]
        /\ replayLiveSum' = [replayLiveSum EXCEPT ![b] = n]
    BY <1>2, <2>1, <2>2
  <2> QED  BY <1>3, <2>3
<1>10. ASSUME NEW d \in Buckets, d > minB \/ minB = 1
       PROVE  (replayCount'[d] * d - replayLiveSum'[d]) * 100 <= maxWaste * replayCount'[d] * d
  <2>1. (replayCount[d] * d - replayLiveSum[d]) * 100 <= maxWaste * replayCount[d] * d
    BY <1>3, <1>10 DEF StatInv, MeasuredWasteBounded, DummyRows
  <2>2. CASE d = b
    <3>1. (b - live) * 100 <= maxWaste * b
      BY <1>4, <1>10, <2>2 DEF Tolerated
    <3>2. PICK c \in Nat : c = replayCount[b]
      BY <1>7
    <3>3. PICK sum \in Nat : sum = replayLiveSum[b]
      BY <1>7
    <3>4. PICK w \in Nat : w = maxWaste
      BY <1>6
    <3>5. (c * b - sum) * 100 <= w * c * b /\ (b - live) * 100 <= w * b
      BY <2>1, <2>2, <3>1, <3>2, <3>3, <3>4
    <3>6. ((c + 1) * b - (sum + live)) * 100 <= w * (c + 1) * b
      BY <1>7, <3>5, WasteAddsUp
    <3> QED  BY <1>8, <2>2, <3>2, <3>3, <3>4, <3>6
  <2>3. CASE d # b
    <3>1. replayCount'[d] = replayCount[d] /\ replayLiveSum'[d] = replayLiveSum[d]
      BY <1>8, <2>3
    <3> QED  BY <2>1, <3>1
  <2> QED  BY <2>2, <2>3
<1>11. ASSUME NEW d \in Buckets
       PROVE  /\ replayLiveSum'[d] <= replayCount'[d] * d
              /\ replayCount'[d] <= replayLiveSum'[d]
  <2>1. replayLiveSum[d] <= replayCount[d] * d /\ replayCount[d] <= replayLiveSum[d]
    BY <1>3 DEF StatInv, MeasuredWasteBounded
  <2>2. CASE d = b
    <3>1. PICK c \in Nat : c = replayCount[b]
      BY <1>7
    <3>2. PICK sum \in Nat : sum = replayLiveSum[b]
      BY <1>7
    <3>3. sum <= c * b /\ c <= sum /\ 1 <= live /\ live <= b
      BY <1>4, <1>6, <1>7, <2>1, <2>2, <3>1, <3>2
    <3>4. sum + live <= (c + 1) * b /\ c + 1 <= sum + live
      BY <1>7, <3>3, RowsAddUp
    <3> QED  BY <1>8, <2>2, <3>1, <3>2, <3>4
  <2>3. CASE d # b
    BY <1>8, <2>1, <2>3
  <2> QED  BY <2>2, <2>3
<1>12. MeasuredWasteBounded'
  <2>1. DOMAIN replayCount' = Buckets
    BY <1>9
  <2> QED  BY <1>5, <1>10, <1>11, <2>1 DEF MeasuredWasteBounded, DummyRows
<1> QED  BY <1>2, <1>3, <1>5, <1>9, <1>12 DEF StatInv

\* Each step of the start-up and of the serving keeps both invariants.
LEMMA StatStep == IInv /\ StatInv /\ [SetupNext]_setupVars => IInv' /\ StatInv'
<1> SUFFICES ASSUME IInv, StatInv, [SetupNext]_setupVars PROVE IInv' /\ StatInv'
  OBVIOUS
<1>1. [Next]_vars
  BY DEF SetupNext, ComputeLadder, Start, Capture, EagerForward, Replay, setupVars
<1>2. IInv'
  BY <1>1, GridStep
<1>3. ASSUME UNCHANGED <<vars, statVars>>, stage' = "ladder" <=> stage = "ladder"
      PROVE  StatInv'
  BY <1>3 DEF vars, inputs, statVars, StatInv, Buckets, Prev, MeasuredWasteBounded, DummyRows
<1>4. CASE ComputeLadder
  BY <1>2, <1>4, ComputeStat
<1>5. ASSUME NEW cap \in RopeCaps, NEW limit \in ModelLimits, NEW graph \in BOOLEAN,
             Start(cap, limit, graph)
      PROVE  StatInv'
  BY <1>5, StartStat
<1>6. CASE Capture
  BY <1>2, <1>3, <1>6 DEF Capture
<1>7. ASSUME NEW position \in 0 .. MaxPosition, EagerForward(position) PROVE StatInv'
  BY <1>3, <1>7 DEF EagerForward, Run
<1>8. ASSUME NEW position \in 0 .. MaxPosition, NEW live \in 1 .. maxB, Replay(live, position)
      PROVE  StatInv'
  BY <1>8, ReplayStat
<1>9. CASE UNCHANGED setupVars
  BY <1>2, <1>3, <1>9 DEF setupVars
<1> QED  BY <1>2, <1>4, <1>5, <1>6, <1>7, <1>8, <1>9 DEF SetupNext

\* The ladder and the counts, from the command line to the last replay.
THEOREM SetupInvariant == SetupSpec => [](IInv /\ StatInv)
<1>1. SetupInit => IInv /\ StatInv
  BY InitInvariant, StatInitInv DEF SetupInit
<1> QED  BY <1>1, StatStep, PTL DEF SetupSpec

\* The ladder that the engine is started with rises and bounds the waste, also while
\* the engine serves (bucket_grid.py, propose_ladder; __main__.py passes it on).
THEOREM ServedLadder == SetupSpec => [](Rises /\ WasteBounded)
BY SetupInvariant, GridFacts, PTL

\* propose_ladder returns as few buckets as any choice with min_b and max_b that keeps the
\* waste of every batch within max_waste, for all arguments, or more by one at most for
\* each bucket that rounding made smaller.
THEOREM LadderFewest == SetupSpec => FewestBuckets
<1>1. SetupInit => Greedy
  <2> SUFFICES ASSUME SetupInit PROVE Greedy
    OBVIOUS
  <2>1. Len(ladder) = 1 /\ cutShort = {}
    BY DEF SetupInit, Init
  <2>2. 1 .. Len(ladder) - 1 = {} /\ cutShort \subseteq 1 .. Len(ladder) - 1
    BY <2>1
  <2> QED BY <2>2 DEF Greedy
<1>2. [SetupNext]_setupVars => [Next]_vars
  BY DEF SetupNext, ComputeLadder, Start, Capture, EagerForward, Replay, setupVars
<1>3. IInv /\ Greedy /\ [SetupNext]_setupVars => Greedy'
  BY <1>2, GreedyStep
<1>4. IInv /\ Greedy /\ [SetupNext]_setupVars =>
         [returned' /\ ~ returned =>
            \A S \in SUBSET (minB .. maxB) :
                {minB, maxB} \subseteq S /\ Good(S) =>
                    Cardinality(S) + Cardinality(cutShort) >= Len(ladder')]_vars
  BY <1>2, ReturnsFewest
<1> QED BY <1>1, <1>3, <1>4, SetupInvariant, PTL DEF SetupSpec, FewestBuckets

\* For every ladder and sequence of batches, what padding_stats counts for a bucket has
\* at least one live row in each replay and no more than the bucket's rows, and from the
\* second bucket on, or if min_b is 1, dummy rows within max_waste
\* (cuda_graph_runner.py, replay_paged_decode, padding_stats).
THEOREM MeasuredWaste == SetupSpec => []MeasuredWasteBounded
<1>1. StatInv => MeasuredWasteBounded
  BY DEF StatInv
<1> QED  BY <1>1, SetupInvariant, PTL

=============================================================================
