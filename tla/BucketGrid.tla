----------------------------- MODULE BucketGrid -----------------------------
(***************************************************************************)
(* propose_ladder of miniengine/bucket_grid.py: a greedy choice of bucket  *)
(* sizes for the CUDA graphs, such that no batch wastes more than a given  *)
(* part of its bucket on dummy rows.  One step is one turn of the loop.    *)
(*                                                                         *)
(* max_waste is given in hundredths.  The code computes in floating point: *)
(* where the quotient of a step is a whole number, the float may fall just *)
(* short of it and be cut to the number below.                             *)
(***************************************************************************)
EXTENDS Naturals, Sequences, FiniteSets

CONSTANTS MinBs, MaxBs, Wastes      \* values of min_b, max_b and max_waste

ASSUME GridAssumption == /\ MinBs \subseteq Nat \ {0}
                         /\ MaxBs \subseteq Nat \ {0}
                         /\ Wastes \subseteq 0 .. 99

VARIABLES minB, maxB, maxWaste, ladder,
          cutShort,     \* history: the places after which rounding chose a smaller bucket
          returned

inputs == <<minB, maxB, maxWaste>>
vars == <<inputs, ladder, cutShort, returned>>

Init == /\ minB \in MinBs /\ maxB \in MaxBs /\ maxWaste \in Wastes
        /\ minB <= maxB                    \* otherwise ValueError
        /\ ladder = <<minB>>
        /\ cutShort = {} /\ returned = FALSE

Prev == ladder[Len(ladder)]

\* The live batch that wastes most of the next bucket, over 1 - max_waste.
Dividend == (Prev + 1) * 100
Divisor == 100 - maxWaste

Quotient == Dividend \div Divisor

\* int() of it, which may be cut short where it is a whole number.
Caps == {Quotient} \cup IF Dividend % Divisor = 0 THEN {Quotient - 1} ELSE {}

AtLeast(n, low) == IF n < low THEN low ELSE n

\* Slip: the last bucket is not clamped.
Unclamped(n) == n

AtMostMaxB(n) == IF n > maxB THEN maxB ELSE n

\* Slip: one more than the cap.
OnePastCap(cap) == AtMostMaxB(AtLeast(cap + 1, Prev + 1))

\* Slip: one bucket for every batch size.
OneMore(cap) == AtMostMaxB(Prev + 1)

\* if nxt == prev
PastPrev(n) == IF n = Prev THEN Prev + 1 ELSE n

NextBucket(cap) == PastPrev(AtMostMaxB(AtLeast(cap, Prev + 1)))

Extend == /\ Prev < maxB
          /\ \E cap \in Caps :
                /\ ladder' = Append(ladder, NextBucket(cap))
                /\ cutShort' = IF NextBucket(cap) < NextBucket(Quotient)
                               THEN cutShort \cup {Len(ladder)} ELSE cutShort
          /\ UNCHANGED <<inputs, returned>>

\* The loop is over.  Buckets over max_b and duplicates would be dropped here, of
\* which there are none (Rises); max_b is added if it is missing.
Return == /\ ~ (Prev < maxB)
          /\ ~ returned
          /\ returned' = TRUE
          /\ ladder' = IF Prev = maxB THEN ladder ELSE Append(ladder, maxB)
          /\ UNCHANGED <<inputs, cutShort>>

Next == Extend \/ Return

Spec == Init /\ [][Next]_vars

----------------------------------------------------------------------------
\* waste_fraction(live, bucket) <= max_waste
Tolerated(live, bucket) == (bucket - live) * 100 <= maxWaste * bucket

\* The bucket a runner with the buckets of S picks for a batch (bucket_for).
BucketFor(live, S) == CHOOSE b \in S : b >= live /\ \A c \in S : c >= live => b <= c

Good(S) == \A live \in minB .. maxB : Tolerated(live, BucketFor(live, S))

Buckets == {ladder[i] : i \in DOMAIN ladder}

\* The ladder rises strictly from min_b and never passes max_b: the loop ends, and the
\* code that cleans up after it has nothing to do.
Rises == /\ ladder[1] = minB
         /\ \A i \in 1 .. Len(ladder) - 1 : ladder[i] < ladder[i + 1]
         /\ Prev <= maxB

\* Worst-case waste: every batch from min_b to the last bucket is within max_waste,
\* at every turn of the loop and whatever rounding does.
WasteBounded == \A live \in minB .. Prev : Tolerated(live, BucketFor(live, Buckets))

\* The greedy choice is the best one: when the loop returns, a set of buckets with
\* min_b and max_b that keeps the waste of all batches within max_waste has as many,
\* or fewer by one at most for each bucket that rounding made smaller.
FewestBuckets ==
    [][returned' /\ ~ returned =>
        \A S \in SUBSET (minB .. maxB) :
            {minB, maxB} \subseteq S /\ Good(S) =>
                Cardinality(S) + Cardinality(cutShort) >= Len(ladder')]_vars

=============================================================================
