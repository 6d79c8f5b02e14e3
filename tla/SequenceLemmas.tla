--------------------------- MODULE SequenceLemmas ---------------------------
(***************************************************************************)
(* What the sequence operators of the models do to the set of elements     *)
(* (Range) and to the absence of duplicates (IsInjective), which is what   *)
(* the proofs about queues, page tables and free lists work with; then     *)
(* what sums over a sequence, running totals, concatenations of many       *)
(* sequences and sorting come to.                                          *)
(***************************************************************************)
EXTENDS Integers, Sequences, FiniteSets, Functions, SequencesExt, SequenceTheorems,
        FiniteSetTheorems, TLAPS

\* The empty sequence (an empty queue, free list or page table) has no elements.
LEMMA RangeEmpty == Range(<<>>) = {} /\ IsInjective(<<>>)
BY DEF Range, IsInjective

\* The elements of a queue or page table are among those it is typed with.
LEMMA RangeType ==
    ASSUME NEW S, NEW s \in Seq(S)
    PROVE  /\ Range(s) \subseteq S
           /\ \A i \in 1 .. Len(s) : s[i] \in Range(s) /\ s[i] \in S
           /\ \A e \in Range(s) : \E i \in 1 .. Len(s) : e = s[i]
           /\ DOMAIN s = 1 .. Len(s)
           /\ Len(s) \in Nat
           /\ (s = <<>>) <=> (Range(s) = {})
BY DEF Range

\* list.append and deque.append.
LEMMA AppendRange ==
    ASSUME NEW S, NEW s \in Seq(S), NEW e \in S
    PROVE  /\ Append(s, e) \in Seq(S)
           /\ Append(s, e) # <<>>
           /\ Len(Append(s, e)) = Len(s) + 1
           /\ Range(Append(s, e)) = Range(s) \cup {e}
           /\ IsInjective(s) /\ e \notin Range(s) => IsInjective(Append(s, e))
<1> DEFINE t == Append(s, e)
<1>1. /\ t \in Seq(S) /\ t # <<>> /\ Len(t) = Len(s) + 1
      /\ \A i \in 1 .. Len(s) : t[i] = s[i]
      /\ t[Len(s) + 1] = e
      /\ DOMAIN t = 1 .. Len(s) + 1
      /\ Len(s) \in Nat /\ DOMAIN s = 1 .. Len(s)
  BY AppendProperties
<1> HIDE DEF t
<1>2. Range(t) = Range(s) \cup {e}
  <2>1. Range(t) \subseteq Range(s) \cup {e}
    BY <1>1 DEF Range
  <2>2. Range(s) \subseteq Range(t)
    BY <1>1 DEF Range
  <2>3. e \in Range(t)
    BY <1>1 DEF Range
  <2> QED BY <2>1, <2>2, <2>3
<1>3. ASSUME IsInjective(s), e \notin Range(s) PROVE IsInjective(t)
  BY <1>1, <1>3 DEF Range, IsInjective
<1> QED BY <1>1, <1>2, <1>3 DEF t

\* deque.popleft: the head leaves, the rest keeps its place.
LEMMA TailRange ==
    ASSUME NEW S, NEW s \in Seq(S), s # <<>>
    PROVE  /\ Head(s) \in S /\ Head(s) \in Range(s)
           /\ Tail(s) \in Seq(S)
           /\ Len(Tail(s)) = Len(s) - 1
           /\ Range(Tail(s)) \subseteq Range(s)
           /\ Range(s) = Range(Tail(s)) \cup {Head(s)}
           /\ IsInjective(s) => IsInjective(Tail(s)) /\ Head(s) \notin Range(Tail(s))
<1> DEFINE t == Tail(s)
<1>1. /\ Head(s) = s[1] /\ Head(s) \in S
      /\ t \in Seq(S) /\ Len(t) = Len(s) - 1
      /\ \A i \in 1 .. Len(t) : t[i] = s[i + 1]
      /\ DOMAIN t = 1 .. Len(t) /\ DOMAIN s = 1 .. Len(s)
      /\ Len(s) \in Nat /\ Len(s) >= 1
  BY HeadTailProperties
<1> HIDE DEF t
<1>2. Head(s) \in Range(s)
  BY <1>1 DEF Range
<1>3. Range(t) \subseteq Range(s)
  BY <1>1 DEF Range
<1>4. \A i \in 1 .. Len(s) : i = 1 \/ (i - 1 \in 1 .. Len(t) /\ s[i] = t[i - 1])
  BY <1>1
<1>5. Range(s) \subseteq Range(t) \cup {Head(s)}
  <2> SUFFICES ASSUME NEW i \in 1 .. Len(s), i # 1
               PROVE  s[i] \in Range(t)
    BY <1>1 DEF Range
  <2>1. i - 1 \in DOMAIN t /\ s[i] = t[i - 1]
    BY <1>1, <1>4
  <2> QED BY <2>1 DEF Range
<1>6. ASSUME IsInjective(s) PROVE IsInjective(t) /\ Head(s) \notin Range(t)
  <2>1. IsInjective(t)
    <3> SUFFICES ASSUME NEW a \in 1 .. Len(t), NEW b \in 1 .. Len(t), t[a] = t[b]
                 PROVE  a = b
      BY <1>1 DEF IsInjective
    <3>1. a + 1 \in DOMAIN s /\ b + 1 \in DOMAIN s /\ s[a + 1] = s[b + 1]
      BY <1>1
    <3>2. a + 1 = b + 1
      BY <3>1, <1>6 DEF IsInjective
    <3> QED BY <3>2, <1>1
  <2>2. Head(s) \notin Range(t)
    BY <1>1, <1>6 DEF IsInjective, Range
  <2> QED BY <2>1, <2>2
<1> QED BY <1>1, <1>2, <1>3, <1>5, <1>6 DEF t

\* Concatenation: free list and returned pages, stream and its last tokens.
LEMMA ConcatRange ==
    ASSUME NEW S, NEW s \in Seq(S), NEW t \in Seq(S)
    PROVE  /\ s \o t \in Seq(S)
           /\ Len(s \o t) = Len(s) + Len(t)
           /\ Range(s \o t) = Range(s) \cup Range(t)
           /\ IsInjective(s) /\ IsInjective(t) /\ Range(s) \cap Range(t) = {}
                => IsInjective(s \o t)
<1> DEFINE u == s \o t
<1>1. /\ u \in Seq(S) /\ Len(u) = Len(s) + Len(t) /\ DOMAIN u = 1 .. Len(s) + Len(t)
      /\ \A i \in 1 .. Len(s) + Len(t) : u[i] = IF i <= Len(s) THEN s[i] ELSE t[i - Len(s)]
      /\ Len(s) \in Nat /\ Len(t) \in Nat
      /\ DOMAIN s = 1 .. Len(s) /\ DOMAIN t = 1 .. Len(t)
  BY ConcatProperties
<1> HIDE DEF u
<1>2. Range(u) \subseteq Range(s) \cup Range(t)
  <2> SUFFICES ASSUME NEW i \in 1 .. Len(s) + Len(t)
               PROVE  u[i] \in Range(s) \cup Range(t)
    BY <1>1 DEF Range
  <2>1. CASE i <= Len(s)
    BY <1>1, <2>1 DEF Range
  <2>2. CASE i > Len(s)
    <3>1. i - Len(s) \in DOMAIN t /\ u[i] = t[i - Len(s)]
      BY <1>1, <2>2
    <3> QED BY <3>1 DEF Range
  <2> QED BY <2>1, <2>2, <1>1
<1>3. Range(s) \subseteq Range(u)
  BY <1>1 DEF Range
<1>4. Range(t) \subseteq Range(u)
  <2>1. ASSUME NEW j \in 1 .. Len(t)
        PROVE  j + Len(s) \in 1 .. Len(s) + Len(t) /\ u[j + Len(s)] = t[j]
    <3>1. PICK m \in Nat, n \in Nat : m = Len(s) /\ n = Len(t)
      BY <1>1
    <3>2. /\ j + m \in 1 .. m + n /\ ~(j + m <= m) /\ (j + m) - m = j
      BY <3>1
    <3> QED BY <3>1, <3>2, <1>1
  <2>2. \A j \in DOMAIN t : j + Len(s) \in DOMAIN u /\ u[j + Len(s)] = t[j]
    BY <1>1, <2>1
  <2> QED BY <2>2 DEF Range
<1>5. ASSUME IsInjective(s), IsInjective(t), Range(s) \cap Range(t) = {}
      PROVE  IsInjective(u)
  <2> SUFFICES ASSUME NEW a \in 1 .. Len(s) + Len(t), NEW b \in 1 .. Len(s) + Len(t),
                      u[a] = u[b]
               PROVE  a = b
    BY <1>1 DEF IsInjective
  <2>1. CASE a <= Len(s) /\ b <= Len(s)
    BY <1>1, <1>5, <2>1 DEF IsInjective
  <2>2. CASE a > Len(s) /\ b > Len(s)
    <3>1. /\ a - Len(s) \in DOMAIN t /\ b - Len(s) \in DOMAIN t
          /\ t[a - Len(s)] = t[b - Len(s)]
      BY <1>1, <2>2
    <3>2. a - Len(s) = b - Len(s)
      BY <3>1, <1>5 DEF IsInjective
    <3> QED BY <3>2, <1>1
  <2>3. CASE a <= Len(s) /\ b > Len(s)
    <3>1. a \in DOMAIN s /\ b - Len(s) \in DOMAIN t /\ s[a] = t[b - Len(s)]
      BY <1>1, <2>3
    <3>2. s[a] \in Range(s) /\ t[b - Len(s)] \in Range(t)
      BY <3>1 DEF Range
    <3> QED BY <3>1, <3>2, <1>5
  <2>4. CASE a > Len(s) /\ b <= Len(s)
    <3>1. b \in DOMAIN s /\ a - Len(s) \in DOMAIN t /\ s[b] = t[a - Len(s)]
      BY <1>1, <2>4
    <3>2. s[b] \in Range(s) /\ t[a - Len(s)] \in Range(t)
      BY <3>1 DEF Range
    <3> QED BY <3>1, <3>2, <1>5
  <2> QED BY <2>1, <2>2, <2>3, <2>4, <1>1
<1> QED BY <1>1, <1>2, <1>3, <1>4, <1>5 DEF u

\* The last token of a stream and its end mark.
LEMMA AppendTwo ==
    ASSUME NEW S, NEW s \in Seq(S), NEW a \in S, NEW b \in S
    PROVE  /\ s \o <<a, b>> \in Seq(S)
           /\ Len(s \o <<a, b>>) = Len(s) + 2
           /\ \A i \in 1 .. Len(s) : (s \o <<a, b>>)[i] = s[i]
           /\ (s \o <<a, b>>)[Len(s) + 1] = a
           /\ (s \o <<a, b>>)[Len(s) + 2] = b
<1> DEFINE e == <<a, b>>
<1>0. e \in Seq(S)
  OBVIOUS
<1>1. Len(e) = 2 /\ e[1] = a /\ e[2] = b
  OBVIOUS
<1> HIDE DEF e
<1>2. /\ s \o e \in Seq(S) /\ Len(s \o e) = Len(s) + Len(e)
      /\ \A i \in 1 .. Len(s) + Len(e) :
            (s \o e)[i] = IF i <= Len(s) THEN s[i] ELSE e[i - Len(s)]
      /\ Len(s) \in Nat
  BY <1>0, ConcatProperties
<1>3. /\ Len(s) + 1 \in 1 .. Len(s) + Len(e) /\ Len(s) + 2 \in 1 .. Len(s) + Len(e)
      /\ \A i \in 1 .. Len(s) : i \in 1 .. Len(s) + Len(e)
  BY <1>1, <1>2
<1>4. (s \o e)[Len(s) + 1] = a /\ (s \o e)[Len(s) + 2] = b
  <2>1. (s \o e)[Len(s) + 1] = e[1] /\ (s \o e)[Len(s) + 2] = e[2]
    BY <1>2, <1>3
  <2> QED BY <2>1, <1>1
<1> QED BY <1>1, <1>2, <1>3, <1>4 DEF e

\* deque.appendleft.
LEMMA PushFrontRange ==
    ASSUME NEW S, NEW s \in Seq(S), NEW e \in S
    PROVE  /\ <<e>> \o s \in Seq(S)
           /\ Range(<<e>> \o s) = Range(s) \cup {e}
           /\ IsInjective(s) /\ e \notin Range(s) => IsInjective(<<e>> \o s)
<1> DEFINE h == <<e>>
<1>1. h \in Seq(S)
  OBVIOUS
<1>2. Range(h) = {e} /\ IsInjective(h)
  BY DEF Range, IsInjective
<1> HIDE DEF h
<1>3. /\ h \o s \in Seq(S)
      /\ Range(h \o s) = Range(h) \cup Range(s)
      /\ IsInjective(h) /\ IsInjective(s) /\ Range(h) \cap Range(s) = {}
           => IsInjective(h \o s)
  BY <1>1, ConcatRange
<1>4. h \o s \in Seq(S) /\ Range(h \o s) = Range(s) \cup {e}
  BY <1>2, <1>3
<1>5. IsInjective(s) /\ e \notin Range(s) => IsInjective(h \o s)
  BY <1>2, <1>3
<1> QED BY <1>4, <1>5 DEF h

\* Two cuts of a sequence: what allocate takes from the free list and what stays.
LEMMA SplitRange ==
    ASSUME NEW S, NEW s \in Seq(S), NEW n \in Nat, n <= Len(s)
    PROVE  LET front == SubSeq(s, 1, n)
               rest  == SubSeq(s, n + 1, Len(s))
           IN  /\ front \in Seq(S) /\ rest \in Seq(S)
               /\ Len(front) = n /\ Len(rest) = Len(s) - n
               /\ Range(front) \cup Range(rest) = Range(s)
               /\ IsInjective(s) => /\ IsInjective(front)
                                    /\ IsInjective(rest)
                                    /\ Range(front) \cap Range(rest) = {}
<1> DEFINE front == SubSeq(s, 1, n)
           rest  == SubSeq(s, n + 1, Len(s))
<1>1. /\ front \in Seq(S) /\ Len(front) = n /\ DOMAIN front = 1 .. n
      /\ \A i \in 1 .. n : front[i] = s[i]
  BY SubSeqProperties
<1>2. /\ rest \in Seq(S) /\ Len(rest) = Len(s) - n /\ DOMAIN rest = 1 .. Len(s) - n
      /\ \A i \in 1 .. Len(s) - n : rest[i] = s[i + n]
  <2>1. \A i \in n + 1 .. Len(s) : s[i] \in S
    OBVIOUS
  <2>2. /\ rest \in Seq(S)
        /\ Len(rest) = IF n + 1 <= Len(s) THEN Len(s) - (n + 1) + 1 ELSE 0
        /\ \A i \in 1 .. Len(s) - (n + 1) + 1 : rest[i] = s[(n + 1) + i - 1]
    BY <2>1, SubSeqProperties
  <2> QED BY <2>2
<1>3. Len(s) \in Nat /\ DOMAIN s = 1 .. Len(s)
  OBVIOUS
<1> HIDE DEF front, rest
<1>4. Range(front) \subseteq Range(s)
  BY <1>1, <1>3 DEF Range
<1>5. Range(rest) \subseteq Range(s)
  <2>1. \A i \in 1 .. Len(s) - n : i + n \in DOMAIN s
    BY <1>3
  <2> QED BY <2>1, <1>2, <1>3 DEF Range
<1>6. Range(s) \subseteq Range(front) \cup Range(rest)
  <2> SUFFICES ASSUME NEW i \in 1 .. Len(s)
               PROVE  s[i] \in Range(front) \cup Range(rest)
    BY <1>3 DEF Range
  <2>1. CASE i <= n
    BY <2>1, <1>1, <1>3 DEF Range
  <2>2. CASE i > n
    <3>1. i - n \in DOMAIN rest /\ rest[i - n] = s[i]
      BY <2>2, <1>2, <1>3
    <3> QED BY <3>1 DEF Range
  <2> QED BY <2>1, <2>2, <1>3
<1>7. ASSUME IsInjective(s)
      PROVE  /\ IsInjective(front) /\ IsInjective(rest)
             /\ Range(front) \cap Range(rest) = {}
  <2>1. IsInjective(front)
    BY <1>1, <1>3, <1>7 DEF IsInjective
  <2>2. IsInjective(rest)
    <3> SUFFICES ASSUME NEW a \in 1 .. Len(s) - n, NEW b \in 1 .. Len(s) - n,
                        rest[a] = rest[b]
                 PROVE  a = b
      BY <1>2 DEF IsInjective
    <3>1. a + n \in DOMAIN s /\ b + n \in DOMAIN s /\ s[a + n] = s[b + n]
      BY <1>2, <1>3
    <3>2. a + n = b + n
      BY <3>1, <1>7 DEF IsInjective
    <3> QED BY <3>2, <1>3
  <2>3. ASSUME NEW a \in 1 .. n, NEW b \in 1 .. Len(s) - n
        PROVE  front[a] # rest[b]
    <3>1. a \in DOMAIN s /\ b + n \in DOMAIN s /\ a # b + n
      BY <1>3
    <3>2. s[a] # s[b + n]
      BY <3>1, <1>7 DEF IsInjective
    <3> QED BY <3>2, <1>1, <1>2
  <2>4. Range(front) \cap Range(rest) = {}
    BY <2>3, <1>1, <1>2 DEF Range
  <2> QED BY <2>1, <2>2, <2>4
<1> QED BY <1>1, <1>2, <1>4, <1>5, <1>6, <1>7 DEF front, rest

\* list.remove: an element leaves, the others keep their order.
LEMMA RemoveAtRange ==
    ASSUME NEW S, NEW s \in Seq(S), NEW i \in 1 .. Len(s)
    PROVE  /\ RemoveAt(s, i) \in Seq(S)
           /\ Len(RemoveAt(s, i)) = Len(s) - 1
           /\ Range(RemoveAt(s, i)) \subseteq Range(s)
           /\ IsInjective(s) => /\ IsInjective(RemoveAt(s, i))
                                /\ Range(RemoveAt(s, i)) = Range(s) \ {s[i]}
<1> DEFINE front == SubSeq(s, 1, i - 1)
           rest  == SubSeq(s, i + 1, Len(s))
<1>1. RemoveAt(s, i) = front \o rest
  BY DEF RemoveAt
<1>2. /\ front \in Seq(S) /\ Len(front) = i - 1 /\ DOMAIN front = 1 .. i - 1
      /\ \A k \in 1 .. i - 1 : front[k] = s[k]
      /\ IsInjective(s) => IsInjective(front)
      /\ Range(front) \subseteq Range(s)
  <2>1. i - 1 \in Nat /\ i - 1 <= Len(s)
    OBVIOUS
  <2>2. /\ front \in Seq(S) /\ Len(front) = i - 1
        /\ IsInjective(s) => IsInjective(front)
        /\ Range(front) \subseteq Range(s)
    BY <2>1, SplitRange
  <2>3. \A k \in 1 .. i - 1 : front[k] = s[k]
    BY SubSeqProperties
  <2> QED BY <2>2, <2>3
<1>3. /\ rest \in Seq(S) /\ Len(rest) = Len(s) - i /\ DOMAIN rest = 1 .. Len(s) - i
      /\ \A k \in 1 .. Len(s) - i : rest[k] = s[k + i]
      /\ IsInjective(s) => IsInjective(rest)
      /\ Range(rest) \subseteq Range(s)
  <2>1. i \in Nat /\ i <= Len(s)
    OBVIOUS
  <2>2. /\ rest \in Seq(S) /\ Len(rest) = Len(s) - i
        /\ IsInjective(s) => IsInjective(rest)
        /\ Range(rest) \subseteq Range(s)
    BY <2>1, SplitRange
  <2>3. \A k \in i + 1 .. Len(s) : s[k] \in S
    OBVIOUS
  <2>4. \A k \in 1 .. Len(s) - (i + 1) + 1 : rest[k] = s[(i + 1) + k - 1]
    BY <2>3, SubSeqProperties
  <2> QED BY <2>2, <2>4
<1>4. Len(s) \in Nat /\ DOMAIN s = 1 .. Len(s)
  OBVIOUS
<1> HIDE DEF front, rest
<1>5. /\ front \o rest \in Seq(S)
      /\ Len(front \o rest) = Len(s) - 1
      /\ Range(front \o rest) = Range(front) \cup Range(rest)
      /\ IsInjective(front) /\ IsInjective(rest) /\ Range(front) \cap Range(rest) = {}
           => IsInjective(front \o rest)
  <2>1. front \in Seq(S) /\ rest \in Seq(S)
    BY <1>2, <1>3
  <2>2. /\ front \o rest \in Seq(S)
        /\ Len(front \o rest) = Len(front) + Len(rest)
        /\ Range(front \o rest) = Range(front) \cup Range(rest)
        /\ IsInjective(front) /\ IsInjective(rest) /\ Range(front) \cap Range(rest) = {}
             => IsInjective(front \o rest)
    BY <2>1, ConcatRange
  <2> QED BY <2>2, <1>2, <1>3, <1>4
<1>6. ASSUME IsInjective(s)
      PROVE  /\ Range(front) \cap Range(rest) = {}
             /\ Range(front) \cup Range(rest) = Range(s) \ {s[i]}
  <2>1. \A k \in 1 .. i - 1, l \in 1 .. Len(s) - i : front[k] # rest[l]
    <3> SUFFICES ASSUME NEW k \in 1 .. i - 1, NEW l \in 1 .. Len(s) - i
                 PROVE  front[k] # rest[l]
      OBVIOUS
    <3>1. k \in DOMAIN s /\ l + i \in DOMAIN s /\ k # l + i
      BY <1>4
    <3> QED BY <3>1, <1>2, <1>3, <1>6 DEF IsInjective
  <2>2. \A k \in 1 .. i - 1 : front[k] # s[i]
    BY <1>2, <1>4, <1>6 DEF IsInjective
  <2>3. \A l \in 1 .. Len(s) - i : rest[l] # s[i]
    <3> SUFFICES ASSUME NEW l \in 1 .. Len(s) - i
                 PROVE  rest[l] # s[i]
      OBVIOUS
    <3>1. l + i \in DOMAIN s /\ l + i # i
      BY <1>4
    <3> QED BY <3>1, <1>3, <1>4, <1>6 DEF IsInjective
  <2>4. Range(s) \ {s[i]} \subseteq Range(front) \cup Range(rest)
    <3> SUFFICES ASSUME NEW k \in 1 .. Len(s), k # i
                 PROVE  s[k] \in Range(front) \cup Range(rest)
      BY <1>4 DEF Range
    <3>1. CASE k < i
      BY <3>1, <1>2, <1>4 DEF Range
    <3>2. CASE k > i
      <4>1. k - i \in DOMAIN rest /\ rest[k - i] = s[k]
        BY <3>2, <1>3, <1>4
      <4> QED BY <4>1 DEF Range
    <3> QED BY <3>1, <3>2, <1>4
  <2>5. s[i] \notin Range(front) \cup Range(rest)
    BY <2>2, <2>3, <1>2, <1>3 DEF Range
  <2>6. Range(front) \cap Range(rest) = {}
    BY <2>1, <1>2, <1>3 DEF Range
  <2> QED BY <2>4, <2>5, <2>6, <1>2, <1>3
<1> QED BY <1>1, <1>2, <1>3, <1>5, <1>6

----------------------------------------------------------------------------
\* Folds.  FoldLeft is a recursive function over the sets of places, whose value
\* nothing but the recursion says; what follows finds it, and finds it to be the only one.

\* A finite set of numbers has a greatest element.
LEMMA MaxOfFinite ==
    ASSUME NEW S \in SUBSET Nat, S # {}, IsFiniteSet(S)
    PROVE  Max(S) \in S /\ \A y \in S : Max(S) >= y
<1> DEFINE Above(x) == {y \in S : y > x}
           T == {Above(x) : x \in S}
<1>1. T \subseteq FiniteSubsetsOf(S) /\ T # {}
  <2>1. \A x \in S : Above(x) \in SUBSET S
    OBVIOUS
  <2>2. \A x \in S : IsFiniteSet(Above(x))
    BY <2>1, FS_Subset
  <2> QED BY <2>1, <2>2 DEF FiniteSubsetsOf
<1>2. PICK U \in T : \A V \in T : ~ (<<V, U>> \in StrictSubsetOrdering(S))
  <2> HIDE DEF T
  <2> QED BY <1>1, FS_StrictSubsetOrderingWellFounded, WFMin
<1>3. PICK x \in S : U = Above(x)
  OBVIOUS
<1>4. \A y \in S : x >= y
  <2> SUFFICES ASSUME NEW y \in S, y > x PROVE FALSE
    OBVIOUS
  <2>1. Above(y) \in T /\ Above(y) \subseteq Above(x) /\ Above(x) \subseteq S
    <3>1. \A z \in S : z > y => z > x
      OBVIOUS
    <3>2. Above(y) \subseteq Above(x)
      BY <3>1
    <3>3. Above(x) \subseteq S
      OBVIOUS
    <3>4. Above(y) \in T
      OBVIOUS
    <3> QED BY <3>2, <3>3, <3>4
  <2>2. y \in Above(x) /\ y \notin Above(y)
    OBVIOUS
  <2>3. <<Above(y), Above(x)>> \in StrictSubsetOrdering(S)
    <3> HIDE DEF Above
    <3> QED BY <2>1, <2>2 DEF StrictSubsetOrdering
  <2> QED BY <1>2, <1>3, <2>1, <2>3
<1> QED BY <1>4 DEF Max

\* The greatest of some places.
LEMMA MaxOfPlaces ==
    ASSUME NEW n \in Nat, NEW t \in SUBSET (1 .. n), t # {}
    PROVE  Max(t) \in t /\ Max(t) \in 1 .. n /\ \A i \in t : i <= Max(t)
<1>1. 1 \in Int /\ n \in Int
  OBVIOUS
<1>2. IsFiniteSet(1 .. n)
  BY <1>1, FS_Interval
<1>3. IsFiniteSet(t)
  BY <1>2, FS_Subset
<1>4. t \in SUBSET Nat
  OBVIOUS
<1>5. Max(t) \in t /\ \A i \in t : Max(t) >= i
  BY <1>3, <1>4, MaxOfFinite
<1> QED BY <1>4, <1>5

\* f adds up v over every set of the places 1 .. n, from the last one down.
Sums(v, n, f) ==
    f = [t \in SUBSET (1 .. n) |-> IF t = {} THEN 0 ELSE f[t \ {Max(t)}] + v[Max(t)]]

\* There is such a function: one for n + 1 places extends one for n.
LEMMA SumsExist ==
    ASSUME NEW v, NEW n \in Nat
    PROVE  \E f : Sums(v, n, f)
<1> DEFINE E == {m \in 0 .. n : \E f : Sums(v, m, f)}
<1>1. 0 \in E
  <2> DEFINE f == [t \in SUBSET (1 .. 0) |-> 0]
  <2>1. \A t \in SUBSET (1 .. 0) : t = {}
    OBVIOUS
  <2>2. f = [t \in SUBSET (1 .. 0) |-> IF t = {} THEN 0 ELSE f[t \ {Max(t)}] + v[Max(t)]]
    BY <2>1
  <2>3. Sums(v, 0, f)
    BY <2>2 DEF Sums
  <2> QED BY <2>3
<1>2. PICK M \in E : \A m \in E : M >= m
  <2>1. 0 \in Int /\ n \in Int
    OBVIOUS
  <2>2. IsFiniteSet(0 .. n)
    BY <2>1, FS_Interval
  <2>3. E \in SUBSET (0 .. n)
    OBVIOUS
  <2> HIDE DEF E
  <2>4. IsFiniteSet(E)
    BY <2>2, <2>3, FS_Subset
  <2>5. E \in SUBSET Nat /\ E # {}
    BY <1>1, <2>3
  <2> QED BY <2>4, <2>5, MaxOfFinite
<1>3. CASE M = n
  BY <1>3
<1>4. CASE M # n
  <2>1. M \in Nat /\ M + 1 \in 0 .. n
    BY <1>4
  <2>2. PICK f : Sums(v, M, f)
    OBVIOUS
  <2> DEFINE g == [t \in SUBSET (1 .. M + 1) |-> IF M + 1 \in t THEN f[t \ {M + 1}] + v[M + 1]
                                                               ELSE f[t]]
  <2>3. ASSUME NEW t \in SUBSET (1 .. M + 1)
        PROVE  g[t] = IF t = {} THEN 0 ELSE g[t \ {Max(t)}] + v[Max(t)]
    <3>1. CASE t = {}
      <4>1. f[t] = 0
        BY <2>2, <3>1 DEF Sums
      <4> QED BY <3>1, <4>1
    <3>2. CASE M + 1 \in t
      <4>1. Max(t) = M + 1
        <5>1. M + 1 \in Nat
          BY <2>1
        <5>2. Max(t) \in 1 .. M + 1 /\ M + 1 <= Max(t)
          BY <3>2, <5>1, MaxOfPlaces
        <5> QED BY <5>1, <5>2
      <4>2. t \ {M + 1} \in SUBSET (1 .. M + 1) /\ M + 1 \notin t \ {M + 1}
        OBVIOUS
      <4>3. g[t \ {M + 1}] = f[t \ {M + 1}]
        BY <4>2
      <4>4. g[t] = f[t \ {M + 1}] + v[M + 1]
        BY <3>2
      <4> QED BY <3>2, <4>1, <4>3, <4>4
    <3>3. CASE t # {} /\ M + 1 \notin t
      <4>1. t \in SUBSET (1 .. M)
        <5>1. \A i \in 1 .. M + 1 : i # M + 1 => i \in 1 .. M
          BY <2>1
        <5> QED BY <3>3, <5>1
      <4>2. f[t] = f[t \ {Max(t)}] + v[Max(t)]
        BY <2>2, <3>3, <4>1 DEF Sums
      <4>3. g[t] = f[t] /\ g[t \ {Max(t)}] = f[t \ {Max(t)}]
        BY <3>3
      <4> QED BY <3>3, <4>2, <4>3
    <3> QED BY <3>1, <3>2, <3>3
  <2>4. g = [t \in SUBSET (1 .. M + 1) |-> g[t]]
    OBVIOUS
  <2> HIDE DEF g
  <2>5. Sums(v, M + 1, g)
    BY <2>3, <2>4 DEF Sums
  <2>6. M + 1 \in E
    BY <2>1, <2>5
  <2> QED BY <1>2, <2>1, <2>6
<1> QED BY <1>3, <1>4

\* u and v are the same on the first m places.
Agree(u, v, m) == \A i \in 1 .. m : u[i] = v[i]

\* There is no other one, also for fewer places: two that differ would differ on a
\* least set, and agree where the recursion takes them from there.
LEMMA SumsUnique ==
    ASSUME NEW v, NEW u, NEW n \in Nat, NEW m \in Nat, NEW f, NEW g,
           Sums(v, n, f), Sums(u, m, g), Agree(u, v, m), m <= n
    PROVE  \A t \in SUBSET (1 .. m) : f[t] = g[t]
<1> DEFINE D == {t \in SUBSET (1 .. m) : f[t] # g[t]}
<1>0. 1 .. m \subseteq 1 .. n
  OBVIOUS
<1> SUFFICES ASSUME D # {} PROVE FALSE
  OBVIOUS
<1>1. IsFiniteSet(1 .. m)
  <2>1. 1 \in Int /\ m \in Int
    OBVIOUS
  <2> QED BY <2>1, FS_Interval
<1>2. D \subseteq FiniteSubsetsOf(1 .. m)
  BY <1>1, FS_Subset DEF FiniteSubsetsOf
<1>3. PICK t \in D : \A s \in D : ~ (<<s, t>> \in StrictSubsetOrdering(1 .. m))
  <2> HIDE DEF D
  <2> QED BY <1>2, FS_StrictSubsetOrderingWellFounded, WFMin
<1>4. t \in SUBSET (1 .. m) /\ t \in SUBSET (1 .. n)
  BY <1>0
<1>5. /\ f[t] = IF t = {} THEN 0 ELSE f[t \ {Max(t)}] + v[Max(t)]
      /\ g[t] = IF t = {} THEN 0 ELSE g[t \ {Max(t)}] + u[Max(t)]
  BY <1>4 DEF Sums
<1>6. t # {}
  BY <1>5
<1>7. Max(t) \in t /\ Max(t) \in 1 .. m
  BY <1>4, <1>6, MaxOfPlaces
<1>8. f[t \ {Max(t)}] = g[t \ {Max(t)}]
  <2>1. PICK s : s = t \ {Max(t)}
    OBVIOUS
  <2>2. s \in SUBSET (1 .. m) /\ t \in SUBSET (1 .. m) /\ s \subseteq t /\ s # t
    BY <1>4, <1>7, <2>1
  <2>3. <<s, t>> \in StrictSubsetOrdering(1 .. m)
    BY <2>2 DEF StrictSubsetOrdering
  <2>4. s \notin D
    BY <1>3, <2>3
  <2> QED BY <2>1, <2>2, <2>4
<1> QED BY <1>3, <1>5, <1>6, <1>7, <1>8 DEF Agree

\* The weights w of the elements of a list, added up.
SumOf(w, s) == FoldLeft(LAMBDA sum, r : sum + w[r], 0, s)

\* v gives for every place of s the weight of the element there.
Weighs(v, w, s) == \A i \in 1 .. Len(s) : v[i] = w[s[i]]

\* A sum over a list is that function's value for all of its places.
LEMMA SumIsSums ==
    ASSUME NEW S, NEW s \in Seq(S), NEW w, NEW v, Weighs(v, w, s),
           NEW g, Sums(v, Len(s), g)
    PROVE  SumOf(w, s) = g[1 .. Len(s)]
<1>2. PICK n \in Nat : n = Len(s)
  OBVIOUS
<1> DEFINE step(f) == [t \in SUBSET DOMAIN s |->
                          IF t = {} THEN 0 ELSE f[t \ {Max(t)}] + w[s[Max(t)]]]
           f == CHOOSE f : f = step(f)
<1>1. SumOf(w, s) = f[DOMAIN s]
  BY DEF SumOf, FoldLeft, MapThenFoldSet
<1>3. DOMAIN s = 1 .. n
  BY <1>2
<1>4. \A t \in SUBSET (1 .. n) : t # {} => w[s[Max(t)]] = v[Max(t)]
  <2>1. \A t \in SUBSET (1 .. n) : t # {} => Max(t) \in 1 .. n
    BY MaxOfPlaces
  <2> QED BY <1>2, <2>1 DEF Weighs
<1>5. ASSUME NEW h PROVE h = step(h) <=> Sums(v, n, h)
  <2>1. step(h) = [t \in SUBSET (1 .. n) |->
                      IF t = {} THEN 0 ELSE h[t \ {Max(t)}] + v[Max(t)]]
    BY <1>3, <1>4
  <2> HIDE DEF step
  <2> QED BY <2>1 DEF Sums
<1> HIDE DEF step
<1>6. f = step(f)
  <2>1. g = step(g)
    BY <1>2, <1>5
  <2> QED BY <2>1
<1> HIDE DEF f
<1>7. Sums(v, n, f)
  BY <1>5, <1>6
<1>9. f[1 .. n] = g[1 .. n]
  <2>1. n <= n /\ 1 .. n \in SUBSET (1 .. n) /\ Agree(v, v, n)
    BY DEF Agree
  <2>2. Sums(v, n, g)
    BY <1>2
  <2>3. \A t \in SUBSET (1 .. n) : f[t] = g[t]
    BY <1>7, <2>1, <2>2, SumsUnique
  <2> QED BY <2>1, <2>3
<1> QED BY <1>1, <1>2, <1>3, <1>9

\* Nothing adds up to 0.
LEMMA SumOfNothing ==
    ASSUME NEW w PROVE SumOf(w, <<>>) = 0
<1>0. <<>> \in Seq(Nat)
  OBVIOUS
<1>1. PICK z \in Seq(Nat) : z = <<>>
  BY <1>0
<1>2. PICK k \in Nat : k = Len(z) /\ k = 0
  BY <1>1
<1>3. Weighs(w, w, z)
  BY <1>2 DEF Weighs
<1>4. PICK h : Sums(w, k, h)
  BY SumsExist
<1>5. SumOf(w, z) = h[1 .. Len(z)]
  BY <1>2, <1>3, <1>4, SumIsSums
<1>6. (1 .. k) = {} /\ (1 .. k) \in SUBSET (1 .. k)
  BY <1>2
<1>7. h[1 .. k] = 0
  BY <1>4, <1>6 DEF Sums
<1> QED BY <1>1, <1>2, <1>5, <1>7

\* One more element adds its weight.
LEMMA SumOfAppend ==
    ASSUME NEW S, NEW s \in Seq(S), NEW e \in S, NEW w
    PROVE  SumOf(w, Append(s, e)) = SumOf(w, s) + w[e]
<1>1. PICK n \in Nat : n = Len(s)
  OBVIOUS
<1>2. PICK t \in Seq(S) : t = Append(s, e)
  BY AppendProperties
<1>3. /\ Len(t) = n + 1 /\ t[n + 1] = e
      /\ \A i \in 1 .. n : t[i] = s[i]
  BY <1>1, <1>2, AppendProperties
<1>4. PICK v : v = [i \in 1 .. n + 1 |-> w[t[i]]]
  OBVIOUS
<1>5. Weighs(v, w, s) /\ Weighs(v, w, t) /\ v[n + 1] = w[e]
  BY <1>1, <1>3, <1>4 DEF Weighs
<1>6. PICK f : Sums(v, n, f)
  BY SumsExist
<1>7. PICK m \in Nat : m = n + 1
  OBVIOUS
<1>8. PICK g : Sums(v, m, g)
  BY SumsExist
<1>9. SumOf(w, s) = f[1 .. n]
  <2>1. Sums(v, Len(s), f)
    BY <1>1, <1>6
  <2> QED BY <1>1, <1>5, <2>1, SumIsSums
<1>10. SumOf(w, t) = g[1 .. m]
  <2>1. m = Len(t) /\ Sums(v, Len(t), g)
    BY <1>3, <1>7, <1>8
  <2> QED BY <1>5, <2>1, SumIsSums
<1>11. g[1 .. m] = g[1 .. n] + w[e]
  <2>1. (1 .. m) \in SUBSET (1 .. m) /\ m \in 1 .. m
    BY <1>7
  <2>2. Max(1 .. m) = m
    <3>1. Max(1 .. m) \in 1 .. m /\ m <= Max(1 .. m)
      BY <2>1, MaxOfPlaces
    <3> QED BY <3>1
  <2>3. (1 .. m) \ {m} = 1 .. n
    <3>1. \A i : i \in (1 .. m) \ {m} <=> i \in 1 .. n
      BY <1>7
    <3> QED BY <3>1
  <2>4. g[1 .. m] = g[(1 .. m) \ {Max(1 .. m)}] + v[Max(1 .. m)]
    BY <1>8, <2>1 DEF Sums
  <2> QED BY <1>5, <1>7, <2>2, <2>3, <2>4
<1>12. g[1 .. n] = f[1 .. n]
  <2>1. n <= m /\ (1 .. n) \in SUBSET (1 .. n) /\ Agree(v, v, n)
    BY <1>7 DEF Agree
  <2>2. \A x \in SUBSET (1 .. n) : g[x] = f[x]
    BY <1>6, <1>8, <2>1, SumsUnique
  <2> QED BY <2>1, <2>2
<1>13. SumOf(w, t) = SumOf(w, s) + w[e]
  BY <1>9, <1>10, <1>11, <1>12
<1> QED BY <1>2, <1>13

\* The sum depends on the weights of the list's own elements only.
LEMMA SumOfSame ==
    ASSUME NEW S, NEW s \in Seq(S), NEW w, NEW x, \A e \in Range(s) : w[e] = x[e]
    PROVE  SumOf(w, s) = SumOf(x, s)
<1>1. PICK n \in Nat : n = Len(s)
  OBVIOUS
<1>2. PICK v : v = [i \in 1 .. n |-> w[s[i]]]
  OBVIOUS
<1>3. PICK f : Sums(v, n, f)
  BY SumsExist
<1>4. \A i \in 1 .. n : s[i] \in Range(s)
  BY <1>1, RangeType
<1>5. Weighs(v, w, s) /\ Weighs(v, x, s) /\ Sums(v, Len(s), f)
  BY <1>1, <1>2, <1>3, <1>4 DEF Weighs
<1>6. SumOf(w, s) = f[1 .. Len(s)]
  BY <1>5, SumIsSums
<1>7. SumOf(x, s) = f[1 .. Len(s)]
  BY <1>5, SumIsSums
<1> QED BY <1>6, <1>7

----------------------------------------------------------------------------
\* Totals and joined lists, place by place.

\* Induction over the places of a list: a set with 0 and with the successor of each
\* of its members below n has them all.
LEMMA ReachesAll ==
    ASSUME NEW n \in Nat, NEW S, 0 \in S, \A i \in 0 .. n - 1 : i \in S => i + 1 \in S
    PROVE  0 .. n \subseteq S
<1> DEFINE D == {i \in 0 .. n : \A j \in 0 .. i : j \in S}
<1>1. 0 \in D
  OBVIOUS
<1>2. PICK m \in D : \A i \in D : m >= i
  <2>1. IsFiniteSet(0 .. n)
    <3>1. 0 \in Int /\ n \in Int
      OBVIOUS
    <3> QED BY <3>1, FS_Interval
  <2>2. D \in SUBSET (0 .. n)
    OBVIOUS
  <2> HIDE DEF D
  <2>3. IsFiniteSet(D)
    BY <2>1, <2>2, FS_Subset
  <2>4. D \in SUBSET Nat /\ D # {}
    BY <1>1, <2>2
  <2> QED BY <2>3, <2>4, MaxOfFinite
<1>3. m \in 0 .. n /\ \A j \in 0 .. m : j \in S
  OBVIOUS
<1>4. CASE m = n
  BY <1>3, <1>4
<1>5. CASE m # n
  <2>1. m \in 0 .. n - 1 /\ m \in S
    BY <1>3, <1>5
  <2>2. m + 1 \in S /\ m + 1 \in 0 .. n
    BY <2>1
  <2>3. \A j \in 0 .. m + 1 : j \in 0 .. m \/ j = m + 1
    BY <2>1
  <2>4. m + 1 \in D
    BY <1>3, <2>2, <2>3
  <2>5. ~ (m >= m + 1)
    BY <2>1
  <2> QED BY <1>2, <2>4, <2>5
<1> QED BY <1>4, <1>5

\* In particular they agree on all places of the shorter list.
LEMMA SumsOfPrefix ==
    ASSUME NEW v, NEW u, NEW n \in Nat, NEW m \in Nat, NEW f, NEW g,
           Sums(v, n, f), Sums(u, m, g), Agree(u, v, m), m <= n
    PROVE  f[1 .. m] = g[1 .. m]
<1>1. \A t \in SUBSET (1 .. m) : f[t] = g[t]
  BY SumsUnique
<1> QED BY <1>1

\* FoldLeft(+, 0, s) is the function that adds up s.
LEMMA TotalIsSums ==
    ASSUME NEW S, NEW s \in Seq(S), NEW g, Sums(s, Len(s), g)
    PROVE  FoldLeft(+, 0, s) = g[1 .. Len(s)]
<1>2. PICK n \in Nat : n = Len(s)
  OBVIOUS
<1> DEFINE step(f) == [t \in SUBSET DOMAIN s |->
                          IF t = {} THEN 0 ELSE f[t \ {Max(t)}] + s[Max(t)]]
           f == CHOOSE f : f = step(f)
<1>1. FoldLeft(+, 0, s) = f[DOMAIN s]
  BY DEF FoldLeft, MapThenFoldSet
<1>3. DOMAIN s = 1 .. n
  BY <1>2
<1>5. ASSUME NEW h PROVE h = step(h) <=> Sums(s, n, h)
  <2>1. step(h) = [t \in SUBSET (1 .. n) |->
                      IF t = {} THEN 0 ELSE h[t \ {Max(t)}] + s[Max(t)]]
    BY <1>3
  <2> HIDE DEF step
  <2> QED BY <2>1 DEF Sums
<1> HIDE DEF step
<1>6. f = step(f)
  <2>1. g = step(g)
    BY <1>2, <1>5
  <2> QED BY <2>1
<1> HIDE DEF f
<1>7. Sums(s, n, f)
  BY <1>5, <1>6
<1>9. f[1 .. n] = g[1 .. n]
  <2>1. n <= n /\ 1 .. n \in SUBSET (1 .. n) /\ Agree(s, s, n)
    BY DEF Agree
  <2>2. Sums(s, n, g)
    BY <1>2
  <2>3. \A t \in SUBSET (1 .. n) : f[t] = g[t]
    BY <1>7, <2>1, <2>2, SumsUnique
  <2> QED BY <2>1, <2>3
<1> QED BY <1>1, <1>2, <1>3, <1>9

\* The first m elements of a list of numbers, added up.
PrefixTotal(lens, m) == FoldLeft(+, 0, SubSeq(lens, 1, m))

\* The totals of the first elements of a list, one more each time (the cumulative
\* lengths that attention kernels take).
LEMMA PrefixTotals ==
    ASSUME NEW lens \in Seq(Nat)
    PROVE  /\ PrefixTotal(lens, 0) = 0
           /\ \A i \in 1 .. Len(lens) :
                 PrefixTotal(lens, i) = PrefixTotal(lens, i - 1) + lens[i]
           /\ \A i \in 0 .. Len(lens) : PrefixTotal(lens, i) \in Nat
<1> DEFINE total(m) == PrefixTotal(lens, m)
<1>1. PICK n \in Nat : n = Len(lens)
  OBVIOUS
<1>2. PICK g : Sums(lens, n, g)
  BY SumsExist
<1>3. ASSUME NEW m \in Nat, m <= n PROVE total(m) = g[1 .. m]
  <2>1. PICK s \in Seq(Nat) : /\ s = SubSeq(lens, 1, m)
                              /\ Len(s) = m
                              /\ \A i \in 1 .. m : s[i] = lens[i]
    <3>1. SubSeq(lens, 1, m) \in Seq(Nat)
      <4>1. \A i \in 1 .. m : lens[i] \in Nat
        BY <1>1, <1>3
      <4> QED BY <4>1, SubSeqProperties
    <3>2. /\ Len(SubSeq(lens, 1, m)) = m
          /\ \A i \in 1 .. m : SubSeq(lens, 1, m)[i] = lens[i]
      BY <1>1, <1>3, SubSeqProperties
    <3> QED BY <3>1, <3>2
  <2>3. PICK f : Sums(s, m, f)
    BY SumsExist
  <2>4. total(m) = f[1 .. m]
    <3>1. Sums(s, Len(s), f)
      BY <2>1, <2>3
    <3> QED BY <2>1, <3>1, TotalIsSums DEF PrefixTotal
  <2>5. Agree(s, lens, m)
    BY <2>1 DEF Agree
  <2>6. m <= n
    BY <1>3
  <2>7. g[1 .. m] = f[1 .. m]
    BY <1>2, <2>3, <2>5, <2>6, SumsOfPrefix
  <2> QED BY <2>4, <2>7
<1> HIDE DEF total
<1>4. total(0) = 0
  <2>1. (1 .. 0) = {} /\ {} \in SUBSET (1 .. n) /\ 0 <= n
    OBVIOUS
  <2>2. g[{}] = 0
    BY <1>2, <2>1 DEF Sums
  <2> QED BY <1>3, <2>1, <2>2
<1>5. ASSUME NEW i \in 1 .. n PROVE total(i) = total(i - 1) + lens[i]
  <2>1. total(i) = g[1 .. i]
    BY <1>3
  <2>2. total(i - 1) = g[1 .. i - 1]
    <3>1. i - 1 \in Nat /\ i - 1 <= n
      OBVIOUS
    <3> QED BY <1>3, <3>1
  <2>3. Max(1 .. i) = i
    <3>1. (1 .. i) \in SUBSET (1 .. n) /\ i \in 1 .. i
      OBVIOUS
    <3>2. Max(1 .. i) \in 1 .. i /\ i <= Max(1 .. i)
      BY <3>1, MaxOfPlaces
    <3> QED BY <3>2
  <2>4. g[1 .. i] = g[(1 .. i) \ {i}] + lens[i]
    <3>1. (1 .. i) \in SUBSET (1 .. n)
      OBVIOUS
    <3>2. i \in 1 .. i
      OBVIOUS
    <3> QED BY <1>2, <2>3, <3>1, <3>2 DEF Sums
  <2>5. (1 .. i) \ {i} = 1 .. i - 1
    OBVIOUS
  <2> QED BY <2>1, <2>2, <2>4, <2>5
<1>6. \A i \in 0 .. n : total(i) \in Nat
  <2> DEFINE S == {i \in 0 .. n : total(i) \in Nat}
  <2>1. 0 \in S
    BY <1>4
  <2>2. ASSUME NEW i \in 0 .. n - 1, i \in S PROVE i + 1 \in S
    <3>1. i + 1 \in 1 .. n /\ i + 1 \in 0 .. n /\ (i + 1) - 1 = i /\ total(i) \in Nat
      BY <2>2
    <3>2. lens[i + 1] \in Nat
      BY <1>1, <3>1
    <3>3. total(i + 1) = total(i) + lens[i + 1]
      BY <1>5, <3>1
    <3> QED BY <3>1, <3>2, <3>3
  <2>3. 0 .. n \subseteq S
    <3> HIDE DEF S
    <3> QED BY <2>1, <2>2, ReachesAll
  <2> QED BY <2>3
<1> QED BY <1>1, <1>4, <1>5, <1>6 DEF total

\* f[i] is the first i lists of seqs, one after the other.
Joins(seqs, n, f) ==
    f = [i \in 1 .. n |-> IF i = 1 THEN seqs[i] ELSE f[i - 1] \o seqs[i]]

\* There is such a function.
LEMMA JoinsExist ==
    ASSUME NEW seqs, NEW n \in Nat
    PROVE  \E f : Joins(seqs, n, f)
<1> DEFINE S == {m \in 0 .. n : \E f : Joins(seqs, m, f)}
<1>1. 0 \in S
  <2> DEFINE f == [i \in 1 .. 0 |-> {}]
  <2>1. f = [i \in 1 .. 0 |-> IF i = 1 THEN seqs[i] ELSE f[i - 1] \o seqs[i]]
    OBVIOUS
  <2> HIDE DEF f
  <2>2. Joins(seqs, 0, f)
    BY <2>1 DEF Joins
  <2> QED BY <2>2
<1>2. ASSUME NEW m \in 0 .. n - 1, m \in S PROVE m + 1 \in S
  <2>1. PICK f : Joins(seqs, m, f)
    BY <1>2
  <2>2. PICK last : last = IF m + 1 = 1 THEN seqs[m + 1] ELSE f[m] \o seqs[m + 1]
    OBVIOUS
  <2> DEFINE g == [i \in 1 .. m + 1 |-> IF i = m + 1 THEN last ELSE f[i]]
  <2>3. ASSUME NEW i \in 1 .. m + 1
        PROVE  g[i] = IF i = 1 THEN seqs[i] ELSE g[i - 1] \o seqs[i]
    <3>1. CASE i = m + 1
      <4>1. g[i] = last
        BY <3>1
      <4>2. CASE i = 1
        BY <2>2, <3>1, <4>1, <4>2
      <4>3. CASE i # 1
        <5>1. i - 1 = m /\ i - 1 \in 1 .. m + 1 /\ i - 1 # m + 1
          BY <3>1, <4>3
        <5>2. g[i - 1] = f[m]
          BY <5>1
        <5> HIDE DEF g
        <5> QED BY <2>2, <3>1, <4>1, <4>3, <5>2
      <4> QED BY <4>2, <4>3
    <3>2. CASE i # m + 1
      <4>1. i \in 1 .. m
        BY <3>2
      <4>2. f[i] = IF i = 1 THEN seqs[i] ELSE f[i - 1] \o seqs[i]
        BY <2>1, <4>1 DEF Joins
      <4>3. g[i] = f[i] /\ (i # 1 => g[i - 1] = f[i - 1])
        BY <3>2, <4>1
      <4> HIDE DEF g
      <4> QED BY <4>2, <4>3
    <3> QED BY <3>1, <3>2
  <2>4. g = [i \in 1 .. m + 1 |-> g[i]]
    OBVIOUS
  <2> HIDE DEF g
  <2>5. Joins(seqs, m + 1, g)
    BY <2>3, <2>4 DEF Joins
  <2> QED BY <2>5
<1>3. 0 .. n \subseteq S
  <2> HIDE DEF S
  <2> QED BY <1>1, <1>2, ReachesAll
<1> QED BY <1>3

\* off[i] is the sum of the first i of n numbers.
Accumulates(off, lens, n) ==
    off[0] = 0 /\ \A i \in 1 .. n : lens[i] \in Nat /\ off[i] = off[i - 1] + lens[i]

Lengths(lens, seqs) == \A i \in 1 .. Len(seqs) : lens[i] = Len(seqs[i])

\* The lists of seqs are in flat, the i-th after the first off[i - 1] elements.
JoinedAt(flat, seqs, off) ==
    \A i \in 1 .. Len(seqs) : \A t \in 1 .. Len(seqs[i]) : flat[off[i - 1] + t] = seqs[i][t]

\* Every place up to off[n] belongs to one of n lists with the given lengths.
AllPlaced(off, lens, n) ==
    \A j \in 1 .. off[n] : \E i \in 1 .. n : \E t \in 1 .. lens[i] : j = off[i - 1] + t

\* FlattenSeq puts its lists one after the other: off[i] elements come before the
\* list after the i-th, and what is in a list is there at the same distance.
LEMMA FlattenPlaces ==
    ASSUME NEW S, NEW seqs \in Seq(Seq(S)), seqs # <<>>, NEW lens, Lengths(lens, seqs),
           NEW off, Accumulates(off, lens, Len(seqs))
    PROVE  /\ FlattenSeq(seqs) \in Seq(S)
           /\ Len(FlattenSeq(seqs)) = off[Len(seqs)]
           /\ JoinedAt(FlattenSeq(seqs), seqs, off)
<1>1. PICK n \in Nat : n = Len(seqs) /\ n # 0
  OBVIOUS
<1>0. off[0] = 0 /\ \A i \in 1 .. Len(seqs) : off[i] = off[i - 1] + Len(seqs[i])
  BY DEF Lengths, Accumulates
<1> DEFINE step(f) == [i \in 1 .. n |-> IF i = 1 THEN seqs[i] ELSE f[i - 1] \o seqs[i]]
           fl == CHOOSE f : f = step(f)
<1>2. FlattenSeq(seqs) = fl[n]
  BY <1>1 DEF FlattenSeq
<1>3. \A h : h = step(h) <=> Joins(seqs, n, h)
  BY DEF Joins
<1> HIDE DEF step
<1>4. Joins(seqs, n, fl)
  <2>1. \E h : h = step(h)
    BY <1>3, JoinsExist
  <2> QED BY <1>3, <2>1
<1> HIDE DEF fl
<1>5. \A i \in 1 .. n : seqs[i] \in Seq(S) /\ Len(seqs[i]) \in Nat
  BY <1>1
<1> DEFINE Good(m) ==
              /\ off[m] \in Nat
              /\ m # 0 => /\ fl[m] \in Seq(S) /\ Len(fl[m]) = off[m]
                          /\ \A i \in 1 .. m : \A t \in 1 .. Len(seqs[i]) :
                                /\ off[i - 1] + t \in 1 .. off[m]
                                /\ fl[m][off[i - 1] + t] = seqs[i][t]
           G == {m \in 0 .. n : Good(m)}
<1>6. 0 \in G
  BY <1>0
<1>7. ASSUME NEW m \in 0 .. n - 1, m \in G PROVE m + 1 \in G
  <2>1. Good(m) /\ m + 1 \in 1 .. n
    BY <1>7
  <2>2. PICK k \in 1 .. n : k = m + 1
    BY <2>1
  <2>3. off[k] = off[m] + Len(seqs[k])
    <3>1. k - 1 = m
      BY <2>2
    <3> QED BY <1>0, <1>1, <3>1
  <2>4. off[k] \in Nat
    BY <1>5, <2>1, <2>3
  <2>5. CASE m = 0
    <3>1. k = 1 /\ k - 1 = 0 /\ off[0] = 0
      BY <1>0, <2>2, <2>5
    <3>2. fl[k] = seqs[k]
      BY <1>4, <3>1 DEF Joins
    <3>3. off[k] = Len(seqs[k])
      BY <1>0, <1>5, <2>3, <2>5
    <3>4. fl[k] \in Seq(S) /\ Len(fl[k]) = off[k]
      BY <1>5, <3>2, <3>3
    <3>5. ASSUME NEW i \in 1 .. k, NEW t \in 1 .. Len(seqs[i])
          PROVE  off[i - 1] + t \in 1 .. off[k] /\ fl[k][off[i - 1] + t] = seqs[i][t]
      <4>1. i = k /\ off[i - 1] + t = t
        BY <3>1
      <4> QED BY <3>2, <3>3, <4>1
    <3>6. Good(k)
      BY <2>4, <3>4, <3>5
    <3> HIDE DEF Good
    <3> QED BY <2>2, <3>6
  <2>6. CASE m # 0
    <3>1. k # 1 /\ k - 1 = m
      BY <2>2, <2>6
    <3>2. fl[k] = fl[m] \o seqs[k]
      BY <1>4, <3>1 DEF Joins
    <3>3. /\ fl[m] \in Seq(S) /\ Len(fl[m]) = off[m]
          /\ \A i \in 1 .. m : \A t \in 1 .. Len(seqs[i]) :
                /\ off[i - 1] + t \in 1 .. off[m]
                /\ fl[m][off[i - 1] + t] = seqs[i][t]
      BY <2>1, <2>6
    <3>4. off[m] \in Nat
      BY <2>1
    <3> HIDE DEF Good
    <3>5. PICK a \in Seq(S) : a = fl[m] /\ Len(a) = off[m]
      BY <3>3
    <3>6. PICK b \in Seq(S) : b = seqs[k]
      BY <1>5
    <3>7. /\ a \o b \in Seq(S) /\ Len(a \o b) = Len(a) + Len(b)
          /\ \A i \in 1 .. Len(a) : (a \o b)[i] = a[i]
          /\ \A i \in 1 .. Len(b) : (a \o b)[Len(a) + i] = b[i]
      BY ConcatProperties
    <3>8. fl[k] \in Seq(S) /\ Len(fl[k]) = off[k]
      BY <2>3, <3>2, <3>5, <3>6, <3>7
    <3>9. ASSUME NEW i \in 1 .. k, NEW t \in 1 .. Len(seqs[i])
          PROVE  off[i - 1] + t \in 1 .. off[k] /\ fl[k][off[i - 1] + t] = seqs[i][t]
      <4>1. CASE i = k
        <5>1. off[i - 1] = off[m] /\ t \in 1 .. Len(b)
          BY <3>1, <3>6, <4>1
        <5>2. off[k] = off[m] + Len(b) /\ Len(b) \in Nat
          BY <2>3, <3>6
        <5>3. off[m] + t \in 1 .. off[k]
          BY <3>4, <5>1, <5>2
        <5>4. (a \o b)[off[m] + t] = b[t]
          BY <3>5, <3>7, <5>1
        <5> QED BY <3>2, <3>5, <3>6, <4>1, <5>1, <5>3, <5>4
      <4>2. CASE i # k
        <5>1. i \in 1 .. m
          BY <2>2, <4>2
        <5>2. PICK j : j = off[i - 1] + t
          OBVIOUS
        <5>3. j \in 1 .. off[m] /\ fl[m][j] = seqs[i][t]
          BY <3>3, <5>1, <5>2
        <5>4. j \in 1 .. off[k]
          BY <1>5, <2>3, <3>4, <5>3
        <5>5. (a \o b)[j] = a[j]
          BY <3>5, <3>7, <5>3
        <5> QED BY <3>2, <3>5, <3>6, <5>2, <5>3, <5>4, <5>5
      <4> QED BY <4>1, <4>2
    <3>10. Good(k)
      BY <2>4, <3>8, <3>9 DEF Good
    <3> QED BY <2>2, <3>10
  <2> QED BY <2>5, <2>6
<1>8. 0 .. n \subseteq G
  <2> HIDE DEF G
  <2> QED BY <1>6, <1>7, ReachesAll
<1>9. Good(n)
  BY <1>8
<1> QED BY <1>1, <1>2, <1>9 DEF JoinedAt

\* Every place of the flattened list belongs to one of the lists.
LEMMA PlacesCovered ==
    ASSUME NEW n \in Nat, NEW len, NEW off, Accumulates(off, len, n)
    PROVE  AllPlaced(off, len, n)
<1>0. off[0] = 0 /\ \A i \in 1 .. n : len[i] \in Nat /\ off[i] = off[i - 1] + len[i]
  BY DEF Accumulates
<1> DEFINE Has(m) == /\ off[m] \in Nat
                     /\ \A j \in 1 .. off[m] : \E i \in 1 .. m : \E t \in 1 .. len[i] :
                                                  j = off[i - 1] + t
           G == {m \in 0 .. n : Has(m)}
<1>1. 0 \in G
  BY <1>0
<1>2. ASSUME NEW m \in 0 .. n - 1, m \in G PROVE m + 1 \in G
  <2>1. Has(m)
    BY <1>2
  <2>2. PICK k \in 1 .. n : k = m + 1
    OBVIOUS
  <2>3. k - 1 = m /\ off[k] = off[m] + len[k] /\ len[k] \in Nat
    <3>1. k - 1 = m
      BY <2>2
    <3> QED BY <1>0, <3>1
  <2>4. off[m] \in Nat /\ off[k] \in Nat
    BY <2>1, <2>3
  <2>5. ASSUME NEW j \in 1 .. off[k]
        PROVE  \E i \in 1 .. k : \E t \in 1 .. len[i] : j = off[i - 1] + t
    <3>1. CASE j \in 1 .. off[m]
      <4>1. PICK i \in 1 .. m : \E t \in 1 .. len[i] : j = off[i - 1] + t
        BY <2>1, <3>1
      <4>2. i \in 1 .. k
        BY <2>2
      <4> QED BY <4>1, <4>2
    <3>2. CASE j \notin 1 .. off[m]
      <4>1. PICK t : t = j - off[m]
        OBVIOUS
      <4>2. t \in 1 .. len[k] /\ j = off[m] + t
        BY <2>3, <2>4, <3>2, <4>1
      <4>3. k \in 1 .. k
        OBVIOUS
      <4> QED BY <2>3, <4>2, <4>3
    <3> QED BY <3>1, <3>2
  <2>6. Has(k)
    BY <2>4, <2>5
  <2> HIDE DEF Has
  <2> QED BY <2>2, <2>6
<1>3. 0 .. n \subseteq G
  <2> HIDE DEF G
  <2> QED BY <1>1, <1>2, ReachesAll
<1>4. Has(n)
  BY <1>3
<1> QED BY <1>4 DEF AllPlaced

----------------------------------------------------------------------------
\* Sorting.

\* R is a strict total order of S.
StrictOrder(R, S) ==
    /\ \A i \in S : <<i, i>> \notin R
    /\ \A i, j, k \in S : <<i, j>> \in R /\ <<j, k>> \in R => <<i, k>> \in R
    /\ \A i, j \in S : i # j => <<i, j>> \in R \/ <<j, i>> \in R

\* The numbers from 1 to n can be put in such an order, each after those before it.
LEMMA OrderExists ==
    ASSUME NEW n \in Nat, NEW R, StrictOrder(R, 1 .. n)
    PROVE  \E order \in [1 .. n -> 1 .. n] :
              \A j, k \in 1 .. n : j < k => <<order[j], order[k]>> \in R
<1> DEFINE I == 1 .. n
           upTo(i) == {j \in I : <<j, i>> \in R \/ j = i}
           rank == [i \in I |-> Cardinality(upTo(i))]
<1>1. IsFiniteSet(I) /\ Cardinality(I) = n
  <2>1. 1 \in Int /\ n \in Int
    OBVIOUS
  <2>2. /\ IsFiniteSet(1 .. n)
        /\ Cardinality(1 .. n) = IF 1 > n THEN 0 ELSE n - 1 + 1
    BY <2>1, FS_Interval
  <2> QED BY <2>2
<1>2. ASSUME NEW i \in I
      PROVE  upTo(i) \in SUBSET I /\ i \in upTo(i) /\ IsFiniteSet(upTo(i))
  <2>1. upTo(i) \in SUBSET I /\ i \in upTo(i)
    OBVIOUS
  <2> HIDE DEF upTo, I
  <2>2. IsFiniteSet(upTo(i))
    BY <1>1, <2>1, FS_Subset
  <2> QED BY <2>1, <2>2
<1>3. ASSUME NEW i \in I PROVE Cardinality(upTo(i)) \in I
  <2> HIDE DEF upTo
  <2>1. Cardinality(upTo(i)) <= n
    <3> HIDE DEF I
    <3> QED BY <1>1, <1>2, FS_Subset
  <2>2. Cardinality(upTo(i)) \in Nat /\ Cardinality(upTo(i)) # 0
    BY <1>2, FS_CardinalityType, FS_EmptySet
  <2> QED BY <2>1, <2>2
<1>4. ASSUME NEW i \in I, NEW k \in I, <<i, k>> \in R
      PROVE  Cardinality(upTo(i)) < Cardinality(upTo(k))
  <2>1. upTo(i) \in SUBSET upTo(k)
    BY <1>4 DEF StrictOrder
  <2>2. k \notin upTo(i)
    BY <1>4 DEF StrictOrder
  <2>3. k \in upTo(k) /\ IsFiniteSet(upTo(k))
    BY <1>2
  <2> HIDE DEF upTo
  <2>4. Cardinality(upTo(i)) <= Cardinality(upTo(k))
    BY <2>1, <2>3, FS_Subset
  <2>5. Cardinality(upTo(i)) # Cardinality(upTo(k))
    BY <2>1, <2>2, <2>3, FS_Subset
  <2>6. Cardinality(upTo(i)) \in Nat /\ Cardinality(upTo(k)) \in Nat
    BY <1>3
  <2> QED BY <2>4, <2>5, <2>6
<1>5. ASSUME NEW i \in I, NEW k \in I, Cardinality(upTo(i)) < Cardinality(upTo(k))
      PROVE  <<i, k>> \in R
  <2>1. Cardinality(upTo(i)) \in Nat /\ Cardinality(upTo(k)) \in Nat
    BY <1>3
  <2>2. i # k /\ <<k, i>> \notin R
    <3> HIDE DEF upTo
    <3> QED BY <1>4, <1>5, <2>1
  <2> HIDE DEF upTo
  <2> QED BY <2>2 DEF StrictOrder
<1>6. \A k \in I : \E i \in I : Cardinality(upTo(i)) = k
  <2>1. \A i, k \in I : Cardinality(upTo(i)) = Cardinality(upTo(k)) => i = k
    <3>1. ASSUME NEW i \in I, NEW k \in I, i # k
          PROVE  Cardinality(upTo(i)) # Cardinality(upTo(k))
      <4>1. <<i, k>> \in R \/ <<k, i>> \in R
        BY <3>1 DEF StrictOrder
      <4>2. Cardinality(upTo(i)) \in Nat /\ Cardinality(upTo(k)) \in Nat
        BY <1>3
      <4> HIDE DEF upTo
      <4> QED BY <1>4, <4>1, <4>2
    <3> HIDE DEF upTo
    <3> QED BY <3>1
  <2> HIDE DEF upTo
  <2>2. rank \in Injection(I, I)
    BY <1>3, <2>1 DEF Injection, IsInjective
  <2> HIDE DEF rank, I
  <2>3. rank \in Surjection(I, I)
    BY <1>1, <2>2, FS_Injection
  <2>4. \A k \in I : \E i \in I : rank[i] = k
    BY <2>3 DEF Surjection
  <2> QED BY <2>4 DEF rank
<1> HIDE DEF upTo
<1> DEFINE order == [k \in I |-> CHOOSE i \in I : Cardinality(upTo(i)) = k]
<1>7. \A k \in I : order[k] \in I /\ Cardinality(upTo(order[k])) = k
  BY <1>6
<1>8. order \in [I -> I]
  BY <1>7
<1> HIDE DEF order
<1>9. ASSUME NEW j \in I, NEW k \in I, j < k
      PROVE  <<order[j], order[k]>> \in R
  BY <1>5, <1>7, <1>9
<1> QED BY <1>8, <1>9

\* Of the numbers that are n or more in a finite set there is a least one.
LEMMA LeastFrom ==
    ASSUME NEW S \in SUBSET Nat, NEW n \in Nat, NEW m \in S, n <= m
    PROVE  \E b \in S : b >= n /\ \A c \in S : c >= n => b <= c
<1> DEFINE Least(b) == b \in S /\ b >= n /\ \A c \in S : c >= n => b <= c
           D == {i \in 0 .. m + 1 : \A c \in S : c >= n => i <= c}
<1> SUFFICES ASSUME \A b \in S : ~ Least(b) PROVE FALSE
  OBVIOUS
<1>1. 0 \in D
  OBVIOUS
<1>2. ASSUME NEW i \in 0 .. (m + 1) - 1, i \in D PROVE i + 1 \in D
  <2>1. \A c \in S : c >= n => i <= c
    BY <1>2
  <2>2. ~ (i \in S /\ i >= n)
    BY <2>1
  <2>3. \A c \in S : c >= n => i + 1 <= c
    <3>1. ASSUME NEW c \in S, c >= n PROVE i + 1 <= c
      <4>1. i # c /\ i <= c /\ c \in Nat
        BY <2>1, <2>2, <3>1
      <4> QED BY <4>1
    <3> QED BY <3>1
  <2>4. i + 1 \in 0 .. m + 1
    OBVIOUS
  <2> QED BY <2>3, <2>4
<1>3. 0 .. m + 1 \subseteq D
  <2> HIDE DEF D
  <2>1. m + 1 \in Nat
    OBVIOUS
  <2> QED BY <1>1, <1>2, <2>1, ReachesAll
<1>4. m + 1 \in 0 .. m + 1
  OBVIOUS
<1>5. m + 1 <= m
  BY <1>3, <1>4
<1> QED BY <1>5

=============================================================================
