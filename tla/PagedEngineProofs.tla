------------------------- MODULE PagedEngineProofs -------------------------
(***************************************************************************)
(* The paged engine keeps the pages' contents right, for every number of   *)
(* requests, pages, buckets and rows: whatever the kernel and the order of *)
(* the rows, a running request's pages hold its own sequence, and each     *)
(* token is sampled from that sequence.                                    *)
(***************************************************************************)
EXTENDS PagedEngine, KVMemoryPoolProofs

----------------------------------------------------------------------------
\* Positions, pages and slots.

\* Where a slot is, from the page and the place in it.
LEMMA PageAndPlace ==
    ASSUME NEW p \in Nat, NEW o \in 0 .. PageSize - 1
    PROVE  /\ p * PageSize + o \in Nat
           /\ (p * PageSize + o) \div PageSize = p
           /\ (p * PageSize + o) % PageSize = o
BY PoolAssumption

\* Every position is at one place of one page of its table.
LEMMA PositionSplits ==
    ASSUME NEW n \in Nat
    PROVE  \E q \in Nat, o \in 0 .. PageSize - 1 :
              n = q * PageSize + o /\ n \div PageSize = q /\ n % PageSize = o
<1>1. n - (n \div PageSize) * PageSize \in 0 .. PageSize - 1 /\ n \div PageSize \in Nat
  BY PoolAssumption
<1>2. PICK q \in Nat : q = n \div PageSize
  BY <1>1
<1>3. q * PageSize \in Nat
  BY PoolAssumption
<1>4. PICK o \in 0 .. PageSize - 1 : o = n - q * PageSize
  BY <1>1, <1>2
<1>5. n = q * PageSize + o
  BY <1>3, <1>4, PoolAssumption
<1>6. n % PageSize = o
  BY <1>5, PageAndPlace
<1> QED BY <1>2, <1>5, <1>6

\* The page of a position is in the table as long as the table has room for it.
LEMMA PageOfPosition ==
    ASSUME NEW n \in Nat, NEW t \in Nat, t < n
    PROVE  t \div PageSize + 1 \in 1 .. PagesNeeded(n)
BY PoolAssumption DEF PagesNeeded

\* More tokens need as many pages or more.
LEMMA NeededMonotone ==
    ASSUME NEW n \in Nat, NEW m \in Nat, n <= m
    PROVE  PagesNeeded(n) <= PagesNeeded(m)
BY PoolAssumption DEF PagesNeeded

\* A position of a table is in a slot of one of the table's pages, and two positions
\* are in two slots if the pages are different ones.
LEMMA SlotOfPosition ==
    ASSUME NEW table \in Seq(Pages), NEW n \in Nat, PagesNeeded(n) <= Len(table),
           NEW t \in Nat, t < n
    PROVE  /\ t \div PageSize + 1 \in 1 .. Len(table)
           /\ Slot(table, t) \in Slots
           /\ Slot(table, t) \div PageSize = table[t \div PageSize + 1]
           /\ Slot(table, t) \div PageSize \in Range(table)
           /\ Slot(table, t) % PageSize = t % PageSize
<1>1. PICK q \in Nat, o \in 0 .. PageSize - 1 :
         t = q * PageSize + o /\ t \div PageSize = q /\ t % PageSize = o
  BY PositionSplits
<1>2. q + 1 \in 1 .. Len(table)
  <2>1. q + 1 \in 1 .. PagesNeeded(n)
    BY <1>1, PageOfPosition
  <2>2. PagesNeeded(n) \in Nat /\ Len(table) \in Nat
    BY PagesNeededCovers
  <2> QED BY <2>1, <2>2
<1>3. PICK p \in Pages : p = table[q + 1] /\ p \in Range(table)
  BY <1>2, RangeType
<1>4. Slot(table, t) = p * PageSize + o
  BY <1>1, <1>3 DEF Slot
<1>5. p \in Nat /\ p < NumPages
  BY PoolAssumption DEF Pages
<1>6. p * PageSize + o \in Slots
  BY <1>5, PoolAssumption DEF Slots
<1>7. (p * PageSize + o) \div PageSize = p /\ (p * PageSize + o) % PageSize = o
  BY <1>5, PageAndPlace
<1> QED BY <1>1, <1>2, <1>3, <1>4, <1>6, <1>7

\* A page table without duplicates gives different positions different slots.
LEMMA SlotsDiffer ==
    ASSUME NEW table \in Seq(Pages), IsInjective(table),
           NEW n \in Nat, PagesNeeded(n) <= Len(table),
           NEW t \in Nat, t < n, NEW u \in Nat, u < n, t # u
    PROVE  Slot(table, t) # Slot(table, u)
<1>1. PICK q \in Nat, o \in 0 .. PageSize - 1 :
         t = q * PageSize + o /\ t \div PageSize = q /\ t % PageSize = o
  BY PositionSplits
<1>2. PICK r \in Nat, a \in 0 .. PageSize - 1 :
         u = r * PageSize + a /\ u \div PageSize = r /\ u % PageSize = a
  BY PositionSplits
<1>3. q # r \/ o # a
  BY <1>1, <1>2
<1>4. /\ q + 1 \in 1 .. Len(table) /\ r + 1 \in 1 .. Len(table)
      /\ Slot(table, t) \div PageSize = table[q + 1] /\ Slot(table, t) % PageSize = o
      /\ Slot(table, u) \div PageSize = table[r + 1] /\ Slot(table, u) % PageSize = a
  BY <1>1, <1>2, SlotOfPosition
<1>5. q # r => table[q + 1] # table[r + 1]
  <2>1. DOMAIN table = 1 .. Len(table)
    OBVIOUS
  <2>2. q # r => q + 1 # r + 1
    OBVIOUS
  <2> QED BY <1>4, <2>1, <2>2 DEF IsInjective
<1> QED BY <1>3, <1>4, <1>5

\* A kernel's own table of a row finds the same slots if it starts with the same pages.
LEMMA SlotOfPrefix ==
    ASSUME NEW table, NEW own, NEW n \in Nat, NEW t \in Nat, t < n,
           \A i \in 1 .. PagesNeeded(n) : own[i] = table[i]
    PROVE  Slot(own, t) = Slot(table, t)
<1>1. t \div PageSize + 1 \in 1 .. PagesNeeded(n)
  BY PageOfPosition
<1> QED BY <1>1 DEF Slot

----------------------------------------------------------------------------
\* Writing.

\* The entry of the only writer of a slot is there afterwards; a slot without one
\* keeps what it holds.
LEMMA WrittenIs ==
    ASSUME NEW slots, NEW entries, DOMAIN slots \in SUBSET Nat
    PROVE  /\ DOMAIN Written(slots, entries) = Slots
           /\ \A i \in DOMAIN slots :
                 slots[i] \in Slots /\ (\A j \in DOMAIN slots : j # i => slots[j] # slots[i])
                    => Written(slots, entries)[slots[i]] = entries[i]
           /\ \A s \in Slots :
                 (\A i \in DOMAIN slots : slots[i] # s) => Written(slots, entries)[s] = mem[s]
<1>1. DOMAIN Written(slots, entries) = Slots
  BY DEF Written
<1>2. ASSUME NEW i \in DOMAIN slots, slots[i] \in Slots,
             \A j \in DOMAIN slots : j # i => slots[j] # slots[i]
      PROVE  Written(slots, entries)[slots[i]] = entries[i]
  <2> DEFINE writers == {j \in DOMAIN slots : slots[j] = slots[i]}
             last == CHOOSE k \in writers : \A j \in writers : j <= k
  <2>1. writers = {i}
    BY <1>2
  <2>2. i \in Nat
    OBVIOUS
  <2>3. i <= i
    BY <2>2
  <2>4. last = i
    <3> HIDE DEF writers
    <3> QED BY <2>1, <2>3
  <2>5. Written(slots, entries)[slots[i]] = IF writers = {} THEN mem[slots[i]]
                                                            ELSE entries[last]
    BY <1>2 DEF Written
  <2> HIDE DEF writers, last
  <2> QED BY <2>1, <2>4, <2>5
<1>3. ASSUME NEW s \in Slots, \A i \in DOMAIN slots : slots[i] # s
      PROVE  Written(slots, entries)[s] = mem[s]
  <2>1. {i \in DOMAIN slots : slots[i] = s} = {}
    BY <1>3
  <2> QED BY <2>1 DEF Written
<1> QED BY <1>1, <1>2, <1>3

----------------------------------------------------------------------------
\* What the decode kernels do to the pages.

DecodeRows == [token : Requests \X Nat, position : Nat, length : Nat, table : Seq(Pages)]

\* The rows of a batch: each has room for its next position, in pages of its own.
RowsFit(rows) ==
    /\ rows \in Seq(DecodeRows)
    /\ \A k \in 1 .. Len(rows) :
          /\ IsInjective(rows[k].table)
          /\ PagesNeeded(rows[k].length + 1) <= Len(rows[k].table)
          /\ kernel = "cuda_graph" => ScratchPage \notin Range(rows[k].table)
    /\ \A j, k \in 1 .. Len(rows) :
          j # k => Range(rows[j].table) \cap Range(rows[k].table) = {}

\* m is the memory with every row's entry at the row's next position, and otherwise
\* changed on the scratch page at most.
Appended(rows, m) ==
    /\ \A k \in 1 .. Len(rows) :
          m[Slot(rows[k].table, rows[k].length)] = Entry(rows[k].token, rows[k].position)
    /\ \A k \in 1 .. Len(rows) : \A t \in Nat :
          t < rows[k].length => m[Slot(rows[k].table, t)] = mem[Slot(rows[k].table, t)]
    /\ \A s \in Slots :
          m[s] # mem[s] =>
             \/ \E k \in 1 .. Len(rows) : s = Slot(rows[k].table, rows[k].length)
             \/ kernel = "cuda_graph" /\ s \div PageSize = ScratchPage

\* What every kernel has to do with a batch.
Appends(rows, result) ==
    /\ Appended(rows, result.mem)
    /\ \A k \in 1 .. Len(rows) :
          result.seen[k] = ReadPrefix(result.mem, rows[k].table, rows[k].length + 1)

\* What a row that fits brings: room for one position more, in pages of its own.
LEMMA RowParts ==
    ASSUME NEW rows, RowsFit(rows), NEW k \in 1 .. Len(rows)
    PROVE  /\ rows[k].table \in Seq(Pages) /\ IsInjective(rows[k].table)
           /\ rows[k].length \in Nat /\ rows[k].length + 1 \in Nat
           /\ PagesNeeded(rows[k].length + 1) \in Nat
           /\ PagesNeeded(rows[k].length + 1) <= Len(rows[k].table)
           /\ kernel = "cuda_graph" => ScratchPage \notin Range(rows[k].table)
<1>1. rows \in Seq(DecodeRows)
  BY DEF RowsFit
<1>2. rows[k] \in DecodeRows
  BY <1>1
<1>3. rows[k].table \in Seq(Pages) /\ rows[k].length \in Nat
  BY <1>2 DEF DecodeRows
<1>4. PagesNeeded(rows[k].length + 1) \in Nat
  <2>1. rows[k].length + 1 \in Nat
    BY <1>3
  <2> QED BY <2>1, PagesNeededCovers
<1> QED BY <1>3, <1>4 DEF RowsFit

\* Slots of two rows are on different pages.
LEMMA RowsApart ==
    ASSUME NEW rows, RowsFit(rows), NEW j \in 1 .. Len(rows), NEW k \in 1 .. Len(rows),
           j # k, NEW t \in Nat, NEW u \in Nat, t <= rows[j].length, u <= rows[k].length
    PROVE  Slot(rows[j].table, t) # Slot(rows[k].table, u)
<1>1. Range(rows[j].table) \cap Range(rows[k].table) = {}
  BY DEF RowsFit
<1>2. Slot(rows[j].table, t) \div PageSize \in Range(rows[j].table)
  <2>1. /\ rows[j].table \in Seq(Pages) /\ rows[j].length + 1 \in Nat
        /\ PagesNeeded(rows[j].length + 1) <= Len(rows[j].table) /\ t < rows[j].length + 1
    BY RowParts
  <2> QED BY <2>1, SlotOfPosition
<1>3. Slot(rows[k].table, u) \div PageSize \in Range(rows[k].table)
  <2>1. /\ rows[k].table \in Seq(Pages) /\ rows[k].length + 1 \in Nat
        /\ PagesNeeded(rows[k].length + 1) <= Len(rows[k].table) /\ u < rows[k].length + 1
    BY RowParts
  <2> QED BY <2>1, SlotOfPosition
<1> QED BY <1>1, <1>2, <1>3

\* A row's own slots.
LEMMA SlotOfRow ==
    ASSUME NEW rows, RowsFit(rows), NEW k \in 1 .. Len(rows), NEW t \in Nat,
           t <= rows[k].length
    PROVE  /\ Slot(rows[k].table, t) \in Slots
           /\ Slot(rows[k].table, t) \div PageSize \in Range(rows[k].table)
           /\ t # rows[k].length =>
                 Slot(rows[k].table, t) # Slot(rows[k].table, rows[k].length)
<1>1. /\ rows[k].table \in Seq(Pages) /\ IsInjective(rows[k].table)
      /\ rows[k].length \in Nat /\ rows[k].length + 1 \in Nat
      /\ PagesNeeded(rows[k].length + 1) <= Len(rows[k].table)
  BY RowParts
<1>2. t < rows[k].length + 1 /\ rows[k].length < rows[k].length + 1
  BY <1>1
<1>3. /\ Slot(rows[k].table, t) \in Slots
      /\ Slot(rows[k].table, t) \div PageSize \in Range(rows[k].table)
  BY <1>1, <1>2, SlotOfPosition
<1>4. t # rows[k].length => Slot(rows[k].table, t) # Slot(rows[k].table, rows[k].length)
  BY <1>1, <1>2, SlotsDiffer
<1> QED BY <1>3, <1>4

\* A kernel that writes the rows' entries to their next positions, and dummy rows'
\* entries to the scratch page.
LEMMA WritesAppend ==
    ASSUME NEW rows, RowsFit(rows), NEW b \in Nat, NEW slots, NEW entries,
           DOMAIN slots = 1 .. b,
           \A k \in 1 .. Len(rows) :
              /\ slots[k] = Slot(rows[k].table, rows[k].length)
              /\ entries[k] = Entry(rows[k].token, rows[k].position),
           \A k \in Len(rows) + 1 .. b :
              kernel = "cuda_graph" /\ slots[k] \div PageSize = ScratchPage,
           Len(rows) <= b
    PROVE  Appended(rows, Written(slots, entries))
<1>0. Len(rows) \in Nat /\ \A i \in 1 .. b : i \in 1 .. Len(rows) \/ i \in Len(rows) + 1 .. b
  <2>1. rows \in Seq(DecodeRows)
    BY DEF RowsFit
  <2>2. Len(rows) \in Nat
    BY <2>1
  <2> QED BY <2>2
<1>1. DOMAIN slots \in SUBSET Nat
  OBVIOUS
<1>2. ASSUME NEW k \in 1 .. Len(rows), NEW t \in Nat, t <= rows[k].length,
             NEW i \in 1 .. b, i # k \/ t # rows[k].length
      PROVE  slots[i] # Slot(rows[k].table, t)
  <2>1. CASE i \in 1 .. Len(rows) /\ i # k
    <3>1. rows[i].length \in Nat
      BY <2>1, RowParts
    <3>2. rows[i].length <= rows[i].length
      BY <3>1
    <3>3. Slot(rows[i].table, rows[i].length) # Slot(rows[k].table, t)
      BY <1>2, <2>1, <3>1, <3>2, RowsApart
    <3> QED BY <2>1, <3>3
  <2>2. CASE i \in 1 .. Len(rows) /\ i = k
    <3>1. Slot(rows[k].table, t) # Slot(rows[k].table, rows[k].length)
      BY <1>2, <2>2, SlotOfRow
    <3> QED BY <2>2, <3>1
  <2>3. CASE i \in Len(rows) + 1 .. b
    <3>1. kernel = "cuda_graph" /\ slots[i] \div PageSize = ScratchPage
      BY <2>3
    <3>2. Slot(rows[k].table, t) \div PageSize \in Range(rows[k].table)
      BY <1>2, SlotOfRow
    <3>3. ScratchPage \notin Range(rows[k].table)
      BY <3>1, RowParts
    <3> QED BY <3>1, <3>2, <3>3
  <2> QED BY <1>0, <2>1, <2>2, <2>3
<1>3. ASSUME NEW k \in 1 .. Len(rows)
      PROVE  Written(slots, entries)[Slot(rows[k].table, rows[k].length)]
                = Entry(rows[k].token, rows[k].position)
  <2>1. rows[k].length \in Nat
    BY RowParts
  <2>2. rows[k].length <= rows[k].length
    BY <2>1
  <2>3. slots[k] = Slot(rows[k].table, rows[k].length) /\ slots[k] \in Slots
    BY <2>1, <2>2, SlotOfRow
  <2>4. k \in DOMAIN slots
    BY <1>0
  <2>5. \A i \in DOMAIN slots : i # k => slots[i] # slots[k]
    BY <1>2, <2>1, <2>2, <2>3
  <2>6. Written(slots, entries)[slots[k]] = entries[k]
    BY <1>1, <2>3, <2>4, <2>5, WrittenIs
  <2> QED BY <2>3, <2>6
<1>4. ASSUME NEW k \in 1 .. Len(rows), NEW t \in Nat, t < rows[k].length
      PROVE  Written(slots, entries)[Slot(rows[k].table, t)] = mem[Slot(rows[k].table, t)]
  <2>1. rows[k].length \in Nat
    BY RowParts
  <2>2. t <= rows[k].length /\ t # rows[k].length
    BY <1>4, <2>1
  <2>3. Slot(rows[k].table, t) \in Slots
    BY <2>2, SlotOfRow
  <2>4. \A i \in DOMAIN slots : slots[i] # Slot(rows[k].table, t)
    BY <1>2, <2>2
  <2> QED BY <1>1, <2>3, <2>4, WrittenIs
<1>5. ASSUME NEW s \in Slots, Written(slots, entries)[s] # mem[s]
      PROVE  \/ \E k \in 1 .. Len(rows) : s = Slot(rows[k].table, rows[k].length)
             \/ kernel = "cuda_graph" /\ s \div PageSize = ScratchPage
  <2>1. PICK i \in 1 .. b : slots[i] = s
    BY <1>1, <1>5, WrittenIs
  <2>2. CASE i \in 1 .. Len(rows)
    BY <2>1, <2>2
  <2>3. CASE i \in Len(rows) + 1 .. b
    BY <2>1, <2>3
  <2> QED BY <1>0, <2>2, <2>3
<1> QED BY <1>3, <1>4, <1>5 DEF Appended

\* A kernel's own tables serve as well as the requests', if they begin with them.
LEMMA ReadsOwnTable ==
    ASSUME NEW rows, RowsFit(rows), NEW k \in 1 .. Len(rows), NEW m, NEW own,
           \A i \in 1 .. PagesNeeded(rows[k].length + 1) : own[i] = rows[k].table[i]
    PROVE  /\ Slot(own, rows[k].length) = Slot(rows[k].table, rows[k].length)
           /\ ReadPrefix(m, own, rows[k].length + 1)
                 = ReadPrefix(m, rows[k].table, rows[k].length + 1)
<1>1. PICK n \in Nat : n = rows[k].length + 1
  BY RowParts
<1>2. \A i \in 1 .. PagesNeeded(n) : own[i] = rows[k].table[i]
  BY <1>1
<1>3. ASSUME NEW t \in Nat, t < n PROVE Slot(own, t) = Slot(rows[k].table, t)
  BY <1>2, <1>3, SlotOfPrefix
<1>4. rows[k].length \in Nat /\ rows[k].length < n
  BY <1>1, RowParts
<1>5. \A t \in 1 .. n : t - 1 \in Nat /\ t - 1 < n
  BY <1>1
<1>6. ReadPrefix(m, own, n) = ReadPrefix(m, rows[k].table, n)
  BY <1>3, <1>5 DEF ReadPrefix
<1> QED BY <1>1, <1>3, <1>4, <1>6

\* The b rows a kernel is given: rows, with tables that begin with theirs, and then
\* dummies (of the runner only).
GivenAs(staged, rows, b) ==
    /\ DOMAIN staged = 1 .. b
    /\ \A k \in 1 .. Len(rows) :
          /\ staged[k].token = rows[k].token
          /\ staged[k].position = rows[k].position
          /\ staged[k].length = rows[k].length
          /\ \A i \in 1 .. Len(rows[k].table) : staged[k].table[i] = rows[k].table[i]
    /\ \A k \in Len(rows) + 1 .. b : kernel = "cuda_graph" /\ staged[k] = DummyRow

\* flash_attn_with_kvcache on such rows.
LEMMA FlashAppends ==
    ASSUME NEW rows, RowsFit(rows), NEW b \in Nat, NEW staged,
           GivenAs(staged, rows, b), Len(rows) <= b
    PROVE  Appends(rows, FlashAttention(staged))
<1> DEFINE slots == [k \in 1 .. b |-> Slot(staged[k].table, staged[k].length)]
           entries == [k \in 1 .. b |-> Entry(staged[k].token, staged[k].position)]
<1>1. PICK m : m = Written(slots, entries)
  OBVIOUS
<1>2. FlashAttention(staged) =
         [mem |-> m,
          seen |-> [k \in 1 .. b |-> ReadPrefix(m, staged[k].table, staged[k].length + 1)]]
  BY <1>1 DEF FlashAttention, GivenAs
<1>3. \A k \in 1 .. Len(rows) : k \in 1 .. b
  <2>1. rows \in Seq(DecodeRows)
    BY DEF RowsFit
  <2>2. Len(rows) \in Nat
    BY <2>1
  <2> QED BY <2>2
<1>4. ASSUME NEW k \in 1 .. Len(rows)
      PROVE  /\ slots[k] = Slot(rows[k].table, rows[k].length)
             /\ entries[k] = Entry(rows[k].token, rows[k].position)
             /\ ReadPrefix(m, staged[k].table, staged[k].length + 1)
                   = ReadPrefix(m, rows[k].table, rows[k].length + 1)
  <2>1. /\ Slot(staged[k].table, rows[k].length) = Slot(rows[k].table, rows[k].length)
        /\ ReadPrefix(m, staged[k].table, rows[k].length + 1)
              = ReadPrefix(m, rows[k].table, rows[k].length + 1)
    <3>1. PICK own : own = staged[k].table
      OBVIOUS
    <3>2. \A i \in 1 .. PagesNeeded(rows[k].length + 1) : own[i] = rows[k].table[i]
      <4>1. \A i \in 1 .. Len(rows[k].table) : own[i] = rows[k].table[i]
        BY <3>1 DEF GivenAs
      <4>2. PICK n \in Nat : n = PagesNeeded(rows[k].length + 1)
        BY RowParts
      <4>3. n <= Len(rows[k].table) /\ rows[k].table \in Seq(Pages)
        BY <4>2, RowParts
      <4>4. Len(rows[k].table) \in Nat
        BY <4>3
      <4>5. \A i \in 1 .. n : i \in 1 .. Len(rows[k].table)
        BY <4>3, <4>4
      <4> QED BY <4>1, <4>2, <4>5
    <3>3. /\ Slot(own, rows[k].length) = Slot(rows[k].table, rows[k].length)
          /\ ReadPrefix(m, own, rows[k].length + 1)
                = ReadPrefix(m, rows[k].table, rows[k].length + 1)
      BY <3>2, ReadsOwnTable
    <3> QED BY <3>1, <3>3
  <2>2. /\ staged[k].token = rows[k].token /\ staged[k].position = rows[k].position
        /\ staged[k].length = rows[k].length
    BY DEF GivenAs
  <2>3. k \in 1 .. b
    BY <1>3
  <2> QED BY <2>1, <2>2, <2>3
<1>5. ASSUME NEW k \in Len(rows) + 1 .. b
      PROVE  kernel = "cuda_graph" /\ slots[k] \div PageSize = ScratchPage
  <2>1. k \in 1 .. b /\ kernel = "cuda_graph" /\ staged[k] = DummyRow
    <3>1. rows \in Seq(DecodeRows)
      BY DEF RowsFit
    <3>2. Len(rows) \in Nat
      BY <3>1
    <3> QED BY <3>2 DEF GivenAs
  <2>2. slots[k] = Slot(DummyRow.table, 1)
    <3>1. slots[k] = Slot(staged[k].table, staged[k].length)
      BY <2>1
    <3>2. DummyRow.length = 1
      BY DEF DummyRow
    <3> QED BY <2>1, <3>1, <3>2
  <2>3. Slot(DummyRow.table, 1) = 1
    <3>1. PageSize \in Nat /\ PageSize > 1
      BY PoolAssumption, EngineAssumption
    <3>2. 1 \div PageSize = 0 /\ 1 % PageSize = 1
      <4>1. 0 \in Nat /\ 1 \in 0 .. PageSize - 1
        BY <3>1
      <4>2. (0 * PageSize + 1) \div PageSize = 0 /\ (0 * PageSize + 1) % PageSize = 1
        BY <4>1, PageAndPlace
      <4>3. 0 * PageSize + 1 = 1
        BY <3>1
      <4> QED BY <4>2, <4>3
    <3>3. DummyRow.table[1] = 0
      BY RunnerAssumption DEF DummyRow, ScratchPage
    <3> QED BY <3>1, <3>2, <3>3 DEF Slot
  <2>4. 1 \div PageSize = 0
    BY PoolAssumption, EngineAssumption
  <2> QED BY <2>1, <2>2, <2>3, <2>4 DEF ScratchPage
<1>6. DOMAIN slots = 1 .. b
  OBVIOUS
<1> HIDE DEF slots, entries
<1>7. Appended(rows, Written(slots, entries))
  BY <1>4, <1>5, <1>6, WritesAppend
<1>8. PICK result : result = FlashAttention(staged)
  OBVIOUS
<1>9. Appended(rows, result.mem)
  BY <1>1, <1>2, <1>7, <1>8
<1>10. ASSUME NEW k \in 1 .. Len(rows)
       PROVE  result.seen[k] = ReadPrefix(result.mem, rows[k].table, rows[k].length + 1)
  <2>1. k \in 1 .. b
    BY <1>3
  <2>2. /\ result.seen[k] = ReadPrefix(m, staged[k].table, staged[k].length + 1)
        /\ result.mem = m
    BY <1>2, <1>8, <2>1
  <2> QED BY <1>4, <2>2
<1> QED BY <1>8, <1>9, <1>10 DEF Appends

\* pad_block_table keeps the table in front.
LEMMA PaddedTable ==
    ASSUME NEW table \in Seq(Pages), NEW n \in Int
    PROVE  \A i \in 1 .. Len(table) : PadBlockTable(table, n)[i] = table[i]
<1> DEFINE pad == [i \in 1 .. n - Len(table) |-> 0]
<1>1. pad \in Seq({0})
  <2>1. CASE n - Len(table) \in Nat
    BY <2>1
  <2>2. CASE n - Len(table) \notin Nat
    <3>1. 1 .. n - Len(table) = 1 .. 0
      BY <2>2
    <3>2. pad = [i \in 1 .. 0 |-> 0]
      BY <3>1
    <3> HIDE DEF pad
    <3> QED BY <3>2
  <2> QED BY <2>1, <2>2
<1>2. PadBlockTable(table, n) = table \o pad
  BY DEF PadBlockTable
<1> HIDE DEF pad
<1>3. pad \in Seq({0}) /\ table \in Seq(Pages \cup {0}) /\ pad \in Seq(Pages \cup {0})
  BY <1>1
<1>4. \A i \in 1 .. Len(table) : (table \o pad)[i] = table[i]
  BY <1>3, ConcatProperties
<1> QED BY <1>2, <1>4

----------------------------------------------------------------------------
\* Arrays that pack the parts of several requests.

\* flat has the lists of seqs, whose lengths are lens, one after the other: the i-th
\* is between the i-th offset and the next, and there is nothing else.
Packs(flat, seqs, lens) ==
    /\ \A i \in 1 .. Len(seqs) :
          /\ PrefixTotal(lens, i - 1) \in Nat
          /\ Offsets(lens)[i] = PrefixTotal(lens, i - 1)
          /\ Offsets(lens)[i + 1] = PrefixTotal(lens, i - 1) + lens[i]
          /\ \A t \in 1 .. lens[i] :
                /\ PrefixTotal(lens, i - 1) + t \in 1 .. Len(flat)
                /\ flat[PrefixTotal(lens, i - 1) + t] = seqs[i][t]
    /\ \A j \in 1 .. Len(flat) : \E i \in 1 .. Len(seqs) : \E t \in 1 .. lens[i] :
          j = PrefixTotal(lens, i - 1) + t

\* Concatenation packs: torch.cat of the prompts and of their slot mappings.
LEMMA PackedParts ==
    ASSUME NEW S, NEW seqs \in Seq(Seq(S)), seqs # <<>>, NEW lens \in Seq(Nat),
           Len(lens) = Len(seqs), Lengths(lens, seqs)
    PROVE  FlattenSeq(seqs) \in Seq(S) /\ Packs(FlattenSeq(seqs), seqs, lens)
<1>1. PICK n \in Nat : n = Len(seqs) /\ n = Len(lens)
  OBVIOUS
<1>0. PICK off : off = [i \in 0 .. n |-> PrefixTotal(lens, i)]
  OBVIOUS
<1>2. /\ off[0] = 0
      /\ \A i \in 1 .. n : off[i] = off[i - 1] + lens[i]
      /\ \A i \in 0 .. n : off[i] \in Nat
  <2>1. /\ PrefixTotal(lens, 0) = 0
        /\ \A i \in 1 .. n : PrefixTotal(lens, i) = PrefixTotal(lens, i - 1) + lens[i]
        /\ \A i \in 0 .. n : PrefixTotal(lens, i) \in Nat
    BY <1>1, PrefixTotals
  <2>2. \A i \in 1 .. n : i \in 0 .. n /\ i - 1 \in 0 .. n
    OBVIOUS
  <2> QED BY <1>0, <2>1, <2>2
<1>3. \A i \in 1 .. n : off[i - 1] = PrefixTotal(lens, i - 1) /\ off[i] = PrefixTotal(lens, i)
  <2>1. \A i \in 1 .. n : i \in 0 .. n /\ i - 1 \in 0 .. n
    OBVIOUS
  <2> QED BY <1>0, <2>1
<1>4. \A i \in 1 .. n :
         /\ Offsets(lens)[i] = PrefixTotal(lens, i - 1)
         /\ Offsets(lens)[i + 1] = PrefixTotal(lens, i)
  <2>1. Offsets(lens) = [i \in 1 .. n + 1 |-> PrefixTotal(lens, i - 1)]
    BY <1>1 DEF Offsets, PrefixTotal
  <2>2. \A i \in 1 .. n : i \in 1 .. n + 1 /\ i + 1 \in 1 .. n + 1 /\ (i + 1) - 1 = i
    OBVIOUS
  <2> QED BY <2>1, <2>2
<1>5. PICK flat : flat = FlattenSeq(seqs)
  OBVIOUS
<1>8. \A i \in 1 .. n : lens[i] \in Nat
  BY <1>1
<1>6. Accumulates(off, lens, n)
  BY <1>2, <1>8 DEF Accumulates
<1>7. /\ flat \in Seq(S)
      /\ Len(flat) = off[n]
      /\ \A i \in 1 .. n : \A t \in 1 .. lens[i] : flat[off[i - 1] + t] = seqs[i][t]
  <2>1. Accumulates(off, lens, Len(seqs))
    BY <1>1, <1>6
  <2>2. /\ FlattenSeq(seqs) \in Seq(S)
        /\ Len(FlattenSeq(seqs)) = off[Len(seqs)]
        /\ JoinedAt(FlattenSeq(seqs), seqs, off)
    BY <2>1, FlattenPlaces
  <2> QED BY <1>1, <1>5, <2>2 DEF JoinedAt, Lengths
<1>9. AllPlaced(off, lens, n)
  BY <1>6, PlacesCovered
<1>10. ASSUME NEW i \in 1 .. n, NEW t \in 1 .. lens[i]
       PROVE  off[i - 1] + t \in 1 .. off[n]
  <2>1. \A k \in 0 .. n - i : off[i] <= off[i + k]
    <3> DEFINE R == {k \in 0 .. n - i : off[i] <= off[i + k]}
    <3>1. n - i \in Nat /\ off[i] \in Nat /\ i + 0 = i
      BY <1>2
    <3>2. 0 \in R
      BY <3>1
    <3>3. ASSUME NEW k \in 0 .. (n - i) - 1, k \in R PROVE k + 1 \in R
      <4>1. i + (k + 1) \in 1 .. n /\ (i + (k + 1)) - 1 = i + k /\ i + k \in 0 .. n
        OBVIOUS
      <4>2. off[i + (k + 1)] = off[i + k] + lens[i + (k + 1)]
        BY <1>2, <4>1
      <4>3. off[i + k] \in Nat /\ lens[i + (k + 1)] \in Nat /\ off[i] <= off[i + k]
        BY <1>2, <1>8, <3>3, <4>1
      <4>4. PICK a \in Nat, c \in Nat, d \in Nat :
               a = off[i] /\ c = off[i + k] /\ d = lens[i + (k + 1)]
        BY <3>1, <4>3
      <4>5. a <= c + d
        <5>1. a <= c
          BY <4>3, <4>4
        <5> QED BY <5>1
      <4>6. off[i] <= off[i + (k + 1)]
        BY <4>2, <4>4, <4>5
      <4> QED BY <4>6
    <3>4. 0 .. n - i \subseteq R
      <4> HIDE DEF R
      <4> QED BY <3>1, <3>2, <3>3, ReachesAll
    <3> QED BY <3>4
  <2>2. n - i \in 0 .. n - i /\ i + (n - i) = n
    OBVIOUS
  <2>3. off[i] <= off[n]
    BY <2>1, <2>2
  <2>4. off[i - 1] \in Nat /\ off[i] = off[i - 1] + lens[i] /\ lens[i] \in Nat /\ off[n] \in Nat
    <3>1. i - 1 \in 0 .. n /\ n \in 0 .. n
      OBVIOUS
    <3> QED BY <1>2, <1>8, <3>1
  <2>5. PICK a \in Nat, c \in Nat, d \in Nat : a = off[i - 1] /\ c = lens[i] /\ d = off[n]
    BY <2>4
  <2>6. t \in 1 .. c /\ a + c <= d
    BY <2>3, <2>4, <2>5
  <2>7. a + t \in 1 .. d
    BY <2>6
  <2> QED BY <2>5, <2>7
<1>11. ASSUME NEW i \in 1 .. n
       PROVE  /\ PrefixTotal(lens, i - 1) \in Nat
              /\ Offsets(lens)[i] = PrefixTotal(lens, i - 1)
              /\ Offsets(lens)[i + 1] = PrefixTotal(lens, i - 1) + lens[i]
              /\ \A t \in 1 .. lens[i] :
                    /\ PrefixTotal(lens, i - 1) + t \in 1 .. Len(flat)
                    /\ flat[PrefixTotal(lens, i - 1) + t] = seqs[i][t]
  <2>1. PICK o : o = off[i - 1] /\ o = PrefixTotal(lens, i - 1)
    BY <1>3
  <2>2. o \in Nat /\ PrefixTotal(lens, i) = o + lens[i]
    <3>1. i - 1 \in 0 .. n
      OBVIOUS
    <3> QED BY <1>2, <1>3, <2>1, <3>1
  <2>3. \A t \in 1 .. lens[i] : o + t \in 1 .. Len(flat)
    BY <1>7, <1>10, <2>1
  <2>4. \A t \in 1 .. lens[i] : flat[o + t] = seqs[i][t]
    BY <1>1, <1>7, <2>1
  <2> QED BY <1>4, <2>1, <2>2, <2>3, <2>4
<1>12. ASSUME NEW j \in 1 .. Len(flat)
       PROVE  \E i \in 1 .. n : \E t \in 1 .. lens[i] : j = PrefixTotal(lens, i - 1) + t
  <2>1. PICK i \in 1 .. n : \E t \in 1 .. lens[i] : j = off[i - 1] + t
    BY <1>7, <1>9 DEF AllPlaced
  <2> QED BY <1>3, <2>1
<1> QED BY <1>1, <1>5, <1>7, <1>11, <1>12 DEF Packs

\* The i-th part, cut out again.
LEMMA PartCutOut ==
    ASSUME NEW S, NEW seqs \in Seq(Seq(S)), seqs # <<>>, NEW lens \in Seq(Nat),
           Len(lens) = Len(seqs), Lengths(lens, seqs),
           NEW i \in 1 .. Len(seqs)
    PROVE  SubSeq(FlattenSeq(seqs), Offsets(lens)[i] + 1, Offsets(lens)[i + 1]) = seqs[i]
<1>1. PICK flat \in Seq(S) : flat = FlattenSeq(seqs) /\ Packs(flat, seqs, lens)
  BY PackedParts
<1>2. PICK o \in Nat : o = PrefixTotal(lens, i - 1)
  BY <1>1 DEF Packs
<1>3. PICK n \in Nat : n = lens[i]
  OBVIOUS
<1>4. Offsets(lens)[i] = o /\ Offsets(lens)[i + 1] = o + n
  BY <1>1, <1>2, <1>3 DEF Packs
<1>5. \A t \in 1 .. n : o + t \in 1 .. Len(flat) /\ flat[o + t] = seqs[i][t]
  BY <1>1, <1>2, <1>3 DEF Packs
<1>6. PICK part \in Seq(S) : part = seqs[i] /\ Len(part) = n
  BY <1>3 DEF Lengths
<1>7. \A j \in o + 1 .. o + n : flat[j] \in S
  <2>1. ASSUME NEW j \in o + 1 .. o + n PROVE flat[j] \in S
    <3>1. j - o \in 1 .. n /\ o + (j - o) = j
      OBVIOUS
    <3>2. j \in 1 .. Len(flat)
      BY <1>5, <3>1
    <3> QED BY <3>2
  <2> QED BY <2>1
<1>8. PICK cut \in Seq(S) : /\ cut = SubSeq(flat, o + 1, o + n)
                            /\ Len(cut) = n
                            /\ \A t \in 1 .. n : cut[t] = flat[o + t]
  <2>1. /\ SubSeq(flat, o + 1, o + n) \in Seq(S)
        /\ Len(SubSeq(flat, o + 1, o + n)) = IF o + 1 <= o + n THEN (o + n) - (o + 1) + 1 ELSE 0
        /\ \A t \in 1 .. (o + n) - (o + 1) + 1 :
              SubSeq(flat, o + 1, o + n)[t] = flat[(o + 1) + t - 1]
    <3>1. o + 1 \in Int /\ o + n \in Int
      OBVIOUS
    <3> QED BY <1>7, <3>1, SubSeqProperties
  <2>2. (o + n) - (o + 1) + 1 = n /\ \A t \in 1 .. n : (o + 1) + t - 1 = o + t
    OBVIOUS
  <2>3. Len(SubSeq(flat, o + 1, o + n)) = n
    <3>1. CASE n = 0
      BY <2>1, <3>1
    <3>2. CASE n # 0
      BY <2>1, <3>2
    <3> QED BY <3>1, <3>2
  <2>4. \A t \in 1 .. n : SubSeq(flat, o + 1, o + n)[t] = flat[o + t]
    BY <2>1, <2>2
  <2> QED BY <2>1, <2>3, <2>4
<1>9. \A t \in 1 .. n : cut[t] = part[t]
  BY <1>5, <1>6, <1>8
<1>10. cut = part
  BY <1>6, <1>8, <1>9
<1> QED BY <1>1, <1>4, <1>6, <1>8, <1>10

\* The plan of flashinfer_decoder.py gives each row the front of its own table and all
\* of its positions, the appended one included.
LEMMA PlanIsExact ==
    ASSUME NEW rows, RowsFit(rows), rows # <<>>, NEW k \in 1 .. Len(rows)
    PROVE  /\ PlannedLength(Plan(rows), k) = rows[k].length + 1
           /\ \A i \in 1 .. PagesNeeded(rows[k].length + 1) :
                 PlannedPages(Plan(rows), k)[i] = rows[k].table[i]
<1>1. rows \in Seq(DecodeRows)
  BY DEF RowsFit
<1>2. PICK n \in Nat : n = Len(rows) /\ DOMAIN rows = 1 .. n /\ n # 0
  BY <1>1
<1>3. PICK seqs : seqs = [j \in 1 .. n |-> SubSeq(rows[j].table, 1, PagesUsed(rows[j]))]
  OBVIOUS
<1>4. PICK lens : lens = [j \in 1 .. n |-> PagesUsed(rows[j])]
  OBVIOUS
<1>5. ASSUME NEW j \in 1 .. n
      PROVE  /\ PagesUsed(rows[j]) = PagesNeeded(rows[j].length + 1)
             /\ PagesUsed(rows[j]) \in Nat
             /\ SubSeq(rows[j].table, 1, PagesUsed(rows[j])) \in Seq(Pages)
             /\ Len(SubSeq(rows[j].table, 1, PagesUsed(rows[j]))) = PagesUsed(rows[j])
             /\ \A i \in 1 .. PagesUsed(rows[j]) :
                   SubSeq(rows[j].table, 1, PagesUsed(rows[j]))[i] = rows[j].table[i]
  <2>1. PagesUsed(rows[j]) = PagesNeeded(rows[j].length + 1)
    BY DEF PagesUsed, PagesNeeded
  <2>2. PICK table \in Seq(Pages) : table = rows[j].table
    BY <1>2, RowParts
  <2>3. PICK u \in Nat : u = PagesUsed(rows[j]) /\ u <= Len(table)
    BY <1>2, <2>1, <2>2, RowParts
  <2>4. \A i \in 1 .. u : table[i] \in Pages
    BY <2>3
  <2>5. /\ SubSeq(table, 1, u) \in Seq(Pages)
        /\ Len(SubSeq(table, 1, u)) = IF 1 <= u THEN u - 1 + 1 ELSE 0
        /\ \A i \in 1 .. u - 1 + 1 : SubSeq(table, 1, u)[i] = table[1 + i - 1]
    <3>1. 1 \in Int /\ u \in Int
      OBVIOUS
    <3> QED BY <2>4, <3>1, SubSeqProperties
  <2>6. Len(SubSeq(table, 1, u)) = u
    BY <2>5
  <2>7. \A i \in 1 .. u : SubSeq(table, 1, u)[i] = table[i]
    BY <2>5
  <2> QED BY <2>1, <2>2, <2>3, <2>5, <2>6, <2>7
<1>6. seqs \in Seq(Seq(Pages)) /\ Len(seqs) = n /\ seqs # <<>>
  <2>1. \A j \in 1 .. n : SubSeq(rows[j].table, 1, PagesUsed(rows[j])) \in Seq(Pages)
    BY <1>5
  <2>2. seqs \in [1 .. n -> Seq(Pages)]
    BY <1>3, <2>1
  <2>3. seqs \in Seq(Seq(Pages)) /\ Len(seqs) = n
    BY <2>2
  <2> QED BY <1>2, <2>3
<1>7. lens \in Seq(Nat) /\ Len(lens) = n
  BY <1>4, <1>5
<1>8. Lengths(lens, seqs)
  BY <1>3, <1>4, <1>5, <1>6 DEF Lengths
<1>9. k \in 1 .. n /\ k + 1 \in 1 .. n + 1
  BY <1>2
<1>10. PICK plan : plan = Plan(rows)
  OBVIOUS
<1>11. /\ plan.indptr = Offsets(lens)
       /\ plan.indices = FlattenSeq(seqs)
       /\ plan.lastPage[k] = rows[k].length + 1 - (PagesUsed(rows[k]) - 1) * PageSize
  BY <1>2, <1>3, <1>4, <1>9, <1>10 DEF Plan
<1>12. PlannedPages(plan, k) = seqs[k]
  <2>1. Len(lens) = Len(seqs) /\ k \in 1 .. Len(seqs)
    BY <1>6, <1>7, <1>9
  <2>2. SubSeq(FlattenSeq(seqs), Offsets(lens)[k] + 1, Offsets(lens)[k + 1]) = seqs[k]
    BY <1>6, <1>7, <1>8, <2>1, PartCutOut
  <2> QED BY <1>11, <2>2 DEF PlannedPages
<1>13. PlannedLength(plan, k) = rows[k].length + 1
  <2>1. Packs(FlattenSeq(seqs), seqs, lens)
    BY <1>6, <1>7, <1>8, PackedParts
  <2>2. PICK o \in Nat : Offsets(lens)[k] = o /\ Offsets(lens)[k + 1] = o + lens[k]
    BY <1>6, <1>9, <2>1 DEF Packs
  <2>3. PICK u \in Nat : u = PagesUsed(rows[k]) /\ lens[k] = u
    BY <1>4, <1>5, <1>9
  <2>4. PICK l \in Nat : l = rows[k].length
    BY RowParts
  <2>5. PlannedLength(plan, k) = ((o + u) - o - 1) * PageSize + (l + 1 - (u - 1) * PageSize)
    BY <1>11, <2>2, <2>3, <2>4 DEF PlannedLength
  <2>6. (o + u) - o - 1 = u - 1
    OBVIOUS
  <2>7. PICK w \in Int : w = (u - 1) * PageSize
    BY PoolAssumption
  <2>8. w + (l + 1 - w) = l + 1
    OBVIOUS
  <2> QED BY <2>4, <2>5, <2>6, <2>7, <2>8
<1>14. \A i \in 1 .. PagesNeeded(rows[k].length + 1) : PlannedPages(plan, k)[i] = rows[k].table[i]
  BY <1>3, <1>5, <1>9, <1>12
<1> QED BY <1>10, <1>13, <1>14

\* attend_and_append does what the other kernels do.
LEMMA FlashInferAppends ==
    ASSUME NEW rows, RowsFit(rows), rows # <<>>
    PROVE  Appends(rows, AttendAndAppend(rows))
<1>1. PICK plan : plan = Plan(rows)
  OBVIOUS
<1>2. PICK n \in Nat : n = Len(rows) /\ DOMAIN rows = 1 .. n
  BY DEF RowsFit
<1>3. PICK slots : slots = [k \in 1 .. n |-> Slot(PlannedPages(plan, k), rows[k].length)]
  OBVIOUS
<1>4. PICK entries : entries = [k \in 1 .. n |-> Entry(rows[k].token, rows[k].position)]
  OBVIOUS
<1>5. PICK m : m = Written(slots, entries)
  OBVIOUS
<1>6. AttendAndAppend(rows) =
         [mem |-> m,
          seen |-> [k \in 1 .. n |->
                      ReadPrefix(m, PlannedPages(plan, k), PlannedLength(plan, k))]]
  BY <1>1, <1>2, <1>3, <1>4, <1>5 DEF AttendAndAppend
<1>7. ASSUME NEW k \in 1 .. n
      PROVE  /\ slots[k] = Slot(rows[k].table, rows[k].length)
             /\ entries[k] = Entry(rows[k].token, rows[k].position)
             /\ ReadPrefix(m, PlannedPages(plan, k), PlannedLength(plan, k))
                   = ReadPrefix(m, rows[k].table, rows[k].length + 1)
  <2>1. k \in 1 .. Len(rows)
    BY <1>2
  <2>2. PICK own : own = PlannedPages(plan, k)
    OBVIOUS
  <2>3. /\ PlannedLength(plan, k) = rows[k].length + 1
        /\ \A i \in 1 .. PagesNeeded(rows[k].length + 1) : own[i] = rows[k].table[i]
    BY <1>1, <2>1, <2>2, PlanIsExact
  <2>4. /\ Slot(own, rows[k].length) = Slot(rows[k].table, rows[k].length)
        /\ ReadPrefix(m, own, rows[k].length + 1)
              = ReadPrefix(m, rows[k].table, rows[k].length + 1)
    BY <2>1, <2>3, ReadsOwnTable
  <2> QED BY <1>3, <1>4, <2>2, <2>3, <2>4
<1>8. Appended(rows, m)
  <2>1. DOMAIN slots = 1 .. n /\ Len(rows) <= n
    BY <1>2, <1>3
  <2>2. \A k \in 1 .. Len(rows) :
           /\ slots[k] = Slot(rows[k].table, rows[k].length)
           /\ entries[k] = Entry(rows[k].token, rows[k].position)
    BY <1>2, <1>7
  <2>3. \A k \in Len(rows) + 1 .. n :
           kernel = "cuda_graph" /\ slots[k] \div PageSize = ScratchPage
    BY <1>2
  <2> QED BY <1>5, <2>1, <2>2, <2>3, WritesAppend
<1>9. PICK result : result = AttendAndAppend(rows)
  OBVIOUS
<1>10. \A k \in 1 .. Len(rows) :
          result.seen[k] = ReadPrefix(result.mem, rows[k].table, rows[k].length + 1)
  BY <1>2, <1>6, <1>7, <1>9
<1>11. Appended(rows, result.mem)
  BY <1>6, <1>8, <1>9
<1> QED BY <1>9, <1>10, <1>11 DEF Appends

----------------------------------------------------------------------------
\* The forward pass of a decode step, whichever kernel makes it.

DummiesStaged == DOMAIN host = BatchSizes /\ prevLive \in [BatchSizes -> Nat] /\ DummyRowsAreSafe

\* The bucket of a batch that the runner covers.
LEMMA BucketHolds ==
    ASSUME NEW n \in Nat, n <= MaxBatchSize
    PROVE  BucketFor(n) \in BatchSizes /\ BucketFor(n) \in Nat /\ BucketFor(n) >= n
<1>1. BatchSizes \in SUBSET Nat /\ BatchSizes # {} /\ IsFiniteSet(BatchSizes)
  BY RunnerAssumption
<1>2. Max(BatchSizes) \in BatchSizes /\ \A c \in BatchSizes : c <= Max(BatchSizes)
  <2>1. Max(BatchSizes) \in BatchSizes /\ \A c \in BatchSizes : Max(BatchSizes) >= c
    BY <1>1, MaxOfFinite
  <2>2. PICK b \in Nat : b = Max(BatchSizes)
    BY <1>1, <2>1
  <2> QED BY <1>1, <2>1, <2>2
<1>3. PICK m \in BatchSizes : m = MaxBatchSize
  BY <1>2 DEF MaxBatchSize
<1>4. \E b \in BatchSizes : b >= n /\ \A c \in BatchSizes : c >= n => b <= c
  <2>1. n <= m
    BY <1>3
  <2> QED BY <1>1, <2>1, LeastFrom
<1>5. BucketFor(n) \in BatchSizes /\ BucketFor(n) >= n
  BY <1>4 DEF BucketFor
<1> QED BY <1>1, <1>5

\* Rows that are staged for a replay, with the dummies that were there or are restored.
LEMMA StagedAs ==
    ASSUME NEW rows, RowsFit(rows), DummiesStaged, kernel = "cuda_graph",
           NEW b \in BatchSizes, Len(rows) <= b
    PROVE  GivenAs(Staged(b, rows), rows, b)
<1>1. rows \in Seq(DecodeRows) /\ b \in Nat
  BY RunnerAssumption DEF RowsFit
<1>2. PICK n \in Nat : n = Len(rows)
  BY <1>1
<1>3. PICK staged : staged = Staged(b, rows)
  OBVIOUS
<1>4. DOMAIN staged = 1 .. b
  BY <1>3 DEF Staged
<1>5. ASSUME NEW k \in 1 .. Len(rows)
      PROVE  /\ staged[k].token = rows[k].token
             /\ staged[k].position = rows[k].position
             /\ staged[k].length = rows[k].length
             /\ \A i \in 1 .. Len(rows[k].table) : staged[k].table[i] = rows[k].table[i]
  <2>1. rows[k] \in DecodeRows /\ k <= Len(rows) /\ k \in 1 .. b
    BY <1>1, <1>2
  <2>2. staged[k] = [rows[k] EXCEPT !.table = PadBlockTable(@, MaxPagesPerSeq)]
    BY <1>3, <2>1 DEF Staged
  <2>3. PICK padded : padded = PadBlockTable(rows[k].table, MaxPagesPerSeq)
    OBVIOUS
  <2>4. /\ staged[k].token = rows[k].token
        /\ staged[k].position = rows[k].position
        /\ staged[k].length = rows[k].length
        /\ staged[k].table = padded
    BY <2>1, <2>2, <2>3 DEF DecodeRows
  <2>5. rows[k].table \in Seq(Pages) /\ MaxPagesPerSeq \in Int
    BY RowParts, RunnerAssumption
  <2>6. \A i \in 1 .. Len(rows[k].table) : padded[i] = rows[k].table[i]
    BY <2>3, <2>5, PaddedTable
  <2> QED BY <2>4, <2>6
<1>6. ASSUME NEW k \in Len(rows) + 1 .. b
      PROVE  staged[k] = DummyRow
  <2>1. k \in 1 .. b /\ ~ (k <= Len(rows))
    BY <1>1, <1>2
  <2>2. staged[k] = Restored(b, k)
    BY <1>3, <2>1 DEF Staged
  <2>3. prevLive[b] \in Nat /\ \A i \in prevLive[b] + 1 .. b : host[b][i] = DummyRow
    BY DEF DummiesStaged, DummyRowsAreSafe
  <2>4. CASE k <= prevLive[b]
    BY <2>2, <2>4 DEF Restored
  <2>5. CASE ~ (k <= prevLive[b])
    <3>1. k \in prevLive[b] + 1 .. b
      BY <1>1, <2>1, <2>3, <2>5
    <3>2. host[b][k] = DummyRow
      BY <2>3, <3>1
    <3> QED BY <2>2, <2>5, <3>2 DEF Restored
  <2> QED BY <2>4, <2>5
<1> QED BY <1>3, <1>4, <1>5, <1>6 DEF GivenAs

\* The longest table of a batch has a length.
LEMMA MaxPagesIsLength ==
    ASSUME NEW rows, RowsFit(rows), rows # <<>>
    PROVE  MaxPages(rows) \in Nat
<1>1. PICK n \in Nat : n = Len(rows) /\ DOMAIN rows = 1 .. n /\ n # 0
  BY DEF RowsFit
<1>2. PICK f : f = [k \in 1 .. n |-> Len(rows[k].table)]
  OBVIOUS
<1>3. \A k \in 1 .. n : Len(rows[k].table) \in Nat
  <2>1. \A k \in 1 .. n : rows[k].table \in Seq(Pages)
    BY <1>1, RowParts
  <2> QED BY <2>1
<1>4. PICK S : S = {Len(rows[k].table) : k \in 1 .. n}
  OBVIOUS
<1>5. f \in Surjection(1 .. n, S)
  BY <1>2, <1>4 DEF Surjection
<1>6. IsFiniteSet(1 .. n)
  <2>1. 1 \in Int /\ n \in Int
    OBVIOUS
  <2> QED BY <2>1, FS_Interval
<1>7. IsFiniteSet(S)
  BY <1>5, <1>6, FS_Surjection
<1>8. S \in SUBSET Nat /\ S # {}
  <2>1. 1 \in 1 .. n
    BY <1>1
  <2> QED BY <1>3, <1>4, <2>1
<1>9. PICK m \in S : \A y \in S : m >= y
  BY <1>7, <1>8, MaxOfFinite
<1>10. m \in S /\ \A y \in S : y <= m
  BY <1>8, <1>9
<1>11. MaxOver(S) \in S
  BY <1>10 DEF MaxOver
<1>12. MaxPages(rows) = MaxOver(S)
  BY <1>1, <1>4 DEF MaxPages
<1> QED BY <1>8, <1>11, <1>12

\* Whichever kernel is taken, it appends the batch's entries and attends to each row's
\* positions (engine.py, batched_decode).
LEMMA ForwardAppends ==
    ASSUME NEW rows, RowsFit(rows), rows # <<>>, DummiesStaged
    PROVE  Appends(rows, Forward(rows))
<1>1. PICK n \in Nat : n = Len(rows) /\ DOMAIN rows = 1 .. n
  BY DEF RowsFit
<1>2. CASE UseGraph(rows)
  <2>1. kernel = "cuda_graph" /\ n <= MaxBatchSize
    BY <1>1, <1>2 DEF UseGraph, Covers
  <2>2. PICK b \in BatchSizes : b = BucketFor(n) /\ b \in Nat /\ b >= n
    BY <2>1, BucketHolds
  <2>3. n <= b
    BY <2>2
  <2>4. GivenAs(Staged(b, rows), rows, b)
    BY <1>1, <2>1, <2>3, StagedAs
  <2>5. Appends(rows, FlashAttention(Staged(b, rows)))
    BY <1>1, <2>2, <2>3, <2>4, FlashAppends
  <2>6. Forward(rows) = FlashAttention(Staged(b, rows))
    <3>1. Replay(rows) = FlashAttention(Staged(b, rows))
      BY <1>1, <2>2 DEF Replay
    <3>2. kernel # "flashinfer"
      BY <2>1
    <3>3. Forward(rows) = Replay(rows)
      BY <1>2, <3>2 DEF Forward
    <3> QED BY <3>1, <3>3
  <2> QED BY <2>5, <2>6
<1>3. CASE ~ UseGraph(rows) /\ kernel = "flashinfer"
  <2>1. Forward(rows) = AttendAndAppend(rows)
    BY <1>3 DEF Forward
  <2> QED BY <2>1, FlashInferAppends
<1>4. CASE ~ UseGraph(rows) /\ kernel # "flashinfer"
  <2>1. PICK m \in Nat : m = MaxPages(rows)
    BY MaxPagesIsLength
  <2>2. PICK padded : padded = [k \in DOMAIN rows |->
                                  [rows[k] EXCEPT !.table = PadBlockTable(@, m)]]
    OBVIOUS
  <2>3. Forward(rows) = FlashAttention(padded)
    BY <1>4, <2>1, <2>2 DEF Forward
  <2>4. ASSUME NEW k \in 1 .. Len(rows)
        PROVE  /\ padded[k].token = rows[k].token
               /\ padded[k].position = rows[k].position
               /\ padded[k].length = rows[k].length
               /\ \A i \in 1 .. Len(rows[k].table) : padded[k].table[i] = rows[k].table[i]
    <3>1. rows[k] \in DecodeRows /\ k \in DOMAIN rows
      BY <1>1 DEF RowsFit
    <3>2. PICK own : own = PadBlockTable(rows[k].table, m)
      OBVIOUS
    <3>3. padded[k] = [rows[k] EXCEPT !.table = own]
      BY <2>2, <3>1, <3>2
    <3>4. /\ padded[k].token = rows[k].token
          /\ padded[k].position = rows[k].position
          /\ padded[k].length = rows[k].length
          /\ padded[k].table = own
      BY <3>1, <3>3 DEF DecodeRows
    <3>5. \A i \in 1 .. Len(rows[k].table) : own[i] = rows[k].table[i]
      <4>1. rows[k].table \in Seq(Pages) /\ m \in Int
        BY RowParts
      <4> QED BY <3>2, <4>1, PaddedTable
    <3> QED BY <3>4, <3>5
  <2>5. DOMAIN padded = 1 .. n /\ Len(rows) <= n /\ Len(rows) + 1 .. n = {}
    BY <1>1, <2>2
  <2>6. GivenAs(padded, rows, n)
    BY <2>4, <2>5 DEF GivenAs
  <2> QED BY <2>3, <2>5, <2>6, FlashAppends
<1> QED BY <1>2, <1>3, <1>4

----------------------------------------------------------------------------
\* The order of the rows.

\* lpt_reorder sorts the rows: every request of the batch has one row, and the inverse
\* finds it (engine.py, batched_decode).
LEMMA LptOrderPermutes ==
    ASSUME NEW n \in Nat, NEW lens \in [1 .. n -> Nat]
    PROVE  LptOrder(lens) \in [1 .. n -> 1 .. n] /\ IsInjective(LptOrder(lens))
<1> DEFINE before(i, j) == lens[i] > lens[j] \/ (lens[i] = lens[j] /\ i < j)
           I == 1 .. n
           R == {p \in I \X I : before(p[1], p[2])}
<1>1. \A i, j \in I : <<i, j>> \in R <=> before(i, j)
  OBVIOUS
<1>2. StrictOrder(R, I)
  <2>1. \A i \in I : ~ before(i, i)
    OBVIOUS
  <2>2. \A i, j, k \in I : before(i, j) /\ before(j, k) => before(i, k)
    OBVIOUS
  <2>3. \A i, j \in I : i # j => before(i, j) \/ before(j, i)
    OBVIOUS
  <2> HIDE DEF R, before, I
  <2> QED BY <1>1, <2>1, <2>2, <2>3 DEF StrictOrder
<1>3. \E order \in [I -> I] : \A j, k \in I : j < k => <<order[j], order[k]>> \in R
  <2> HIDE DEF R
  <2> QED BY <1>2, OrderExists
<1>4. \E order \in [I -> I] : \A j, k \in I : j < k => before(order[j], order[k])
  <2>1. PICK order \in [I -> I] : \A j, k \in I : j < k => <<order[j], order[k]>> \in R
    BY <1>3
  <2>2. \A j, k \in I : j < k => before(order[j], order[k])
    <3>1. \A k \in I : order[k] \in I
      BY <2>1
    <3> HIDE DEF R, before, I
    <3> QED BY <1>1, <2>1, <3>1
  <2> HIDE DEF R, before, I
  <2> QED BY <2>1, <2>2
<1>5. LptOrder(lens) = CHOOSE order \in [I -> I] :
                          \A j, k \in I : j < k => before(order[j], order[k])
  <2>1. DOMAIN lens = I
    OBVIOUS
  <2> QED BY <2>1, Zenon DEF LptOrder
<1>6. PICK order \in [I -> I] : /\ order = LptOrder(lens)
                                /\ \A j, k \in I : j < k => before(order[j], order[k])
  <2> HIDE DEF before, I
  <2> QED BY <1>4, <1>5
<1>7. ASSUME NEW j \in I, NEW k \in I, j # k PROVE order[j] # order[k]
  <2>1. j < k \/ k < j
    BY <1>7
  <2>2. order[j] \in I /\ order[k] \in I
    OBVIOUS
  <2>3. before(order[j], order[k]) \/ before(order[k], order[j])
    <3> HIDE DEF before
    <3> QED BY <1>6, <2>1
  <2>4. ~ before(order[k], order[k])
    <3>1. lens[order[k]] \in Nat /\ order[k] \in Nat
      BY <2>2
    <3> QED BY <3>1
  <2> HIDE DEF before
  <2> QED BY <2>3, <2>4
<1> QED BY <1>6, <1>7 DEF IsInjective

\* The same without lpt_reorder, where the rows keep the order of the batch.
LEMMA OrderPermutes ==
    ASSUME NEW rs \in Seq(Requests), numInput \in [Requests -> Nat],
           numOutput \in [Requests -> Nat]
    PROVE  /\ RowOrder(rs) \in [DOMAIN rs -> DOMAIN rs] /\ IsInjective(RowOrder(rs))
           /\ \A i \in DOMAIN rs : /\ InverseOrder(RowOrder(rs))[i] \in DOMAIN rs
                                   /\ RowOrder(rs)[InverseOrder(RowOrder(rs))[i]] = i
<1>1. PICK n \in Nat : n = Len(rs) /\ DOMAIN rs = 1 .. n
  OBVIOUS
<1>2. PICK order : order = RowOrder(rs)
  OBVIOUS
<1>3. order \in [1 .. n -> 1 .. n] /\ IsInjective(order)
  <2>1. CASE lptReorder
    <3>1. PICK lens : lens = [i \in DOMAIN rs |-> KvLength(rs[i])]
      OBVIOUS
    <3>2. \A r \in Requests : KvLength(r) \in Nat
      BY DEF KvLength
    <3>3. lens \in [1 .. n -> Nat]
      BY <1>1, <3>1, <3>2
    <3>4. order = LptOrder(lens)
      BY <1>2, <2>1, <3>1 DEF RowOrder
    <3> QED BY <3>3, <3>4, LptOrderPermutes
  <2>2. CASE ~ lptReorder
    <3>1. order = [i \in 1 .. n |-> i]
      BY <1>1, <1>2, <2>2 DEF RowOrder
    <3> QED BY <3>1 DEF IsInjective
  <2> QED BY <2>1, <2>2
<1>4. \A i \in 1 .. n : \E k \in 1 .. n : order[k] = i
  <2>1. order \in Injection(1 .. n, 1 .. n)
    BY <1>3 DEF Injection
  <2>2. IsFiniteSet(1 .. n)
    <3>1. 1 \in Int /\ n \in Int
      OBVIOUS
    <3> QED BY <3>1, FS_Interval
  <2>3. order \in Surjection(1 .. n, 1 .. n)
    BY <2>1, <2>2, FS_Injection
  <2> QED BY <2>3 DEF Surjection
<1>5. ASSUME NEW i \in 1 .. n
      PROVE  InverseOrder(order)[i] \in 1 .. n /\ order[InverseOrder(order)[i]] = i
  <2>1. DOMAIN order = 1 .. n
    BY <1>3
  <2>2. InverseOrder(order)[i] = CHOOSE k \in 1 .. n : order[k] = i
    BY <2>1 DEF InverseOrder
  <2> QED BY <1>4, <2>2
<1> QED BY <1>1, <1>2, <1>3, <1>5

----------------------------------------------------------------------------
\* The inductive invariant.

EngineTypes ==
    /\ kernel \in {"flash_attn", "cuda_graph", "flashinfer"} /\ lptReorder \in BOOLEAN
    /\ numInput \in [Requests -> Nat]
    /\ numOutput \in [Requests -> Nat]
    /\ maxNew \in [Requests -> Nat]
    /\ kv \in [Requests -> Seq(Pages)]
    /\ waiting \in Seq(Requests) /\ toPrefill \in Seq(Requests) /\ running \in Seq(Requests)

\* What the list a request is in says about it.
Queued(r)   == numOutput[r] = 0 /\ maxNew[r] > 0 /\ kv[r] = <<>>
Admitted(r) == numOutput[r] = 0 /\ maxNew[r] > 0 /\ Len(kv[r]) = Needed(r)
Decoding(r) == numOutput[r] > 0 /\ numOutput[r] <= maxNew[r] /\ Len(kv[r]) = Needed(r)

\* A request whose prefill raised is in no list.
Lists ==
    /\ IsInjective(waiting) /\ IsInjective(toPrefill) /\ IsInjective(running)
    /\ Range(waiting) \cap Range(toPrefill) = {}
    /\ Range(waiting) \cap Range(running) = {}
    /\ Range(toPrefill) \cap Range(running) = {}
    /\ \A r \in Range(waiting) : Queued(r)
    /\ \A r \in Range(toPrefill) : Admitted(r)
    /\ \A r \in Range(running) : Decoding(r)

\* Every page has one holder: a request, the free list or the runner.
Holdings ==
    /\ PoolTypeOK
    /\ IsInjective(free)
    /\ \A r \in Requests : /\ IsInjective(kv[r])
                           /\ Range(kv[r]) \cap Range(free) = {}
                           /\ \A p \in Range(kv[r]) : refcount[p] = 1
    /\ \A r, s \in Requests : r # s => Range(kv[r]) \cap Range(kv[s]) = {}
    /\ kernel = "cuda_graph" => /\ ScratchPage \notin Range(free)
                                /\ \A r \in Requests : ScratchPage \notin Range(kv[r])

\* The pages of a running request hold its sequence without the last token.
Stored == \A r \in Range(running) :
             ReadPrefix(mem, kv[r], KvLength(r)) = SequenceOf(r, KvLength(r))

EInv == EngineTypes /\ Lists /\ Holdings /\ Stored /\ DummiesStaged

----------------------------------------------------------------------------
\* The rows of a decode step.

\* A running request that has a token to go has room for it.
LEMMA DecodingHasRoom ==
    ASSUME EngineTypes, Lists, NEW r \in Range(running), Unfinished(r)
    PROVE  /\ r \in Requests /\ kv[r] \in Seq(Pages)
           /\ KvLength(r) \in Nat /\ KvLength(r) + 1 = numInput[r] + numOutput[r]
           /\ numInput[r] + numOutput[r] - 1 = KvLength(r)
           /\ PagesNeeded(KvLength(r) + 1) <= Len(kv[r])
<1>1. r \in Requests
  BY RangeType DEF EngineTypes
<1>2. PICK i \in Nat, o \in Nat, m \in Nat :
         i = numInput[r] /\ o = numOutput[r] /\ m = maxNew[r]
  BY <1>1 DEF EngineTypes
<1>3. o > 0 /\ o < m /\ Len(kv[r]) = PagesNeeded(i + m)
  BY <1>2 DEF Lists, Decoding, Unfinished, Needed
<1>4. KvLength(r) = i + (o - 1)
  BY <1>2, <1>3 DEF KvLength
<1>5. PagesNeeded(i + o) <= PagesNeeded(i + m)
  <2>1. i + o \in Nat /\ i + m \in Nat /\ i + o <= i + m
    BY <1>3
  <2> QED BY <2>1, NeededMonotone
<1>6. i + (o - 1) \in Nat /\ i + (o - 1) + 1 = i + o /\ i + o - 1 = i + (o - 1)
  BY <1>3
<1>7. kv[r] \in Seq(Pages)
  BY <1>1 DEF EngineTypes
<1> QED BY <1>1, <1>2, <1>3, <1>4, <1>5, <1>6, <1>7

\* And what is stored of a running request is within its pages anyway.
LEMMA StoredHasRoom ==
    ASSUME EngineTypes, Lists, NEW r \in Range(running)
    PROVE  /\ r \in Requests /\ kv[r] \in Seq(Pages) /\ KvLength(r) \in Nat
           /\ PagesNeeded(KvLength(r)) <= Len(kv[r])
<1>1. r \in Requests
  BY RangeType DEF EngineTypes
<1>2. PICK i \in Nat, o \in Nat, m \in Nat :
         i = numInput[r] /\ o = numOutput[r] /\ m = maxNew[r]
  BY <1>1 DEF EngineTypes
<1>3. o > 0 /\ o <= m /\ Len(kv[r]) = PagesNeeded(i + m)
  BY <1>2 DEF Lists, Decoding, Needed
<1>4. KvLength(r) = i + (o - 1)
  BY <1>2, <1>3 DEF KvLength
<1>5. i + (o - 1) \in Nat /\ i + m \in Nat /\ i + (o - 1) <= i + m
  BY <1>3
<1>6. PagesNeeded(i + (o - 1)) <= PagesNeeded(i + m)
  BY <1>5, NeededMonotone
<1>7. kv[r] \in Seq(Pages)
  BY <1>1 DEF EngineTypes
<1> QED BY <1>1, <1>3, <1>4, <1>5, <1>6, <1>7

\* The request of row k.
RowRequest(k) == running[RowOrder(running)[k]]

\* The rows of a decode fit, and row k is that of its request.
LEMMA RowsOfRunning ==
    ASSUME EngineTypes, Lists, Holdings, CanDecode
    PROVE  /\ RowsFit(Rows(running)) /\ Rows(running) # <<>>
           /\ Len(Rows(running)) = Len(running)
           /\ \A k \in 1 .. Len(running) :
                 /\ RowRequest(k) \in Range(running)
                 /\ Rows(running)[k] =
                       DecodeRow(<<RowRequest(k), KvLength(RowRequest(k))>>,
                                 KvLength(RowRequest(k)), kv[RowRequest(k)])
<1>1. running \in Seq(Requests) /\ IsInjective(running) /\ running # <<>>
  BY DEF EngineTypes, Lists, CanDecode
<1>2. PICK n \in Nat : n = Len(running) /\ DOMAIN running = 1 .. n /\ n # 0
  BY <1>1
<1>3. PICK order : order = RowOrder(running)
  OBVIOUS
<1>4. order \in [1 .. n -> 1 .. n] /\ IsInjective(order)
  BY <1>1, <1>2, <1>3, OrderPermutes DEF EngineTypes
<1>5. ASSUME NEW k \in 1 .. n
      PROVE  /\ running[order[k]] \in Range(running)
             /\ \A j \in 1 .. n : j # k => running[order[j]] # running[order[k]]
  <2>1. order[k] \in 1 .. n /\ \A j \in 1 .. n : j # k => order[j] # order[k]
    BY <1>4 DEF IsInjective
  <2>2. running[order[k]] \in Range(running)
    BY <1>1, <1>2, <2>1, RangeType
  <2>3. \A j \in 1 .. n : order[j] \in 1 .. n
    BY <1>4
  <2> QED BY <1>1, <1>2, <2>1, <2>2, <2>3 DEF IsInjective
<1>6. PICK rows : rows = Rows(running)
  OBVIOUS
<1>7. ASSUME NEW k \in 1 .. n
      PROVE  /\ RowRequest(k) \in Range(running)
             /\ rows[k] = DecodeRow(<<RowRequest(k), KvLength(RowRequest(k))>>,
                                    KvLength(RowRequest(k)), kv[RowRequest(k)])
  <2>1. PICK r \in Range(running) : r = running[order[k]] /\ r = RowRequest(k)
    BY <1>3, <1>5 DEF RowRequest
  <2>2. Unfinished(r)
    BY DEF CanDecode
  <2>3. numInput[r] + numOutput[r] - 1 = KvLength(r)
    BY <2>2, DecodingHasRoom
  <2>4. rows[k] = DecodeRow(<<r, numInput[r] + numOutput[r] - 1>>, KvLength(r), kv[r])
    BY <1>2, <1>3, <1>6, <2>1 DEF Rows
  <2> QED BY <2>1, <2>3, <2>4
<1>8. ASSUME NEW k \in 1 .. n
      PROVE  /\ rows[k] \in DecodeRows
             /\ rows[k].table = kv[RowRequest(k)] /\ rows[k].length = KvLength(RowRequest(k))
             /\ IsInjective(rows[k].table)
             /\ PagesNeeded(rows[k].length + 1) <= Len(rows[k].table)
             /\ kernel = "cuda_graph" => ScratchPage \notin Range(rows[k].table)
  <2>1. PICK r \in Range(running) : r = RowRequest(k)
    BY <1>7
  <2>2. rows[k] = DecodeRow(<<r, KvLength(r)>>, KvLength(r), kv[r])
    BY <1>7, <2>1
  <2>3. Unfinished(r)
    BY DEF CanDecode
  <2>4. /\ r \in Requests /\ kv[r] \in Seq(Pages) /\ KvLength(r) \in Nat
        /\ PagesNeeded(KvLength(r) + 1) <= Len(kv[r])
    BY <2>3, DecodingHasRoom
  <2>5. rows[k] \in DecodeRows /\ rows[k].table = kv[r] /\ rows[k].length = KvLength(r)
    BY <2>2, <2>4 DEF DecodeRow, DecodeRows
  <2>6. IsInjective(kv[r]) /\ (kernel = "cuda_graph" => ScratchPage \notin Range(kv[r]))
    BY <2>4 DEF Holdings
  <2> QED BY <2>1, <2>4, <2>5, <2>6
<1>9. DOMAIN rows = 1 .. n /\ rows \in Seq(DecodeRows) /\ Len(rows) = n /\ rows # <<>>
  <2>1. rows = [k \in 1 .. n |-> rows[k]]
    BY <1>2, <1>6 DEF Rows
  <2>2. \A k \in 1 .. n : rows[k] \in DecodeRows
    BY <1>8
  <2>3. rows \in [1 .. n -> DecodeRows]
    BY <2>1, <2>2
  <2>4. rows \in Seq(DecodeRows) /\ Len(rows) = n
    BY <2>3
  <2> QED BY <1>2, <2>3, <2>4
<1>10. ASSUME NEW j \in 1 .. n, NEW k \in 1 .. n, j # k
       PROVE  Range(rows[j].table) \cap Range(rows[k].table) = {}
  <2>1. RowRequest(j) # RowRequest(k)
    BY <1>3, <1>5, <1>10 DEF RowRequest
  <2>2. RowRequest(j) \in Requests /\ RowRequest(k) \in Requests
    BY <1>1, <1>7, RangeType
  <2>3. rows[j].table = kv[RowRequest(j)] /\ rows[k].table = kv[RowRequest(k)]
    BY <1>8
  <2> QED BY <2>1, <2>2, <2>3 DEF Holdings
<1>11. RowsFit(rows)
  BY <1>8, <1>9, <1>10 DEF RowsFit
<1> QED BY <1>2, <1>6, <1>7, <1>9, <1>11

----------------------------------------------------------------------------
\* What the calls of the engine do to the pages.

\* As long as no slot of a request's pages changes, it reads the same.
LEMMA OtherPagesKept ==
    ASSUME NEW r, NEW n \in Nat, NEW m, kv[r] \in Seq(Pages), PagesNeeded(n) <= Len(kv[r]),
           \A s \in Slots : s \div PageSize \in Range(kv[r]) => m[s] = mem[s]
    PROVE  ReadPrefix(m, kv[r], n) = ReadPrefix(mem, kv[r], n)
<1>1. ASSUME NEW t \in 1 .. n PROVE m[Slot(kv[r], t - 1)] = mem[Slot(kv[r], t - 1)]
  <2>1. t - 1 \in Nat /\ t - 1 < n
    OBVIOUS
  <2>2. PICK s \in Slots : s = Slot(kv[r], t - 1) /\ s \div PageSize \in Range(kv[r])
    BY <2>1, SlotOfPosition
  <2>3. m[s] = mem[s]
    BY <2>2
  <2> QED BY <2>2, <2>3
<1> QED BY <1>1 DEF ReadPrefix

\* A decode: every running request's pages hold its whole sequence after it, and its
\* token is computed from that, whatever row it was in.
LEMMA DecodeForward ==
    ASSUME EInv, CanDecode, NEW result, result = Forward(Rows(running))
    PROVE  /\ \A r \in Range(running) :
                 /\ ReadPrefix(result.mem, kv[r], KvLength(r)) = SequenceOf(r, KvLength(r))
                 /\ ReadPrefix(result.mem, kv[r], KvLength(r) + 1)
                       = SequenceOf(r, KvLength(r) + 1)
           /\ \A i \in DOMAIN running :
                 result.seen[InverseOrder(RowOrder(running))[i]]
                    = SequenceOf(running[i], KvLength(running[i]) + 1)
           /\ \A s \in Slots :
                 result.mem[s] # mem[s] =>
                    \/ \E r \in Range(running) :
                          /\ s = Slot(kv[r], KvLength(r))
                          /\ s \div PageSize \in Range(kv[r])
                          /\ result.mem[s] = Entry(<<r, KvLength(r)>>, KvLength(r))
                    \/ kernel = "cuda_graph" /\ s \div PageSize = ScratchPage
<1>1. EngineTypes /\ Lists /\ Holdings /\ Stored /\ DummiesStaged
  BY DEF EInv
<1>2. PICK rows : rows = Rows(running)
  OBVIOUS
<1>3. /\ RowsFit(rows) /\ rows # <<>> /\ Len(rows) = Len(running)
      /\ \A k \in 1 .. Len(running) :
            /\ RowRequest(k) \in Range(running)
            /\ rows[k] = DecodeRow(<<RowRequest(k), KvLength(RowRequest(k))>>,
                                   KvLength(RowRequest(k)), kv[RowRequest(k)])
  BY <1>1, <1>2, RowsOfRunning
<1>4. PICK n \in Nat : n = Len(running) /\ DOMAIN running = 1 .. n /\ n = Len(rows)
  BY <1>1, <1>3 DEF EngineTypes
<1>5. Appended(rows, result.mem)
      /\ \A k \in 1 .. n :
            result.seen[k] = ReadPrefix(result.mem, rows[k].table, rows[k].length + 1)
  BY <1>1, <1>2, <1>3, <1>4, ForwardAppends DEF Appends
<1>6. ASSUME NEW i \in 1 .. n
      PROVE  /\ InverseOrder(RowOrder(running))[i] \in 1 .. n
             /\ RowRequest(InverseOrder(RowOrder(running))[i]) = running[i]
  <2>1. /\ InverseOrder(RowOrder(running))[i] \in DOMAIN running
        /\ RowOrder(running)[InverseOrder(RowOrder(running))[i]] = i
    BY <1>1, <1>4, OrderPermutes DEF EngineTypes
  <2> QED BY <1>4, <2>1 DEF RowRequest
<1>7. ASSUME NEW k \in 1 .. n, NEW r, r = RowRequest(k)
      PROVE  /\ r \in Range(running)
             /\ rows[k].token = <<r, KvLength(r)>> /\ rows[k].position = KvLength(r)
             /\ rows[k].length = KvLength(r) /\ rows[k].table = kv[r]
             /\ KvLength(r) \in Nat
  <2>1. r \in Range(running)
        /\ rows[k] = DecodeRow(<<r, KvLength(r)>>, KvLength(r), kv[r])
    BY <1>3, <1>4, <1>7
  <2>2. KvLength(r) \in Nat
    BY <1>1, <2>1, DecodingHasRoom DEF CanDecode
  <2> QED BY <2>1, <2>2 DEF DecodeRow
<1>8. ASSUME NEW k \in 1 .. n, NEW r, r = RowRequest(k)
      PROVE  /\ ReadPrefix(result.mem, kv[r], KvLength(r)) = SequenceOf(r, KvLength(r))
             /\ ReadPrefix(result.mem, kv[r], KvLength(r) + 1)
                   = SequenceOf(r, KvLength(r) + 1)
  <2>1. PICK l \in Nat : l = KvLength(r)
    BY <1>7, <1>8
  <2>2. r \in Range(running) /\ rows[k].length = l /\ rows[k].table = kv[r]
    BY <1>7, <1>8, <2>1
  <2>3. ReadPrefix(mem, kv[r], l) = SequenceOf(r, l)
    BY <1>1, <2>1, <2>2 DEF Stored
  <2>4. \A t \in Nat : t < l => result.mem[Slot(kv[r], t)] = mem[Slot(kv[r], t)]
    BY <1>4, <1>5, <2>2 DEF Appended
  <2>5. result.mem[Slot(kv[r], l)] = Entry(<<r, l>>, l)
    <3>1. result.mem[Slot(rows[k].table, rows[k].length)]
             = Entry(rows[k].token, rows[k].position)
      BY <1>4, <1>5 DEF Appended
    <3>2. rows[k].token = <<r, l>> /\ rows[k].position = l
      BY <1>7, <1>8, <2>1
    <3> QED BY <2>2, <3>1, <3>2
  <2>6. ASSUME NEW t \in 1 .. l PROVE result.mem[Slot(kv[r], t - 1)] = Entry(<<r, t - 1>>, t - 1)
    <3>1. t - 1 \in Nat /\ t - 1 < l
      OBVIOUS
    <3>2. mem[Slot(kv[r], t - 1)] = Entry(<<r, t - 1>>, t - 1)
      <4>1. ReadPrefix(mem, kv[r], l)[t] = mem[Slot(kv[r], t - 1)]
        BY DEF ReadPrefix
      <4>2. SequenceOf(r, l)[t] = Entry(<<r, t - 1>>, t - 1)
        BY DEF SequenceOf
      <4> QED BY <2>3, <4>1, <4>2
    <3> QED BY <2>4, <3>1, <3>2
  <2>7. ReadPrefix(result.mem, kv[r], l) = SequenceOf(r, l)
    BY <2>6 DEF ReadPrefix, SequenceOf
  <2>8. ASSUME NEW t \in 1 .. l + 1
        PROVE  result.mem[Slot(kv[r], t - 1)] = Entry(<<r, t - 1>>, t - 1)
    <3>1. CASE t = l + 1
      <4>1. t - 1 = l
        BY <3>1
      <4> QED BY <2>5, <4>1
    <3>2. CASE t # l + 1
      <4>1. t \in 1 .. l
        BY <3>2
      <4> QED BY <2>6, <4>1
    <3> QED BY <3>1, <3>2
  <2>9. ReadPrefix(result.mem, kv[r], l + 1) = SequenceOf(r, l + 1)
    BY <2>8 DEF ReadPrefix, SequenceOf
  <2> QED BY <2>1, <2>7, <2>9
<1>9. ASSUME NEW r \in Range(running) PROVE \E k \in 1 .. n : r = RowRequest(k)
  <2>1. PICK i \in 1 .. n : running[i] = r
    BY <1>4 DEF Range
  <2> QED BY <1>6, <2>1
<1>10. ASSUME NEW i \in 1 .. n
       PROVE  result.seen[InverseOrder(RowOrder(running))[i]]
                 = SequenceOf(running[i], KvLength(running[i]) + 1)
  <2>1. PICK k \in 1 .. n : k = InverseOrder(RowOrder(running))[i] /\ RowRequest(k) = running[i]
    BY <1>6
  <2>2. PICK r : r = RowRequest(k)
    OBVIOUS
  <2>3. rows[k].table = kv[r] /\ rows[k].length = KvLength(r)
    BY <1>7, <2>2
  <2>4. result.seen[k] = ReadPrefix(result.mem, kv[r], KvLength(r) + 1)
    BY <1>5, <2>3
  <2>5. ReadPrefix(result.mem, kv[r], KvLength(r) + 1) = SequenceOf(r, KvLength(r) + 1)
    BY <1>8, <2>2
  <2> QED BY <2>1, <2>2, <2>4, <2>5
<1>11. ASSUME NEW s \in Slots, result.mem[s] # mem[s]
       PROVE  \/ \E r \in Range(running) :
                    /\ s = Slot(kv[r], KvLength(r))
                    /\ s \div PageSize \in Range(kv[r])
                    /\ result.mem[s] = Entry(<<r, KvLength(r)>>, KvLength(r))
              \/ kernel = "cuda_graph" /\ s \div PageSize = ScratchPage
  <2>1. CASE \E k \in 1 .. n : s = Slot(rows[k].table, rows[k].length)
    <3>1. PICK k \in 1 .. n : s = Slot(rows[k].table, rows[k].length)
      BY <2>1
    <3>2. PICK r : r = RowRequest(k)
      OBVIOUS
    <3>3. PICK l \in Nat : l = KvLength(r)
      BY <1>7, <3>2
    <3>4. /\ r \in Range(running) /\ rows[k].table = kv[r] /\ rows[k].length = l
          /\ rows[k].token = <<r, l>> /\ rows[k].position = l
      BY <1>7, <3>2, <3>3
    <3>5. s = Slot(kv[r], l)
      BY <3>1, <3>4
    <3>6. s \div PageSize \in Range(kv[r])
      <4>1. k \in 1 .. Len(rows) /\ l <= rows[k].length
        BY <1>4, <3>4
      <4>2. Slot(rows[k].table, l) \div PageSize \in Range(rows[k].table)
        BY <1>3, <4>1, SlotOfRow
      <4> QED BY <3>4, <3>5, <4>2
    <3>7. result.mem[s] = Entry(<<r, l>>, l)
      <4>1. result.mem[Slot(rows[k].table, rows[k].length)]
               = Entry(rows[k].token, rows[k].position)
        BY <1>4, <1>5 DEF Appended
      <4> QED BY <3>1, <3>4, <4>1
    <3> QED BY <3>3, <3>4, <3>5, <3>6, <3>7
  <2>2. CASE kernel = "cuda_graph" /\ s \div PageSize = ScratchPage
    BY <2>2
  <2>3. \/ \E k \in 1 .. n : s = Slot(rows[k].table, rows[k].length)
        \/ kernel = "cuda_graph" /\ s \div PageSize = ScratchPage
    BY <1>4, <1>5, <1>11 DEF Appended
  <2> QED BY <2>1, <2>2, <2>3
<1>12. \A r \in Range(running) :
          /\ ReadPrefix(result.mem, kv[r], KvLength(r)) = SequenceOf(r, KvLength(r))
          /\ ReadPrefix(result.mem, kv[r], KvLength(r) + 1) = SequenceOf(r, KvLength(r) + 1)
  BY <1>8, <1>9
<1> QED BY <1>4, <1>10, <1>11, <1>12

\* Staging a batch leaves dummies behind its live rows.
LEMMA StagingKeepsDummies ==
    ASSUME DummiesStaged, NEW rows, RowsFit(rows), StageIfGraph(rows)
    PROVE  DummiesStaged'
<1>1. CASE ~ UseGraph(rows)
  BY <1>1 DEF StageIfGraph, runnerVars, DummiesStaged, DummyRowsAreSafe
<1>2. CASE UseGraph(rows)
  <2>1. PICK n \in Nat : n = Len(rows)
    BY DEF RowsFit
  <2>2. kernel = "cuda_graph" /\ n <= MaxBatchSize
    BY <1>2, <2>1 DEF UseGraph, Covers
  <2>3. PICK b \in BatchSizes : b = BucketFor(n) /\ b \in Nat /\ b >= n
    BY <2>2, BucketHolds
  <2>4. n <= b
    BY <2>3
  <2>5. PICK staged : staged = Staged(b, rows)
    OBVIOUS
  <2>6. /\ host' = [host EXCEPT ![b] = staged]
        /\ prevLive' = [prevLive EXCEPT ![b] = n]
    BY <1>2, <2>1, <2>3, <2>5 DEF StageIfGraph, Stage
  <2>7. GivenAs(staged, rows, b)
    BY <2>1, <2>2, <2>4, <2>5, StagedAs
  <2>8. DOMAIN host = BatchSizes /\ prevLive \in [BatchSizes -> Nat]
    BY DEF DummiesStaged
  <2>9. DOMAIN host' = BatchSizes /\ prevLive' \in [BatchSizes -> Nat]
    BY <2>6, <2>8
  <2>10. ASSUME NEW c \in BatchSizes, NEW k \in prevLive'[c] + 1 .. c
         PROVE  host'[c][k] = DummyRow
    <3>1. CASE c = b
      <4>1. host'[c] = staged /\ prevLive'[c] = n
        BY <2>6, <2>8, <3>1
      <4>2. k \in n + 1 .. b
        BY <2>10, <3>1, <4>1
      <4>3. staged[k] = DummyRow
        BY <2>1, <2>7, <4>2 DEF GivenAs
      <4> QED BY <4>1, <4>3
    <3>2. CASE c # b
      <4>1. host'[c] = host[c] /\ prevLive'[c] = prevLive[c]
        BY <2>6, <2>8, <3>2
      <4>2. k \in prevLive[c] + 1 .. c
        BY <2>10, <4>1
      <4> QED BY <4>1, <4>2 DEF DummiesStaged, DummyRowsAreSafe
    <3> QED BY <3>1, <3>2
  <2>11. DummyRow' = DummyRow
    BY DEF DummyRow
  <2>12. DummyRowsAreSafe'
    BY <2>10, <2>11 DEF DummyRowsAreSafe
  <2> QED BY <2>9, <2>12 DEF DummiesStaged
<1> QED BY <1>1, <1>2

Entries == (Requests \X Nat) \X Nat

\* An admitted request has room for its prompt.
LEMMA AdmittedHasRoom ==
    ASSUME EngineTypes, Lists, NEW r \in Range(toPrefill)
    PROVE  /\ r \in Requests /\ kv[r] \in Seq(Pages)
           /\ numInput[r] \in Nat /\ numOutput[r] = 0 /\ maxNew[r] \in Nat
           /\ PagesNeeded(numInput[r]) <= Len(kv[r])
<1>1. r \in Requests
  BY RangeType DEF EngineTypes
<1>2. PICK i \in Nat, m \in Nat : i = numInput[r] /\ m = maxNew[r]
  BY <1>1 DEF EngineTypes
<1>3. Len(kv[r]) = PagesNeeded(i + m) /\ numOutput[r] = 0
  BY <1>2 DEF Lists, Admitted, Needed
<1>4. PagesNeeded(i) <= PagesNeeded(i + m)
  <2>1. i + m \in Nat /\ i <= i + m
    OBVIOUS
  <2> QED BY <2>1, NeededMonotone
<1>5. kv[r] \in Seq(Pages)
  BY <1>1 DEF EngineTypes
<1> QED BY <1>1, <1>2, <1>3, <1>4, <1>5

\* Position t of the i-th prompt of rs is at the same place, at[<<i, t>>], of the slots
\* and of the entries, and every place is such a position's.
PackedAt(at, rs, slots, entries) ==
    /\ \A i \in DOMAIN rs : \A t \in 1 .. numInput[rs[i]] :
          /\ at[<<i, t>>] \in DOMAIN slots
          /\ slots[at[<<i, t>>]] = Slot(kv[rs[i]], t - 1)
          /\ entries[at[<<i, t>>]] = Entry(<<rs[i], t - 1>>, t - 1)
    /\ \A j \in DOMAIN slots : \E i \in DOMAIN rs : \E t \in 1 .. numInput[rs[i]] :
          j = at[<<i, t>>]
    /\ DOMAIN slots \in SUBSET Nat

\* The arrays of a prefill are packed so, and cu_seqlens cuts each prompt out again.
LEMMA PrefillPacked ==
    ASSUME EngineTypes, Lists, toPrefill # <<>>
    PROVE  /\ \E at : PackedAt(at, toPrefill, PackedSlots(toPrefill), Packed(toPrefill))
           /\ \A i \in DOMAIN toPrefill :
                 PrefillSeen(toPrefill)[i] = SequenceOf(toPrefill[i], numInput[toPrefill[i]])
<1>1. PICK rs \in Seq(Requests) : rs = toPrefill /\ rs # <<>>
  BY DEF EngineTypes
<1>2. PICK n \in Nat : n = Len(rs) /\ DOMAIN rs = 1 .. n /\ n # 0
  BY <1>1
<1>3. ASSUME NEW i \in 1 .. n
      PROVE  /\ rs[i] \in Requests /\ kv[rs[i]] \in Seq(Pages) /\ numInput[rs[i]] \in Nat
             /\ PagesNeeded(numInput[rs[i]]) <= Len(kv[rs[i]])
  <2>1. rs[i] \in Range(toPrefill)
    BY <1>1, <1>2, RangeType
  <2> QED BY <2>1, AdmittedHasRoom
<1>4. PICK lens : lens = [i \in 1 .. n |-> numInput[rs[i]]]
  OBVIOUS
<1>5. lens \in Seq(Nat) /\ Len(lens) = n
  BY <1>3, <1>4
<1>6. PICK prompts : prompts = [i \in 1 .. n |-> SequenceOf(rs[i], numInput[rs[i]])]
  OBVIOUS
<1>7. PICK places : places = [i \in 1 .. n |-> SlotMapping(kv[rs[i]], 0, numInput[rs[i]])]
  OBVIOUS
<1>8. ASSUME NEW i \in 1 .. n
      PROVE  /\ prompts[i] \in Seq(Entries) /\ Len(prompts[i]) = lens[i]
             /\ places[i] \in Seq(Slots) /\ Len(places[i]) = lens[i]
             /\ \A t \in 1 .. lens[i] : /\ prompts[i][t] = Entry(<<rs[i], t - 1>>, t - 1)
                                        /\ places[i][t] = Slot(kv[rs[i]], t - 1)
  <2>1. PICK r \in Requests : r = rs[i] /\ kv[r] \in Seq(Pages)
                              /\ PagesNeeded(numInput[r]) <= Len(kv[r])
    BY <1>3
  <2>2. PICK l \in Nat : l = numInput[r] /\ lens[i] = l
    BY <1>3, <1>4, <2>1
  <2>3. prompts[i] = [t \in 1 .. l |-> Entry(<<r, t - 1>>, t - 1)]
    BY <1>6, <2>1, <2>2 DEF SequenceOf
  <2>4. \A t \in 1 .. l : Entry(<<r, t - 1>>, t - 1) \in Entries
    BY DEF Entry, Entries
  <2>5. prompts[i] \in Seq(Entries) /\ Len(prompts[i]) = l
    BY <2>3, <2>4
  <2>6. places[i] = [t \in 1 .. l |-> Slot(kv[r], 0 + t - 1)]
    BY <1>7, <2>1, <2>2 DEF SlotMapping
  <2>7. \A t \in 1 .. l : t - 1 \in Nat /\ t - 1 < l /\ 0 + t - 1 = t - 1
    OBVIOUS
  <2>8. \A t \in 1 .. l : Slot(kv[r], t - 1) \in Slots
    BY <2>1, <2>2, <2>7, SlotOfPosition
  <2>9. places[i] = [t \in 1 .. l |-> Slot(kv[r], t - 1)]
    BY <2>6, <2>7
  <2>10. places[i] \in Seq(Slots) /\ Len(places[i]) = l
    BY <2>8, <2>9
  <2> QED BY <2>1, <2>2, <2>3, <2>5, <2>9, <2>10
<1>9. /\ prompts \in Seq(Seq(Entries)) /\ Len(prompts) = n /\ prompts # <<>>
      /\ places \in Seq(Seq(Slots)) /\ Len(places) = n /\ places # <<>>
  <2>1. prompts \in [1 .. n -> Seq(Entries)] /\ places \in [1 .. n -> Seq(Slots)]
    BY <1>6, <1>7, <1>8
  <2>2. prompts \in Seq(Seq(Entries)) /\ Len(prompts) = n
    BY <2>1
  <2>3. places \in Seq(Seq(Slots)) /\ Len(places) = n
    BY <2>1
  <2> QED BY <1>2, <2>2, <2>3
<1>10. Lengths(lens, prompts) /\ Lengths(lens, places)
  BY <1>8, <1>9 DEF Lengths
<1>11. PICK slots \in Seq(Slots) : slots = PackedSlots(rs) /\ Packs(slots, places, lens)
  <2>1. PackedSlots(rs) = FlattenSeq(places)
    BY <1>2, <1>7 DEF PackedSlots
  <2>2. FlattenSeq(places) \in Seq(Slots) /\ Packs(FlattenSeq(places), places, lens)
    BY <1>5, <1>9, <1>10, PackedParts
  <2> QED BY <2>1, <2>2
<1>12. PICK entries \in Seq(Entries) : entries = Packed(rs) /\ Packs(entries, prompts, lens)
                                       /\ entries = FlattenSeq(prompts)
  <2>1. Packed(rs) = FlattenSeq(prompts)
    BY <1>2, <1>6 DEF Packed, SequenceOf
  <2>2. FlattenSeq(prompts) \in Seq(Entries) /\ Packs(FlattenSeq(prompts), prompts, lens)
    BY <1>5, <1>9, <1>10, PackedParts
  <2> QED BY <2>1, <2>2
<1>13. PICK at : at = [p \in (1 .. n) \X Nat |-> PrefixTotal(lens, p[1] - 1) + p[2]]
  OBVIOUS
<1>14. \A i \in 1 .. n : \A t \in 1 .. lens[i] : at[<<i, t>>] = PrefixTotal(lens, i - 1) + t
  <2>1. \A i \in 1 .. n : \A t \in 1 .. lens[i] : <<i, t>> \in (1 .. n) \X Nat
    OBVIOUS
  <2> QED BY <1>13, <2>1
<1>15. DOMAIN slots = 1 .. Len(slots)
  OBVIOUS
<1>16. ASSUME NEW i \in 1 .. n, NEW t \in 1 .. lens[i]
       PROVE  /\ at[<<i, t>>] \in DOMAIN slots
              /\ slots[at[<<i, t>>]] = Slot(kv[rs[i]], t - 1)
              /\ entries[at[<<i, t>>]] = Entry(<<rs[i], t - 1>>, t - 1)
  <2>1. PICK a : a = PrefixTotal(lens, i - 1) + t /\ a = at[<<i, t>>]
    BY <1>14
  <2>4. \A u \in 1 .. lens[i] : /\ PrefixTotal(lens, i - 1) + u \in 1 .. Len(slots)
                               /\ slots[PrefixTotal(lens, i - 1) + u] = places[i][u]
    BY <1>9, <1>11 DEF Packs
  <2>5. \A u \in 1 .. lens[i] : entries[PrefixTotal(lens, i - 1) + u] = prompts[i][u]
    BY <1>9, <1>12 DEF Packs
  <2>2. a \in 1 .. Len(slots) /\ slots[a] = places[i][t]
    BY <2>1, <2>4
  <2>3. entries[a] = prompts[i][t]
    BY <2>1, <2>5
  <2> QED BY <1>8, <1>15, <2>1, <2>2, <2>3
<1>17. ASSUME NEW j \in DOMAIN slots
       PROVE  \E i \in 1 .. n : \E t \in 1 .. lens[i] : j = at[<<i, t>>]
  <2>1. PICK i \in 1 .. n : \E t \in 1 .. lens[i] : j = PrefixTotal(lens, i - 1) + t
    BY <1>9, <1>11, <1>15 DEF Packs
  <2> QED BY <1>14, <2>1
<1>18. ASSUME NEW i \in 1 .. n
       PROVE  PrefillSeen(rs)[i] = SequenceOf(rs[i], numInput[rs[i]])
  <2>1. CuSeqlens(rs) = Offsets(lens)
    BY <1>2, <1>4 DEF CuSeqlens
  <2>2. PrefillSeen(rs)[i] = SubSeq(entries, Offsets(lens)[i] + 1, Offsets(lens)[i + 1])
    BY <1>2, <1>12, <2>1 DEF PrefillSeen
  <2>3. Len(lens) = Len(prompts) /\ i \in 1 .. Len(prompts)
    BY <1>5, <1>9
  <2>4. SubSeq(FlattenSeq(prompts), Offsets(lens)[i] + 1, Offsets(lens)[i + 1]) = prompts[i]
    BY <1>5, <1>9, <1>10, <2>3, PartCutOut
  <2> QED BY <1>6, <1>12, <2>2, <2>4
<1>19. \A i \in 1 .. n : lens[i] = numInput[rs[i]]
  BY <1>4
<1>20. DOMAIN slots \in SUBSET Nat
  BY <1>15
<1>21. PackedAt(at, rs, slots, entries)
  <2>1. \A i \in DOMAIN rs : \A t \in 1 .. numInput[rs[i]] :
           /\ at[<<i, t>>] \in DOMAIN slots
           /\ slots[at[<<i, t>>]] = Slot(kv[rs[i]], t - 1)
           /\ entries[at[<<i, t>>]] = Entry(<<rs[i], t - 1>>, t - 1)
    <3>1. ASSUME NEW i \in DOMAIN rs, NEW t \in 1 .. numInput[rs[i]]
          PROVE  /\ at[<<i, t>>] \in DOMAIN slots
                 /\ slots[at[<<i, t>>]] = Slot(kv[rs[i]], t - 1)
                 /\ entries[at[<<i, t>>]] = Entry(<<rs[i], t - 1>>, t - 1)
      <4>1. i \in 1 .. n /\ t \in 1 .. lens[i]
        BY <1>2, <1>19
      <4> QED BY <1>16, <4>1
    <3> QED BY <3>1
  <2>2. ASSUME NEW j \in DOMAIN slots
        PROVE  \E i \in DOMAIN rs : \E t \in 1 .. numInput[rs[i]] : j = at[<<i, t>>]
    <3>1. PICK i \in 1 .. n : \E t \in 1 .. lens[i] : j = at[<<i, t>>]
      BY <1>17
    <3> QED BY <1>2, <1>19, <3>1
  <2> QED BY <1>20, <2>1, <2>2 DEF PackedAt
<1> QED BY <1>1, <1>2, <1>11, <1>12, <1>18, <1>21

\* A prefill writes each prompt to its request's pages, and to nothing else; each first
\* token is computed from its own prompt.
LEMMA PrefillFills ==
    ASSUME EngineTypes, Lists, Holdings, toPrefill # <<>>,
           NEW m, m = Written(PackedSlots(toPrefill), Packed(toPrefill))
    PROVE  /\ \A r \in Range(toPrefill) :
                 ReadPrefix(m, kv[r], numInput[r]) = SequenceOf(r, numInput[r])
           /\ \A s \in Slots : m[s] # mem[s] =>
                 \E r \in Range(toPrefill) : s \div PageSize \in Range(kv[r])
           /\ \A i \in DOMAIN toPrefill :
                 PrefillSeen(toPrefill)[i] = SequenceOf(toPrefill[i], numInput[toPrefill[i]])
           /\ \A s \in Slots : m[s] # mem[s] =>
                 \E r \in Range(toPrefill) : \E t \in 0 .. numInput[r] - 1 :
                    /\ s = Slot(kv[r], t)
                    /\ s \div PageSize \in Range(kv[r])
                    /\ m[s] = Entry(<<r, t>>, t)
<1>1. PICK rs \in Seq(Requests) : rs = toPrefill /\ rs # <<>> /\ IsInjective(rs)
  BY DEF EngineTypes, Lists
<1>2. PICK slots, entries : slots = PackedSlots(rs) /\ entries = Packed(rs)
  OBVIOUS
<1>3. /\ \E at : PackedAt(at, rs, slots, entries)
      /\ \A i \in DOMAIN rs : PrefillSeen(rs)[i] = SequenceOf(rs[i], numInput[rs[i]])
  BY <1>1, <1>2, PrefillPacked
<1>10. PICK at : PackedAt(at, rs, slots, entries)
  BY <1>3
<1>4. ASSUME NEW i \in DOMAIN rs
      PROVE  /\ rs[i] \in Range(toPrefill) /\ rs[i] \in Requests
             /\ kv[rs[i]] \in Seq(Pages) /\ IsInjective(kv[rs[i]]) /\ numInput[rs[i]] \in Nat
             /\ PagesNeeded(numInput[rs[i]]) <= Len(kv[rs[i]])
  <2>1. rs[i] \in Range(toPrefill)
    BY <1>1, RangeType
  <2>2. /\ rs[i] \in Requests /\ kv[rs[i]] \in Seq(Pages) /\ numInput[rs[i]] \in Nat
        /\ PagesNeeded(numInput[rs[i]]) <= Len(kv[rs[i]])
    BY <2>1, AdmittedHasRoom
  <2> QED BY <2>1, <2>2 DEF Holdings
<1>5. ASSUME NEW i \in DOMAIN rs, NEW t \in 1 .. numInput[rs[i]]
      PROVE  /\ t - 1 \in Nat /\ t - 1 < numInput[rs[i]]
             /\ Slot(kv[rs[i]], t - 1) \in Slots
             /\ Slot(kv[rs[i]], t - 1) \div PageSize \in Range(kv[rs[i]])
  <2>1. t - 1 \in Nat /\ t - 1 < numInput[rs[i]]
    BY <1>4
  <2> QED BY <1>4, <2>1, SlotOfPosition
<1>6. ASSUME NEW i \in DOMAIN rs, NEW t \in 1 .. numInput[rs[i]],
             NEW h \in DOMAIN rs, NEW u \in 1 .. numInput[rs[h]],
             Slot(kv[rs[i]], t - 1) = Slot(kv[rs[h]], u - 1)
      PROVE  h = i /\ u = t
  <2>1. h = i
    <3>1. /\ Slot(kv[rs[i]], t - 1) \div PageSize \in Range(kv[rs[i]])
          /\ Slot(kv[rs[h]], u - 1) \div PageSize \in Range(kv[rs[h]])
      BY <1>5
    <3>2. Range(kv[rs[i]]) \cap Range(kv[rs[h]]) # {}
      BY <1>6, <3>1
    <3>3. rs[i] = rs[h]
      BY <1>4, <3>2 DEF Holdings
    <3> QED BY <1>1, <3>3 DEF IsInjective
  <2>2. PICK l \in Nat : l = numInput[rs[i]]
    BY <1>4
  <2>3. t \in 1 .. l /\ u \in 1 .. l
    BY <2>1, <2>2
  <2>4. t - 1 \in Nat /\ u - 1 \in Nat /\ t - 1 < l /\ u - 1 < l
    BY <2>3
  <2>5. t - 1 = u - 1
    BY <1>4, <1>6, <2>1, <2>2, <2>4, SlotsDiffer
  <2> QED BY <2>1, <2>3, <2>5
<1>7. ASSUME NEW i \in DOMAIN rs, NEW t \in 1 .. numInput[rs[i]]
      PROVE  m[Slot(kv[rs[i]], t - 1)] = Entry(<<rs[i], t - 1>>, t - 1)
  <2>1. PICK a \in DOMAIN slots : a = at[<<i, t>>]
    BY <1>10 DEF PackedAt
  <2>2. slots[a] = Slot(kv[rs[i]], t - 1) /\ entries[a] = Entry(<<rs[i], t - 1>>, t - 1)
    BY <1>10, <2>1 DEF PackedAt
  <2>3. slots[a] \in Slots
    BY <1>5, <2>2
  <2>4. ASSUME NEW j \in DOMAIN slots, slots[j] = slots[a] PROVE j = a
    <3>0. PICK h \in DOMAIN rs : \E u \in 1 .. numInput[rs[h]] : j = at[<<h, u>>]
      BY <1>10 DEF PackedAt
    <3>1. PICK u \in 1 .. numInput[rs[h]] : j = at[<<h, u>>]
      BY <3>0
    <3>2. slots[j] = Slot(kv[rs[h]], u - 1)
      BY <1>10, <3>1 DEF PackedAt
    <3>3. h = i /\ u = t
      BY <1>6, <2>2, <2>4, <3>2
    <3> QED BY <2>1, <3>1, <3>3
  <2>5. Written(slots, entries)[slots[a]] = entries[a]
    BY <1>10, <2>3, <2>4, WrittenIs DEF PackedAt
  <2> QED BY <1>1, <1>2, <2>2, <2>5
<1>8. ASSUME NEW r \in Range(toPrefill)
      PROVE  ReadPrefix(m, kv[r], numInput[r]) = SequenceOf(r, numInput[r])
  <2>1. PICK i \in DOMAIN rs : r = rs[i]
    BY <1>1 DEF Range
  <2>2. \A t \in 1 .. numInput[r] : m[Slot(kv[r], t - 1)] = Entry(<<r, t - 1>>, t - 1)
    BY <1>7, <2>1
  <2> QED BY <2>2 DEF ReadPrefix, SequenceOf
<1>9. ASSUME NEW s \in Slots, m[s] # mem[s]
      PROVE  \E r \in Range(toPrefill) : \E t \in 0 .. numInput[r] - 1 :
                /\ s = Slot(kv[r], t)
                /\ s \div PageSize \in Range(kv[r])
                /\ m[s] = Entry(<<r, t>>, t)
  <2>1. m = Written(slots, entries)
    BY <1>1, <1>2
  <2>2. PICK j \in DOMAIN slots : slots[j] = s
    BY <1>10, <1>9, <2>1, WrittenIs DEF PackedAt
  <2>6. PICK i \in DOMAIN rs : \E t \in 1 .. numInput[rs[i]] : j = at[<<i, t>>]
    BY <1>10 DEF PackedAt
  <2>3. PICK t \in 1 .. numInput[rs[i]] : j = at[<<i, t>>]
    BY <2>6
  <2>4. s = Slot(kv[rs[i]], t - 1)
    BY <1>10, <2>2, <2>3 DEF PackedAt
  <2>5. s \div PageSize \in Range(kv[rs[i]])
    BY <1>5, <2>4
  <2>7. PICK r, u : r = rs[i] /\ u = t - 1
    OBVIOUS
  <2>8. m[s] = Entry(<<r, u>>, u)
    BY <1>7, <2>4, <2>7
  <2>9. r \in Range(toPrefill) /\ u \in 0 .. numInput[r] - 1
    <3>1. r \in Range(toPrefill) /\ numInput[r] \in Nat /\ t \in 1 .. numInput[r]
      BY <1>4, <2>7
    <3> QED BY <2>7, <3>1
  <2> QED BY <2>4, <2>5, <2>7, <2>8, <2>9
<1>11. \A s \in Slots : m[s] # mem[s] =>
          \E r \in Range(toPrefill) : s \div PageSize \in Range(kv[r])
  BY <1>9
<1> QED BY <1>1, <1>3, <1>8, <1>9, <1>11

----------------------------------------------------------------------------
\* The invariant is inductive: the scheduler's calls.

HoldingsVars == <<kernel, free, refcount, kv>>

\* Calls that neither allocate nor free leave the pages with their holders.
LEMMA HoldingsUnchanged ==
    ASSUME Holdings, UNCHANGED HoldingsVars
    PROVE  Holdings'
BY DEF Holdings, HoldingsVars, PoolTypeOK

\* Calls that do not replay a graph leave the staged rows.
LEMMA DummiesUnchanged ==
    ASSUME DummiesStaged, UNCHANGED runnerVars
    PROVE  DummiesStaged'
BY DEF DummiesStaged, DummyRowsAreSafe, runnerVars

\* _release_kv: the pages of one request move to the free list.
LEMMA ReleaseHoldings ==
    ASSUME EngineTypes, Holdings, NEW r \in Requests, ReleaseKv(r), UNCHANGED kernel
    PROVE  /\ Holdings'
           /\ kv' \in [Requests -> Seq(Pages)]
           /\ kv'[r] = <<>>
           /\ \A s \in Requests : s # r => kv'[s] = kv[s]
<1>1. /\ kv' = [kv EXCEPT ![r] = <<>>] /\ kv' \in [Requests -> Seq(Pages)]
      /\ kv[r] \in Seq(Pages) /\ Range(kv[r]) \subseteq Pages
  BY RangeType DEF ReleaseKv, EngineTypes
<1>2. /\ PoolTypeOK /\ free \in Seq(Pages) /\ IsInjective(free) /\ IsInjective(kv[r])
      /\ Range(kv[r]) \cap Range(free) = {}
      /\ \A p \in Range(kv[r]) : refcount[p] = 1
  BY DEF Holdings, PoolTypeOK
<1>3. /\ free' = free \o kv[r]
      /\ refcount' = [p \in Pages |-> IF p \in Range(kv[r]) THEN 0 ELSE refcount[p]]
  BY <1>1, <1>2, FreeUnshared DEF ReleaseKv
<1>4. /\ free' \in Seq(Pages)
      /\ Range(free') = Range(free) \cup Range(kv[r])
      /\ IsInjective(free')
  <2>1. Range(free) \cap Range(kv[r]) = {}
    BY <1>2
  <2> QED BY <1>1, <1>2, <1>3, <2>1, ConcatRange
<1>5. /\ \A s \in Requests : s # r => kv'[s] = kv[s]
      /\ kv'[r] = <<>> /\ Range(kv'[r]) = {} /\ IsInjective(kv'[r])
  BY <1>1, RangeEmpty DEF EngineTypes
<1>6. PoolTypeOK'
  BY <1>2, <1>3, <1>4 DEF PoolTypeOK
<1>7. ASSUME NEW s \in Requests
      PROVE  /\ IsInjective(kv'[s])
             /\ Range(kv'[s]) \cap Range(free') = {}
             /\ \A p \in Range(kv'[s]) : refcount'[p] = 1
  <2>1. CASE s = r
    BY <1>5, <2>1
  <2>2. CASE s # r
    <3>1. kv'[s] = kv[s]
      BY <1>5, <2>2
    <3>2. /\ IsInjective(kv[s]) /\ Range(kv[s]) \cap Range(free) = {}
          /\ \A p \in Range(kv[s]) : refcount[p] = 1
          /\ Range(kv[s]) \cap Range(kv[r]) = {}
      BY <2>2 DEF Holdings
    <3>3. Range(kv[s]) \subseteq Pages
      <4>1. kv[s] \in Seq(Pages)
        BY DEF EngineTypes
      <4> QED BY <4>1, RangeType
    <3>4. \A p \in Range(kv[s]) : refcount'[p] = 1
      BY <1>3, <3>2, <3>3
    <3> QED BY <1>4, <3>1, <3>2, <3>4
  <2> QED BY <2>1, <2>2
<1>8. \A s, t \in Requests : s # t => Range(kv'[s]) \cap Range(kv'[t]) = {}
  BY <1>5 DEF Holdings
<1>9. kernel = "cuda_graph" => /\ ScratchPage \notin Range(free')
                               /\ \A s \in Requests : ScratchPage \notin Range(kv'[s])
  BY <1>4, <1>5 DEF Holdings
<1> QED BY <1>1, <1>4, <1>5, <1>6, <1>7, <1>8, <1>9 DEF Holdings, ScratchPage

\* Admission: a request without pages gets those of its whole budget.
LEMMA AdmitHoldings ==
    ASSUME EngineTypes, Holdings, NEW r \in Requests, kv[r] = <<>>,
           NEW n \in Nat, Allocate(n), kv' = [kv EXCEPT ![r] = Allocated(n)],
           UNCHANGED kernel
    PROVE  /\ Holdings'
           /\ kv' \in [Requests -> Seq(Pages)]
           /\ Len(kv'[r]) = n
           /\ \A s \in Requests : s # r => kv'[s] = kv[s]
<1>1. PoolTypeOK /\ IsInjective(free)
  BY DEF Holdings
<1>2. /\ Allocated(n) \in Seq(Pages) /\ Len(Allocated(n)) = n
      /\ free' \in Seq(Pages)
      /\ Range(Allocated(n)) \cup Range(free') = Range(free)
      /\ IsInjective(Allocated(n)) /\ IsInjective(free')
      /\ Range(Allocated(n)) \cap Range(free') = {}
      /\ refcount' = [p \in Pages |-> IF p \in Range(Allocated(n)) THEN 1
                                                                   ELSE refcount[p]]
  BY <1>1, AllocateSplits
<1>3. /\ kv' \in [Requests -> Seq(Pages)]
      /\ kv'[r] = Allocated(n)
      /\ \A s \in Requests : s # r => kv'[s] = kv[s]
  BY <1>2 DEF EngineTypes
<1>4. PoolTypeOK'
  BY <1>1, <1>2 DEF PoolTypeOK
<1>5. ASSUME NEW s \in Requests
      PROVE  /\ IsInjective(kv'[s])
             /\ Range(kv'[s]) \cap Range(free') = {}
             /\ \A p \in Range(kv'[s]) : refcount'[p] = 1
  <2>1. Range(kv'[s]) \subseteq Pages
    BY <1>3, RangeType
  <2>2. CASE s = r
    BY <1>2, <1>3, <2>1, <2>2
  <2>3. CASE s # r
    <3>1. kv'[s] = kv[s]
      BY <1>3, <2>3
    <3>2. /\ IsInjective(kv[s]) /\ Range(kv[s]) \cap Range(free) = {}
          /\ \A p \in Range(kv[s]) : refcount[p] = 1
      BY DEF Holdings
    <3> QED BY <1>2, <2>1, <3>1, <3>2
  <2> QED BY <2>2, <2>3
<1>6. \A s, t \in Requests : s # t => Range(kv'[s]) \cap Range(kv'[t]) = {}
  <2>1. \A s \in Requests : s # r => Range(kv'[s]) \cap Range(kv'[r]) = {}
    BY <1>2, <1>3 DEF Holdings
  <2> QED BY <1>3, <2>1 DEF Holdings
<1>7. kernel = "cuda_graph" => /\ ScratchPage \notin Range(free')
                               /\ \A s \in Requests : ScratchPage \notin Range(kv'[s])
  BY <1>2, <1>3 DEF Holdings
<1> QED BY <1>2, <1>3, <1>4, <1>5, <1>6, <1>7 DEF Holdings, ScratchPage

\* The admitted request has got its pages, and no other request's have changed hands.
LEMMA AdmitStep == ASSUME EInv, Admit PROVE EInv'
<1> USE DEF EInv
<1>1. PICK r : r = Head(waiting)
  OBVIOUS
<1>2. /\ Allocate(Needed(r)) /\ kv' = [kv EXCEPT ![r] = Allocated(Needed(r))]
      /\ toPrefill' = Append(toPrefill, r) /\ waiting' = Tail(waiting) /\ waiting # <<>>
      /\ UNCHANGED <<kernel, lptReorder, mem, runnerVars, requestVars, running, failures>>
  BY <1>1 DEF Admit
<1>3. waiting \in Seq(Requests) /\ toPrefill \in Seq(Requests) /\ IsInjective(waiting)
      /\ IsInjective(toPrefill) /\ Range(waiting) \cap Range(toPrefill) = {}
  BY DEF EngineTypes, Lists
<1>4. /\ r \in Requests /\ r \in Range(waiting) /\ r \notin Range(toPrefill)
      /\ waiting' \in Seq(Requests) /\ IsInjective(waiting')
      /\ Range(waiting) = Range(waiting') \cup {r} /\ r \notin Range(waiting')
  BY <1>1, <1>2, <1>3, TailRange
<1>5. /\ toPrefill' \in Seq(Requests) /\ IsInjective(toPrefill')
      /\ Range(toPrefill') = Range(toPrefill) \cup {r}
  BY <1>2, <1>3, <1>4, AppendRange
<1>6. Queued(r)
  BY <1>4 DEF Lists
<1>7. Needed(r) \in Nat
  <2>1. numInput[r] + maxNew[r] \in Nat
    BY <1>4 DEF EngineTypes
  <2> QED BY <2>1, PagesNeededCovers DEF Needed
<1>8. /\ Holdings' /\ kv' \in [Requests -> Seq(Pages)] /\ Len(kv'[r]) = Needed(r)
      /\ \A s \in Requests : s # r => kv'[s] = kv[s]
  BY <1>2, <1>4, <1>6, <1>7, AdmitHoldings DEF Queued
<1>9. EngineTypes'
  BY <1>2, <1>4, <1>5, <1>8 DEF EngineTypes, requestVars
<1>10. /\ \A s \in Requests : Needed(s)' = Needed(s) /\ KvLength(s)' = KvLength(s)
       /\ numOutput' = numOutput /\ maxNew' = maxNew /\ running' = running /\ mem' = mem
  BY <1>2 DEF requestVars, Needed, KvLength
<1>11. Lists'
  <2>1. \A s \in Range(waiting') : Queued(s)'
    <3>1. \A s \in Range(waiting') : s \in Range(waiting) /\ s # r /\ s \in Requests
      BY <1>3, <1>4, RangeType
    <3> QED BY <1>8, <1>10, <3>1 DEF Lists, Queued
  <2>2. \A s \in Range(toPrefill') : Admitted(s)'
    <3>1. Admitted(r)'
      BY <1>4, <1>6, <1>8, <1>10 DEF Queued, Admitted
    <3>2. \A s \in Range(toPrefill) : s # r /\ s \in Requests
      BY <1>3, <1>4, RangeType
    <3> QED BY <1>5, <1>8, <1>10, <3>1, <3>2 DEF Lists, Admitted
  <2>3. \A s \in Range(running') : Decoding(s)'
    <3>1. \A s \in Range(running) : s # r /\ s \in Requests
      BY <1>4, RangeType DEF Lists, EngineTypes
    <3> QED BY <1>8, <1>10, <3>1 DEF Lists, Decoding
  <2> QED BY <1>4, <1>5, <1>10, <2>1, <2>2, <2>3 DEF Lists
<1>12. Stored'
  <2>1. \A s \in Range(running) : s # r /\ s \in Requests
    BY <1>4, RangeType DEF Lists, EngineTypes
  <2>2. \A s \in Range(running) : KvLength(s)' = KvLength(s) /\ kv'[s] = kv[s]
    BY <1>8, <1>10, <2>1
  <2> QED BY <1>10, <2>2 DEF Stored, ReadPrefix, SequenceOf, Slot, Entry
<1>13. DummiesStaged'
  BY <1>2, DummiesUnchanged
<1> QED BY <1>8, <1>9, <1>11, <1>12, <1>13

\* A request leaves the running list, and its pages are free.
LEMMA ReleaseStep ==
    ASSUME EInv, NEW r \in Requests, r \in Range(running), ReleaseKv(r), Leave(r)
    PROVE  /\ Holdings' /\ DummiesStaged'
           /\ kv' \in [Requests -> Seq(Pages)] /\ kv'[r] = <<>>
           /\ \A s \in Requests : s # r => kv'[s] = kv[s]
           /\ running' \in Seq(Requests) /\ IsInjective(running')
           /\ Range(running') = Range(running) \ {r}
           /\ mem' = mem /\ toPrefill' = toPrefill /\ kernel' = kernel
           /\ lptReorder' = lptReorder
<1> USE DEF EInv
<1>1. /\ mem' = mem /\ toPrefill' = toPrefill /\ kernel' = kernel /\ lptReorder' = lptReorder
      /\ UNCHANGED runnerVars
  BY DEF Leave
<1>2. running \in Seq(Requests) /\ IsInjective(running)
  BY DEF EngineTypes, Lists
<1>3. PICK i \in 1 .. Len(running) : running[i] = r /\ running' = RemoveAt(running, i)
  BY <1>2 DEF Leave
<1>4. /\ running' \in Seq(Requests) /\ IsInjective(running')
      /\ Range(running') = Range(running) \ {r}
  BY <1>2, <1>3, RemoveAtRange
<1>5. /\ Holdings' /\ kv' \in [Requests -> Seq(Pages)] /\ kv'[r] = <<>>
      /\ \A s \in Requests : s # r => kv'[s] = kv[s]
  BY <1>1, ReleaseHoldings
<1>6. DummiesStaged'
  BY <1>1, DummiesUnchanged
<1> QED BY <1>1, <1>4, <1>5, <1>6

\* A finished request is in no list, and nobody else's pages have changed hands.
LEMMA FinishStep == ASSUME EInv, NEW r \in Requests, Finish(r) PROVE EInv'
<1> USE DEF EInv
<1>1. /\ r \in Range(running) /\ ReleaseKv(r) /\ Leave(r)
      /\ UNCHANGED <<requestVars, waiting>>
  BY DEF Finish
<1>2. /\ Holdings' /\ DummiesStaged'
      /\ kv' \in [Requests -> Seq(Pages)]
      /\ \A s \in Requests : s # r => kv'[s] = kv[s]
      /\ running' \in Seq(Requests) /\ IsInjective(running')
      /\ Range(running') = Range(running) \ {r}
      /\ mem' = mem /\ toPrefill' = toPrefill /\ kernel' = kernel
      /\ lptReorder' = lptReorder
  BY <1>1, ReleaseStep
<1>3. /\ \A s \in Requests : Needed(s)' = Needed(s) /\ KvLength(s)' = KvLength(s)
      /\ numInput' = numInput /\ numOutput' = numOutput /\ maxNew' = maxNew
      /\ waiting' = waiting
  BY <1>1 DEF requestVars, Needed, KvLength
<1>4. EngineTypes'
  BY <1>2, <1>3 DEF EngineTypes
<1>5. \A s \in Range(waiting) \cup Range(toPrefill) \cup Range(running') :
         s \in Requests /\ kv'[s] = kv[s]
  <2>1. /\ Range(waiting) \subseteq Requests /\ Range(toPrefill) \subseteq Requests
        /\ Range(running') \subseteq Requests
    BY <1>2, RangeType DEF EngineTypes
  <2>2. r \notin Range(waiting) /\ r \notin Range(toPrefill) /\ r \notin Range(running')
    BY <1>1, <1>2 DEF Lists
  <2> QED BY <1>2, <2>1, <2>2
<1>6. Lists'
  <2>1. \A s \in Range(waiting') : Queued(s)'
    BY <1>3, <1>5 DEF Lists, Queued
  <2>2. \A s \in Range(toPrefill') : Admitted(s)'
    BY <1>2, <1>3, <1>5 DEF Lists, Admitted
  <2>3. \A s \in Range(running') : Decoding(s)'
    BY <1>2, <1>3, <1>5 DEF Lists, Decoding
  <2> QED BY <1>2, <1>3, <2>1, <2>2, <2>3 DEF Lists
<1>7. Stored'
  <2>1. ASSUME NEW s \in Range(running')
        PROVE  ReadPrefix(mem', kv'[s], KvLength(s)') = SequenceOf(s, KvLength(s)')
    <3>1. s \in Range(running) /\ kv'[s] = kv[s] /\ KvLength(s)' = KvLength(s) /\ mem' = mem
      BY <1>2, <1>3, <1>5
    <3> QED BY <3>1 DEF Stored
  <2> QED BY <2>1 DEF Stored, ReadPrefix, SequenceOf, Slot, Entry
<1> QED BY <1>2, <1>4, <1>6, <1>7

\* The evicted request's outputs have become part of its prompt.
LEMMA EvictStep == ASSUME EInv, NEW r \in Requests, Evict(r) PROVE EInv'
<1> USE DEF EInv
<1>1. /\ r \in Range(running) /\ Unfinished(r) /\ ReleaseKv(r) /\ Leave(r)
      /\ numInput' = [numInput EXCEPT ![r] = @ + numOutput[r]]
      /\ maxNew' = [maxNew EXCEPT ![r] = @ - numOutput[r]]
      /\ numOutput' = [numOutput EXCEPT ![r] = 0]
      /\ waiting' = <<r>> \o waiting
  BY DEF Evict
<1>2. /\ Holdings' /\ DummiesStaged'
      /\ kv' \in [Requests -> Seq(Pages)] /\ kv'[r] = <<>>
      /\ \A s \in Requests : s # r => kv'[s] = kv[s]
      /\ running' \in Seq(Requests) /\ IsInjective(running')
      /\ Range(running') = Range(running) \ {r}
      /\ mem' = mem /\ toPrefill' = toPrefill /\ kernel' = kernel
      /\ lptReorder' = lptReorder
  BY <1>1, ReleaseStep
<1>3. PICK i \in Nat, o \in Nat, m \in Nat :
         i = numInput[r] /\ o = numOutput[r] /\ m = maxNew[r] /\ o < m
  BY <1>1 DEF EngineTypes, Unfinished
<1>4. /\ numInput' \in [Requests -> Nat] /\ numOutput' \in [Requests -> Nat]
      /\ maxNew' \in [Requests -> Nat]
      /\ numOutput'[r] = 0 /\ maxNew'[r] > 0
      /\ \A s \in Requests : s # r => /\ numInput'[s] = numInput[s]
                                      /\ numOutput'[s] = numOutput[s]
                                      /\ maxNew'[s] = maxNew[s]
  <2>1. i + o \in Nat /\ m - o \in Nat /\ m - o > 0
    BY <1>3
  <2>2. /\ numInput' = [numInput EXCEPT ![r] = i + o]
        /\ maxNew' = [maxNew EXCEPT ![r] = m - o]
    BY <1>1, <1>3
  <2>3. numInput \in [Requests -> Nat] /\ numOutput \in [Requests -> Nat]
        /\ maxNew \in [Requests -> Nat]
    BY DEF EngineTypes
  <2>4. /\ numInput' \in [Requests -> Nat] /\ numOutput' \in [Requests -> Nat]
        /\ maxNew' \in [Requests -> Nat]
    BY <1>1, <2>1, <2>2, <2>3
  <2>5. numOutput'[r] = 0 /\ maxNew'[r] > 0
    BY <1>1, <2>1, <2>2, <2>3
  <2>6. \A s \in Requests : s # r => /\ numInput'[s] = numInput[s]
                                      /\ numOutput'[s] = numOutput[s]
                                      /\ maxNew'[s] = maxNew[s]
    BY <1>1, <2>2, <2>3
  <2> QED BY <2>4, <2>5, <2>6
<1>5. r \notin Range(waiting) /\ r \notin Range(toPrefill) /\ r \notin Range(running')
  BY <1>1, <1>2 DEF Lists
<1>6. /\ waiting' \in Seq(Requests) /\ IsInjective(waiting')
      /\ Range(waiting') = Range(waiting) \cup {r}
  <2>1. waiting \in Seq(Requests) /\ IsInjective(waiting)
    BY DEF EngineTypes, Lists
  <2> QED BY <1>1, <1>5, <2>1, PushFrontRange
<1>7. EngineTypes'
  BY <1>2, <1>4, <1>6 DEF EngineTypes
<1>8. \A s \in Range(waiting) \cup Range(toPrefill) \cup Range(running') :
         s \in Requests /\ s # r
  <2>1. /\ Range(waiting) \subseteq Requests /\ Range(toPrefill) \subseteq Requests
        /\ Range(running') \subseteq Requests
    BY <1>2, RangeType DEF EngineTypes
  <2> QED BY <1>5, <2>1
<1>9. \A s \in Requests : s # r =>
         /\ kv'[s] = kv[s] /\ Needed(s)' = Needed(s) /\ KvLength(s)' = KvLength(s)
  BY <1>2, <1>4 DEF Needed, KvLength
<1>10. Lists'
  <2>1. \A s \in Range(waiting') : Queued(s)'
    <3>1. Queued(r)'
      BY <1>2, <1>4 DEF Queued
    <3>2. \A s \in Range(waiting) : Queued(s)'
      BY <1>4, <1>8, <1>9 DEF Lists, Queued
    <3> QED BY <1>6, <3>1, <3>2
  <2>2. \A s \in Range(toPrefill') : Admitted(s)'
    BY <1>2, <1>4, <1>8, <1>9 DEF Lists, Admitted
  <2>3. \A s \in Range(running') : Decoding(s)'
    BY <1>2, <1>4, <1>8, <1>9 DEF Lists, Decoding
  <2>4. Range(waiting') \cap Range(toPrefill') = {} /\ Range(waiting') \cap Range(running') = {}
    BY <1>2, <1>5, <1>6 DEF Lists
  <2> QED BY <1>2, <1>6, <2>1, <2>2, <2>3, <2>4 DEF Lists
<1>11. Stored'
  <2>1. ASSUME NEW s \in Range(running')
        PROVE  ReadPrefix(mem', kv'[s], KvLength(s)') = SequenceOf(s, KvLength(s)')
    <3>1. s \in Range(running) /\ kv'[s] = kv[s] /\ KvLength(s)' = KvLength(s) /\ mem' = mem
      BY <1>2, <1>8, <1>9
    <3> QED BY <3>1 DEF Stored
  <2> QED BY <2>1 DEF Stored, ReadPrefix, SequenceOf, Slot, Entry
<1> QED BY <1>2, <1>7, <1>10, <1>11

----------------------------------------------------------------------------
\* The engine's calls.

\* The requests of a call get one token each, and the lists and pages stay theirs.
LEMMA OneTokenEach ==
    ASSUME EngineTypes, NEW rs \in Seq(Requests), IsInjective(rs), NEW results,
           Sampled(rs, results)
    PROVE  /\ numOutput' \in [Requests -> Nat]
           /\ \A r \in Range(rs) : numOutput'[r] = numOutput[r] + 1
           /\ \A r \in Requests : r \notin Range(rs) => /\ numOutput'[r] = numOutput[r]
                                                        /\ seen'[r] = <<>>
           /\ \A i \in DOMAIN rs : seen'[rs[i]] = results[i]
<1>1. Range(rs) \subseteq Requests /\ \A i \in DOMAIN rs : rs[i] \in Range(rs)
  BY RangeType
<1>2. numOutput' = [r \in Requests |-> IF r \in Range(rs) THEN numOutput[r] + 1
                                                            ELSE numOutput[r]]
  BY DEF Sampled
<1>3. seen' = [r \in Requests |-> IF r \in Range(rs)
                                  THEN results[CHOOSE i \in DOMAIN rs : rs[i] = r]
                                  ELSE <<>>]
  BY DEF Sampled
<1>4. ASSUME NEW i \in DOMAIN rs PROVE seen'[rs[i]] = results[i]
  <2>1. (CHOOSE j \in DOMAIN rs : rs[j] = rs[i]) = i
    BY DEF IsInjective
  <2>2. seen'[rs[i]] = results[CHOOSE j \in DOMAIN rs : rs[j] = rs[i]]
    BY <1>1, <1>3
  <2> QED BY <2>1, <2>2
<1>5. numOutput' \in [Requests -> Nat]
  BY <1>2 DEF EngineTypes
<1> QED BY <1>1, <1>2, <1>3, <1>4, <1>5

\* After a prefill, the pages of the new running requests hold their prompts, and those
\* of the others what they held.
LEMMA PrefillStep == ASSUME EInv, BatchedPrefill PROVE EInv'
<1> USE DEF EInv
<1>1. /\ toPrefill # <<>> /\ PrefillWrites
      /\ Sampled(toPrefill, PrefillSeen(toPrefill))
      /\ running' = running \o toPrefill /\ toPrefill' = <<>>
      /\ UNCHANGED <<kernel, lptReorder, poolVars, runnerVars, numInput, maxNew, kv, waiting>>
  BY DEF BatchedPrefill
<1>2. /\ running \in Seq(Requests) /\ IsInjective(running)
      /\ toPrefill \in Seq(Requests) /\ IsInjective(toPrefill)
      /\ Range(running) \cap Range(toPrefill) = {}
  BY DEF EngineTypes, Lists
<1>3. /\ running' \in Seq(Requests) /\ IsInjective(running')
      /\ Range(running') = Range(running) \cup Range(toPrefill)
  BY <1>1, <1>2, ConcatRange
<1>4. toPrefill' \in Seq(Requests) /\ Range(toPrefill') = {} /\ IsInjective(toPrefill')
  BY <1>1, RangeEmpty
<1>5. /\ numOutput' \in [Requests -> Nat]
      /\ \A r \in Range(toPrefill) : numOutput'[r] = numOutput[r] + 1
      /\ \A r \in Requests : r \notin Range(toPrefill) => numOutput'[r] = numOutput[r]
  BY <1>1, <1>2, OneTokenEach
<1>6. Holdings' /\ DummiesStaged'
  BY <1>1, HoldingsUnchanged, DummiesUnchanged DEF HoldingsVars, poolVars
<1>7. EngineTypes'
  BY <1>1, <1>3, <1>4, <1>5 DEF EngineTypes
<1>8. \A r \in Requests : Needed(r)' = Needed(r) /\ kv'[r] = kv[r]
  BY <1>1 DEF Needed
<1>9. \A r \in Range(waiting) \cup Range(running) :
         r \in Requests /\ r \notin Range(toPrefill) /\ numOutput'[r] = numOutput[r]
  <2>1. Range(waiting) \subseteq Requests /\ Range(running) \subseteq Requests
    BY RangeType DEF EngineTypes
  <2>2. \A r \in Range(waiting) \cup Range(running) : r \notin Range(toPrefill)
    BY DEF Lists
  <2> QED BY <1>5, <2>1, <2>2
<1>10. \A r \in Range(toPrefill) :
          /\ r \in Requests /\ numOutput[r] = 0 /\ numOutput'[r] = 1
          /\ maxNew[r] \in Nat /\ maxNew[r] > 0 /\ Len(kv[r]) = Needed(r)
  <2>1. ASSUME NEW r \in Range(toPrefill)
        PROVE  /\ r \in Requests /\ numOutput[r] = 0 /\ numOutput'[r] = 1
               /\ maxNew[r] \in Nat /\ maxNew[r] > 0 /\ Len(kv[r]) = Needed(r)
    <3>1. r \in Requests /\ numOutput[r] = 0 /\ maxNew[r] \in Nat
      BY AdmittedHasRoom
    <3>2. numOutput'[r] = 1
      BY <1>5, <3>1
    <3> QED BY <3>1, <3>2 DEF Lists, Admitted
  <2> QED BY <2>1
<1>11. Lists'
  <2>1. \A r \in Range(waiting') : Queued(r)'
    BY <1>1, <1>9 DEF Lists, Queued
  <2>2. \A r \in Range(running') : Decoding(r)'
    <3>1. \A r \in Range(running) : Decoding(r)'
      BY <1>1, <1>8, <1>9 DEF Lists, Decoding
    <3>2. \A r \in Range(toPrefill) : Decoding(r)'
      <4>1. ASSUME NEW r \in Range(toPrefill)
            PROVE  numOutput'[r] > 0 /\ numOutput'[r] <= maxNew'[r] /\ Len(kv'[r]) = Needed(r)'
        BY <1>1, <1>8, <1>10
      <4> QED BY <4>1 DEF Decoding
    <3> QED BY <1>3, <3>1, <3>2
  <2>3. Range(waiting') \cap Range(running') = {}
    BY <1>1, <1>3 DEF Lists
  <2> QED BY <1>1, <1>3, <1>4, <2>1, <2>2, <2>3 DEF Lists
<1>12. /\ \A r \in Range(toPrefill) :
             ReadPrefix(mem', kv[r], numInput[r]) = SequenceOf(r, numInput[r])
       /\ \A s \in Slots : mem'[s] # mem[s] =>
             \E r \in Range(toPrefill) : s \div PageSize \in Range(kv[r])
  <2>1. PICK m : m = Written(PackedSlots(toPrefill), Packed(toPrefill))
    OBVIOUS
  <2>2. mem' = m
    BY <1>1, <2>1 DEF PrefillWrites
  <2> QED BY <1>1, <2>1, <2>2, PrefillFills
<1>13. Stored'
  <2>1. ASSUME NEW r \in Range(toPrefill)
        PROVE  ReadPrefix(mem', kv'[r], KvLength(r)') = SequenceOf(r, KvLength(r)')
    <3>1. KvLength(r)' = numInput[r]
      <4>1. numInput[r] \in Nat /\ numInput' = numInput /\ numOutput'[r] = 1
        BY <1>1, <1>10 DEF EngineTypes
      <4> QED BY <4>1 DEF KvLength
    <3> QED BY <1>1, <1>12, <3>1
  <2>2. ASSUME NEW r \in Range(running)
        PROVE  ReadPrefix(mem', kv'[r], KvLength(r)') = SequenceOf(r, KvLength(r)')
    <3>1. KvLength(r)' = KvLength(r) /\ kv'[r] = kv[r] /\ r \in Requests
      BY <1>1, <1>9 DEF KvLength
    <3>2. ReadPrefix(mem, kv[r], KvLength(r)) = SequenceOf(r, KvLength(r))
      BY DEF Stored
    <3>3. /\ kv[r] \in Seq(Pages) /\ KvLength(r) \in Nat
          /\ PagesNeeded(KvLength(r)) <= Len(kv[r])
      BY StoredHasRoom
    <3>4. \A s \in Slots : s \div PageSize \in Range(kv[r]) => mem'[s] = mem[s]
      <4>1. \A q \in Range(toPrefill) : Range(kv[q]) \cap Range(kv[r]) = {}
        BY <1>9, <1>10, <3>1 DEF Holdings
      <4> QED BY <1>12, <4>1
    <3>5. ReadPrefix(mem', kv[r], KvLength(r)) = ReadPrefix(mem, kv[r], KvLength(r))
      BY <3>3, <3>4, OtherPagesKept
    <3> QED BY <3>1, <3>2, <3>5
  <2>3. \A r \in Range(running') :
           ReadPrefix(mem', kv'[r], KvLength(r)') = SequenceOf(r, KvLength(r)')
    BY <1>3, <2>1, <2>2
  <2> QED BY <2>3 DEF Stored, ReadPrefix, SequenceOf, Slot, Entry
<1> QED BY <1>6, <1>7, <1>11, <1>13

\* A prefill that raises has written all of its prompts or nothing, and no request that
\* is running notices.
LEMMA PrefillRaisesStep == ASSUME EInv, PrefillRaises PROVE EInv'
<1> USE DEF EInv
<1>1. /\ toPrefill # <<>> /\ (PrefillWrites \/ UNCHANGED mem)
      /\ toPrefill' = <<>>
      /\ UNCHANGED <<kernel, lptReorder, poolVars, runnerVars, requestVars, kv, waiting,
                     running>>
  BY DEF PrefillRaises
<1>2. /\ numInput' = numInput /\ numOutput' = numOutput /\ maxNew' = maxNew
      /\ kv' = kv /\ running' = running /\ waiting' = waiting
      /\ kernel' = kernel /\ lptReorder' = lptReorder
  BY <1>1 DEF requestVars
<1>3. toPrefill' \in Seq(Requests) /\ Range(toPrefill') = {} /\ IsInjective(toPrefill')
  BY <1>1, RangeEmpty
<1>4. Holdings' /\ DummiesStaged'
  BY <1>1, HoldingsUnchanged, DummiesUnchanged DEF HoldingsVars, poolVars
<1>5. EngineTypes'
  BY <1>2, <1>3 DEF EngineTypes
<1>6. \A r : Needed(r)' = Needed(r) /\ KvLength(r)' = KvLength(r)
  BY <1>2 DEF Needed, KvLength
<1>7. Lists'
  <2>1. \A r \in Range(waiting') : Queued(r)'
    BY <1>2 DEF Lists, Queued
  <2>2. \A r \in Range(running') : Decoding(r)'
    BY <1>2, <1>6 DEF Lists, Decoding
  <2>3. \A r \in Range(toPrefill') : Admitted(r)'
    BY <1>3
  <2> QED BY <1>2, <1>3, <2>1, <2>2, <2>3 DEF Lists
<1>8. \A s \in Slots : mem'[s] # mem[s] =>
         \E r \in Range(toPrefill) : s \div PageSize \in Range(kv[r])
  <2>1. CASE PrefillWrites
    <3>1. PICK m : m = Written(PackedSlots(toPrefill), Packed(toPrefill))
      OBVIOUS
    <3>2. mem' = m
      BY <2>1, <3>1 DEF PrefillWrites
    <3>3. \A s \in Slots : m[s] # mem[s] =>
             \E r \in Range(toPrefill) : s \div PageSize \in Range(kv[r])
      BY <1>1, <3>1, PrefillFills
    <3> QED BY <3>2, <3>3
  <2>2. CASE UNCHANGED mem
    BY <2>2
  <2> QED BY <1>1, <2>1, <2>2
<1>9. Stored'
  <2>1. ASSUME NEW r \in Range(running)
        PROVE  ReadPrefix(mem', kv'[r], KvLength(r)') = SequenceOf(r, KvLength(r)')
    <3>1. ReadPrefix(mem, kv[r], KvLength(r)) = SequenceOf(r, KvLength(r))
      BY DEF Stored
    <3>2. /\ r \in Requests /\ kv[r] \in Seq(Pages) /\ KvLength(r) \in Nat
          /\ PagesNeeded(KvLength(r)) <= Len(kv[r])
      BY StoredHasRoom
    <3>3. \A s \in Slots : s \div PageSize \in Range(kv[r]) => mem'[s] = mem[s]
      <4>1. \A q \in Range(toPrefill) : q \in Requests /\ q # r
        BY RangeType DEF Lists, EngineTypes
      <4>2. \A q \in Range(toPrefill) : Range(kv[q]) \cap Range(kv[r]) = {}
        BY <3>2, <4>1 DEF Holdings
      <4> QED BY <1>8, <4>2
    <3>4. ReadPrefix(mem', kv[r], KvLength(r)) = ReadPrefix(mem, kv[r], KvLength(r))
      BY <3>2, <3>3, OtherPagesKept
    <3> QED BY <1>2, <1>6, <3>1, <3>4
  <2> QED BY <1>2, <2>1 DEF Stored, ReadPrefix, SequenceOf, Slot, Entry
<1> QED BY <1>4, <1>5, <1>7, <1>9

\* After a decode, the pages of each request hold the token that was fed, too.
LEMMA DecodeStep == ASSUME EInv, BatchedDecode PROVE EInv'
<1> USE DEF EInv
<1>1. PICK result, results :
         /\ result = Forward(Rows(running))
         /\ results = [i \in DOMAIN running |->
                         result.seen[InverseOrder(RowOrder(running))[i]]]
  OBVIOUS
<1>2. /\ CanDecode /\ mem' = result.mem /\ Sampled(running, results)
      /\ StageIfGraph(Rows(running))
      /\ UNCHANGED <<kernel, lptReorder, poolVars, numInput, maxNew, kv, waiting,
                     toPrefill, running>>
  BY <1>1 DEF BatchedDecode
<1>3. running \in Seq(Requests) /\ IsInjective(running)
  BY DEF EngineTypes, Lists
<1>4. /\ numOutput' \in [Requests -> Nat]
      /\ \A r \in Range(running) : numOutput'[r] = numOutput[r] + 1
      /\ \A r \in Requests : r \notin Range(running) => numOutput'[r] = numOutput[r]
  BY <1>2, <1>3, OneTokenEach
<1>5. Holdings' /\ DummiesStaged'
  <2>1. RowsFit(Rows(running))
    BY <1>2, RowsOfRunning
  <2> QED BY <1>2, <2>1, HoldingsUnchanged, StagingKeepsDummies DEF HoldingsVars, poolVars
<1>6. EngineTypes'
  BY <1>2, <1>4 DEF EngineTypes
<1>7. ASSUME NEW r \in Range(running)
      PROVE  Decoding(r)' /\ KvLength(r)' = KvLength(r) + 1
  <2>1. r \in Requests
    BY <1>3, RangeType
  <2>2. PICK i \in Nat, o \in Nat, m \in Nat :
           i = numInput[r] /\ o = numOutput[r] /\ m = maxNew[r]
    BY <2>1 DEF EngineTypes
  <2>3. o > 0 /\ o < m /\ Len(kv[r]) = PagesNeeded(i + m)
    BY <1>2, <2>2 DEF CanDecode, Unfinished, Lists, Decoding, Needed
  <2>4. /\ numInput'[r] = i /\ numOutput'[r] = o + 1 /\ maxNew'[r] = m
        /\ kv'[r] = kv[r]
    BY <1>2, <1>4, <2>2
  <2>5. KvLength(r) = i + (o - 1)
    BY <2>2, <2>3 DEF KvLength
  <2>6. o + 1 > 0 /\ o + 1 <= m /\ o + 1 # 0
    BY <2>3
  <2>7. KvLength(r)' = i + ((o + 1) - 1)
    BY <2>4, <2>6 DEF KvLength
  <2>8. KvLength(r)' = KvLength(r) + 1
    BY <2>3, <2>5, <2>7
  <2>9. Needed(r)' = PagesNeeded(i + m)
    BY <2>4 DEF Needed, PagesNeeded
  <2> QED BY <2>3, <2>4, <2>6, <2>8, <2>9 DEF Decoding
<1>8. Lists'
  <2>1. \A r \in Range(waiting') : Queued(r)'
    <3>1. \A r \in Range(waiting) : r \in Requests /\ r \notin Range(running)
      BY RangeType DEF Lists, EngineTypes
    <3> QED BY <1>2, <1>4, <3>1 DEF Lists, Queued
  <2>2. \A r \in Range(toPrefill') : Admitted(r)'
    BY <1>2, RangeEmpty DEF CanDecode
  <2> QED BY <1>2, <1>7, <2>1, <2>2 DEF Lists
<1>9. Stored'
  <2>1. ASSUME NEW r \in Range(running)
        PROVE  ReadPrefix(mem', kv'[r], KvLength(r)') = SequenceOf(r, KvLength(r)')
    <3>1. ReadPrefix(result.mem, kv[r], KvLength(r) + 1) = SequenceOf(r, KvLength(r) + 1)
      BY <1>1, <1>2, DecodeForward
    <3> QED BY <1>2, <1>7, <3>1
  <2> QED BY <1>2, <2>1 DEF Stored, ReadPrefix, SequenceOf, Slot, Entry
<1> QED BY <1>5, <1>6, <1>8, <1>9

\* A decode that raises may have written its entries, at the positions where the next
\* decode writes them again; what the requests have stored is below those.
LEMMA DecodeRaisesStep == ASSUME EInv, DecodeRaises PROVE EInv'
<1> USE DEF EInv
<1>1. PICK result : result = Forward(Rows(running))
  OBVIOUS
<1>2. /\ CanDecode /\ (mem' = result.mem \/ mem' = mem)
      /\ StageIfGraph(Rows(running))
      /\ UNCHANGED <<kernel, lptReorder, poolVars, requestVars, kv, waiting, toPrefill,
                     running>>
  BY <1>1 DEF DecodeRaises
<1>3. /\ numInput' = numInput /\ numOutput' = numOutput /\ maxNew' = maxNew
      /\ kv' = kv /\ running' = running /\ waiting' = waiting /\ toPrefill' = toPrefill
      /\ kernel' = kernel /\ lptReorder' = lptReorder
  BY <1>2 DEF requestVars
<1>4. Holdings' /\ DummiesStaged'
  <2>1. RowsFit(Rows(running))
    BY <1>2, RowsOfRunning
  <2> QED BY <1>2, <2>1, HoldingsUnchanged, StagingKeepsDummies DEF HoldingsVars, poolVars
<1>5. EngineTypes'
  BY <1>3 DEF EngineTypes
<1>6. \A r : Needed(r)' = Needed(r) /\ KvLength(r)' = KvLength(r)
  BY <1>3 DEF Needed, KvLength
<1>7. Lists'
  BY <1>3, <1>6 DEF Lists, Queued, Admitted, Decoding
<1>8. Stored'
  <2>1. ASSUME NEW r \in Range(running)
        PROVE  ReadPrefix(mem', kv'[r], KvLength(r)') = SequenceOf(r, KvLength(r)')
    <3>1. ReadPrefix(result.mem, kv[r], KvLength(r)) = SequenceOf(r, KvLength(r))
      BY <1>1, <1>2, DecodeForward
    <3>2. ReadPrefix(mem, kv[r], KvLength(r)) = SequenceOf(r, KvLength(r))
      BY DEF Stored
    <3> QED BY <1>2, <1>3, <1>6, <3>1, <3>2
  <2> QED BY <1>3, <2>1 DEF Stored, ReadPrefix, SequenceOf, Slot, Entry
<1> QED BY <1>4, <1>5, <1>7, <1>8

----------------------------------------------------------------------------
\* The invariant holds from the start, and after every step.

\* __init__ of the runner takes the first page of the pool, before any request.
LEMMA EngineInit == Init => EInv
<1> SUFFICES ASSUME Init PROVE EInv
  OBVIOUS
<1>1. /\ kernel \in {"flash_attn", "cuda_graph", "flashinfer"} /\ lptReorder \in BOOLEAN
      /\ numInput \in [Requests -> Nat] /\ maxNew \in [Requests -> Nat]
      /\ \A r \in Requests : maxNew[r] > 0
      /\ numOutput = [r \in Requests |-> 0] /\ kv = [r \in Requests |-> <<>>]
      /\ toPrefill = <<>> /\ running = <<>>
  <2>1. /\ kernel \in Kernels /\ lptReorder \in Reorders
        /\ numInput \in [Requests -> PromptLens] /\ maxNew \in [Requests -> MaxNews]
        /\ numOutput = [r \in Requests |-> 0] /\ kv = [r \in Requests |-> <<>>]
        /\ toPrefill = <<>> /\ running = <<>>
    BY DEF Init
  <2>2. /\ PromptLens \subseteq Nat \ {0} /\ MaxNews \subseteq Nat \ {0}
        /\ Kernels \subseteq {"flash_attn", "cuda_graph", "flashinfer"}
        /\ Reorders \subseteq BOOLEAN
    BY EngineAssumption
  <2>3. kernel \in {"flash_attn", "cuda_graph", "flashinfer"} /\ lptReorder \in BOOLEAN
    BY <2>1, <2>2
  <2>4. numInput \in [Requests -> Nat] /\ maxNew \in [Requests -> Nat]
    BY <2>1, <2>2
  <2>5. \A r \in Requests : maxNew[r] > 0
    <3>1. \A m \in MaxNews : m > 0
      BY <2>2
    <3> QED BY <2>1, <3>1
  <2> QED BY <2>1, <2>3, <2>4, <2>5
<1>2. waiting \in Seq(Requests) /\ IsInjective(waiting)
  <2>1. PICK n \in Nat : n = Cardinality(Requests)
    BY EngineAssumption, FS_CardinalityType
  <2>2. \E f \in [1 .. n -> Requests] : IsInjective(f)
    <3>1. ExistsBijection(1 .. n, Requests)
      BY <2>1, EngineAssumption, FS_CardinalityType
    <3> QED BY <3>1 DEF ExistsBijection, Bijection, Injection, IsInjective
  <2>3. waiting = CHOOSE f \in [1 .. n -> Requests] : IsInjective(f)
    BY <2>1 DEF Init, SetToSeq
  <2>4. waiting \in [1 .. n -> Requests] /\ IsInjective(waiting)
    BY <2>2, <2>3
  <2> QED BY <2>4
<1>3. <<>> \in Seq(Requests) /\ <<>> \in Seq(Pages)
  OBVIOUS
<1>4. EngineTypes
  BY <1>1, <1>2, <1>3 DEF EngineTypes
<1>5. Lists
  <2>1. \A r \in Range(waiting) : Queued(r)
    <3>1. Range(waiting) \subseteq Requests
      BY <1>2, RangeType
    <3> QED BY <1>1, <3>1 DEF Queued
  <2> QED BY <1>1, <1>2, <2>1, RangeEmpty DEF Lists
<1>6. Stored
  BY <1>1, RangeEmpty DEF Stored
<1>7. \A r \in Requests : kv[r] = <<>> /\ Range(kv[r]) = {} /\ IsInjective(kv[r])
  BY <1>1, RangeEmpty
<1>8. PoolTypeOK /\ IsInjective(free) /\ (kernel = "cuda_graph" => ScratchPage \notin Range(free))
  <2>1. NumPages \in Nat /\ NumPages > 0
    BY PoolAssumption
  <2>2. CASE kernel = "cuda_graph"
    <3>1. /\ free = [i \in 1 .. NumPages - 1 |-> i]
          /\ refcount = [p \in Pages |-> IF p = ScratchPage THEN 1 ELSE 0]
      BY <2>2 DEF Init
    <3>2. free \in [1 .. NumPages - 1 -> Pages] /\ NumPages - 1 \in Nat
      BY <2>1, <3>1 DEF Pages
    <3>3. free \in Seq(Pages)
      BY <3>2
    <3>4. IsInjective(free) /\ 0 \notin Range(free)
      BY <2>1, <3>1 DEF IsInjective, Range
    <3>5. refcount \in [Pages -> Nat]
      BY <3>1
    <3> QED BY <3>3, <3>4, <3>5 DEF PoolTypeOK, ScratchPage
  <2>3. CASE kernel # "cuda_graph"
    <3>1. /\ free = [i \in 1 .. NumPages |-> i - 1] /\ refcount = [p \in Pages |-> 0]
      BY <2>3 DEF Init, PoolInit
    <3>2. free \in [1 .. NumPages -> Pages]
      BY <2>1, <3>1 DEF Pages
    <3>3. free \in Seq(Pages)
      BY <2>1, <3>2
    <3>4. IsInjective(free)
      BY <2>1, <3>1 DEF IsInjective
    <3>5. refcount \in [Pages -> Nat]
      BY <3>1
    <3> QED BY <2>3, <3>3, <3>4, <3>5 DEF PoolTypeOK
  <2> QED BY <2>2, <2>3
<1>9. Holdings
  BY <1>7, <1>8 DEF Holdings
<1>10. DummiesStaged
  <2>1. /\ host = [b \in BatchSizes |-> [k \in 1 .. b |-> DummyRow]]
        /\ prevLive = [b \in BatchSizes |-> 0]
    BY DEF Init, RunnerInit
  <2>2. ASSUME NEW b \in BatchSizes, NEW k \in prevLive[b] + 1 .. b
        PROVE  host[b][k] = DummyRow
    <3>1. prevLive[b] = 0 /\ b \in Nat
      BY <2>1, RunnerAssumption
    <3>2. k \in 1 .. b
      BY <2>2, <3>1
    <3> HIDE DEF DummyRow
    <3> QED BY <2>1, <3>2
  <2> QED BY <2>1, <2>2 DEF DummiesStaged, DummyRowsAreSafe
<1> QED BY <1>4, <1>5, <1>6, <1>9, <1>10 DEF EInv

\* Every call of the engine and of the scheduler keeps the invariant.
LEMMA EngineStep == EInv /\ [Next]_vars => EInv'
<1> SUFFICES ASSUME EInv, [Next]_vars PROVE EInv'
  OBVIOUS
<1>1. CASE Admit
  BY <1>1, AdmitStep
<1>2. ASSUME NEW r \in Requests, Finish(r) PROVE EInv'
  BY <1>2, FinishStep
<1>3. ASSUME NEW r \in Requests, Evict(r) PROVE EInv'
  BY <1>3, EvictStep
<1>4. CASE BatchedPrefill
  BY <1>4, PrefillStep
<1>5. CASE PrefillRaises
  BY <1>5, PrefillRaisesStep
<1>6. CASE BatchedDecode
  BY <1>6, DecodeStep
<1>7. CASE DecodeRaises
  BY <1>7, DecodeRaisesStep
<1>8. CASE UNCHANGED vars
  <2>1. /\ UNCHANGED <<kernel, lptReorder, free, refcount, mem, host, prevLive, kv, waiting,
                       toPrefill, running, numInput, numOutput, maxNew>>
    BY <1>8 DEF vars, poolVars, runnerVars, requestVars
  <2>2. Holdings' /\ DummiesStaged'
    BY <2>1, HoldingsUnchanged, DummiesUnchanged DEF EInv, HoldingsVars, runnerVars
  <2>3. \A r : Needed(r)' = Needed(r) /\ KvLength(r)' = KvLength(r)
    BY <2>1 DEF Needed, KvLength
  <2>4. EngineTypes' /\ Lists'
    BY <2>1, <2>3 DEF EInv, EngineTypes, Lists, Queued, Admitted, Decoding
  <2>5. Stored'
    BY <2>1, <2>3 DEF EInv, Stored, ReadPrefix, SequenceOf, Slot, Entry
  <2> QED BY <2>2, <2>4, <2>5 DEF EInv
<1> QED BY <1>1, <1>2, <1>3, <1>4, <1>5, <1>6, <1>7, <1>8 DEF Next

\* So it holds in every reachable state.
LEMMA EngineInductive == Spec => []EInv
<1>1. Init => EInv
  BY EngineInit
<1>2. EInv /\ [Next]_vars => EInv'
  BY EngineStep
<1> QED BY <1>1, <1>2, PTL DEF Spec

----------------------------------------------------------------------------
\* What it means for the requests.

\* Whatever other requests, dummy rows and failed calls wrote in between, the pages of
\* a running request hold its sequence in order, and the next token always has a place:
\* FlashInfer's plan never meets its assertion (engine.py, flashinfer_decoder.py).
THEOREM PagesHold == Spec => []PagesHoldSequence
<1>1. EInv => PagesHoldSequence
  <2> SUFFICES ASSUME EInv PROVE PagesHoldSequence
    OBVIOUS
  <2>1. \A r \in Range(running) :
           ReadPrefix(mem, kv[r], KvLength(r)) = SequenceOf(r, KvLength(r))
    BY DEF EInv, Stored
  <2>2. ASSUME CanDecode PROVE Plannable(Rows(running))
    <3>1. PICK rows : rows = Rows(running)
      OBVIOUS
    <3>2. RowsFit(rows)
      BY <2>2, <3>1, RowsOfRunning DEF EInv
    <3>3. ASSUME NEW k \in DOMAIN rows PROVE PagesUsed(rows[k]) <= Len(rows[k].table)
      <4>1. k \in 1 .. Len(rows)
        BY <3>2 DEF RowsFit
      <4>2. PagesNeeded(rows[k].length + 1) <= Len(rows[k].table)
        BY <3>2, <4>1, RowParts
      <4> QED BY <4>2 DEF PagesUsed, PagesNeeded
    <3> QED BY <3>1, <3>3 DEF Plannable
  <2> QED BY <2>1, <2>2 DEF PagesHoldSequence
<1> QED BY <1>1, EngineInductive, PTL

\* After every call that sampled, each token was computed from its own request's
\* sequence, all of it and nothing else, in whatever row of whatever kernel.
THEOREM Sampling == Spec => []SampledFromOwnSequence
<1>1. Init => SampledFromOwnSequence
  BY DEF Init, NothingSeen, SampledFromOwnSequence
<1>2. EInv /\ SampledFromOwnSequence /\ [Next]_vars => SampledFromOwnSequence'
  <2> SUFFICES ASSUME EInv, SampledFromOwnSequence, [Next]_vars
               PROVE  SampledFromOwnSequence'
    OBVIOUS
  <2> USE DEF EInv
  <2>1. ASSUME seen' = NothingSeen PROVE SampledFromOwnSequence'
    BY <2>1 DEF NothingSeen, SampledFromOwnSequence
  <2>2. CASE BatchedPrefill
    <3>1. PICK rs \in Seq(Requests) : rs = toPrefill /\ rs # <<>> /\ IsInjective(rs)
      BY <2>2 DEF BatchedPrefill, EngineTypes, Lists
    <3>2. PICK results : results = PrefillSeen(rs)
      OBVIOUS
    <3>3. /\ numOutput' \in [Requests -> Nat]
          /\ \A r \in Range(rs) : numOutput'[r] = numOutput[r] + 1
          /\ \A r \in Requests : r \notin Range(rs) => seen'[r] = <<>>
          /\ \A i \in DOMAIN rs : seen'[rs[i]] = results[i]
      <4>1. Sampled(rs, results)
        BY <2>2, <3>1, <3>2 DEF BatchedPrefill
      <4> QED BY <3>1, <4>1, OneTokenEach
    <3>4. \A i \in DOMAIN rs : results[i] = SequenceOf(rs[i], numInput[rs[i]])
      BY <3>1, <3>2, PrefillFills
    <3>5. ASSUME NEW r \in Requests, seen'[r] # <<>>
          PROVE  seen'[r] = SequenceOf(r, numInput'[r] + numOutput'[r] - 1)
      <4>1. PICK i \in DOMAIN rs : rs[i] = r
        BY <3>3, <3>5 DEF Range
      <4>2. r \in Range(toPrefill) /\ r \in Range(rs)
        BY <3>1, <4>1 DEF Range
      <4>3. numInput[r] \in Nat /\ numOutput'[r] = 1 /\ numInput' = numInput
        BY <2>2, <3>3, <4>2, AdmittedHasRoom DEF BatchedPrefill
      <4>4. numInput'[r] + numOutput'[r] - 1 = numInput[r]
        BY <4>3
      <4> QED BY <3>3, <3>4, <4>1, <4>4
    <3> QED BY <3>5 DEF SampledFromOwnSequence, SequenceOf, Entry
  <2>3. CASE BatchedDecode
    <3>1. PICK result, results :
             /\ result = Forward(Rows(running))
             /\ results = [i \in DOMAIN running |->
                             result.seen[InverseOrder(RowOrder(running))[i]]]
      OBVIOUS
    <3>2. CanDecode /\ Sampled(running, results) /\ numInput' = numInput
      BY <2>3, <3>1 DEF BatchedDecode
    <3>3. running \in Seq(Requests) /\ IsInjective(running)
      BY DEF EngineTypes, Lists
    <3>4. /\ \A r \in Range(running) : numOutput'[r] = numOutput[r] + 1
          /\ \A r \in Requests : r \notin Range(running) => seen'[r] = <<>>
          /\ \A i \in DOMAIN running : seen'[running[i]] = results[i]
      BY <3>2, <3>3, OneTokenEach
    <3>5. \A i \in DOMAIN running :
             results[i] = SequenceOf(running[i], KvLength(running[i]) + 1)
      <4>1. \A i \in DOMAIN running :
               result.seen[InverseOrder(RowOrder(running))[i]]
                  = SequenceOf(running[i], KvLength(running[i]) + 1)
        BY <3>1, <3>2, DecodeForward
      <4> QED BY <3>1, <4>1
    <3>6. ASSUME NEW r \in Requests, seen'[r] # <<>>
          PROVE  seen'[r] = SequenceOf(r, numInput'[r] + numOutput'[r] - 1)
      <4>1. PICK i \in DOMAIN running : running[i] = r
        BY <3>4, <3>6 DEF Range
      <4>2. r \in Range(running)
        BY <4>1 DEF Range
      <4>3. KvLength(r) + 1 = numInput[r] + numOutput[r]
        BY <3>2, <4>2, DecodingHasRoom DEF CanDecode
      <4>4. numInput'[r] + numOutput'[r] - 1 = numInput[r] + numOutput[r]
        <5>1. PICK i2 \in Nat, o \in Nat : i2 = numInput[r] /\ o = numOutput[r]
          BY DEF EngineTypes
        <5> QED BY <3>2, <3>4, <4>2, <5>1
      <4> QED BY <3>4, <3>5, <4>1, <4>3, <4>4
    <3> QED BY <3>6 DEF SampledFromOwnSequence, SequenceOf, Entry
  <2>4. CASE UNCHANGED vars
    BY <2>4 DEF vars, requestVars, SampledFromOwnSequence, SequenceOf, Entry
  <2>5. CASE Admit \/ PrefillRaises \/ DecodeRaises
             \/ \E r \in Requests : Finish(r) \/ Evict(r)
    BY <2>1, <2>5 DEF Admit, PrefillRaises, DecodeRaises, Finish, Evict, Leave
  <2> QED BY <2>2, <2>3, <2>4, <2>5 DEF Next
<1> QED BY <1>1, <1>2, EngineInductive, PTL DEF Spec

\* The rows a replay fills a bucket up with point to the scratch page, whichever batch
\* was in the bucket before (cuda_graph_runner.py, replay_paged_decode).
THEOREM DummiesSafe == Spec => []DummyRowsAreSafe
<1>1. EInv => DummyRowsAreSafe
  BY DEF EInv, DummiesStaged
<1> QED BY <1>1, EngineInductive, PTL

\* A page of a request is no other's and not free; the scratch page is nobody's.
LEMMA PagesAreOwn ==
    ASSUME EInv
    PROVE  /\ \A r \in Requests : \A p \in Range(kv[r]) : p \notin PagesBesides({r})
           /\ kernel = "cuda_graph" => ScratchPage \notin PagesBesides({})
<1>1. ASSUME NEW r \in Requests, NEW p \in Range(kv[r]) PROVE p \notin PagesBesides({r})
  <2>1. p \notin Range(free)
    BY DEF EInv, Holdings
  <2>2. \A q \in Requests \ {r} : p \notin Range(kv[q])
    BY DEF EInv, Holdings
  <2> QED BY <2>1, <2>2 DEF PagesBesides
<1>2. kernel = "cuda_graph" => ScratchPage \notin PagesBesides({})
  BY DEF EInv, Holdings, PagesBesides
<1> QED BY <1>1, <1>2

\* Every write of a call, whether it returns or raises, is the entry of a token of a
\* request that it was called for, at the token's own position, in a page that is that
\* request's alone (batched_prefill, batched_decode), or is to the scratch page.
THEOREM WritesStay == Spec => WritesStayInBatch
<1>1. EInv /\ [Next]_vars =>
         [\A s \in Slots :
             mem'[s] # mem[s] =>
                \/ \E r \in Range(toPrefill) : \E t \in 0 .. numInput[r] - 1 : Stores(s, r, t)
                \/ toPrefill = <<>> /\ \E r \in Range(running) : Stores(s, r, KvLength(r))
                \/ /\ toPrefill = <<>> /\ kernel = "cuda_graph"
                   /\ s \div PageSize = ScratchPage /\ ScratchPage \notin PagesBesides({})]_vars
  <2> SUFFICES ASSUME EInv, [Next]_vars, NEW s \in Slots, mem'[s] # mem[s]
               PROVE  \/ \E r \in Range(toPrefill) : \E t \in 0 .. numInput[r] - 1 :
                            Stores(s, r, t)
                      \/ /\ toPrefill = <<>>
                         /\ \E r \in Range(running) : Stores(s, r, KvLength(r))
                      \/ /\ toPrefill = <<>> /\ kernel = "cuda_graph"
                         /\ s \div PageSize = ScratchPage
                         /\ ScratchPage \notin PagesBesides({})
    OBVIOUS
  <2>1. /\ EngineTypes /\ Lists /\ Holdings
        /\ Range(toPrefill) \subseteq Requests /\ Range(running) \subseteq Requests
    BY RangeType DEF EInv, EngineTypes
  <2>2. CASE toPrefill # <<>> /\ PrefillWrites
    <3>1. PICK m : m = Written(PackedSlots(toPrefill), Packed(toPrefill))
      OBVIOUS
    <3>2. m = mem'
      BY <2>2, <3>1 DEF PrefillWrites
    <3>3. \A x \in Slots : m[x] # mem[x] =>
             \E r \in Range(toPrefill) : \E t \in 0 .. numInput[r] - 1 :
                /\ x = Slot(kv[r], t)
                /\ x \div PageSize \in Range(kv[r])
                /\ m[x] = Entry(<<r, t>>, t)
      BY <2>1, <2>2, <3>1, PrefillFills
    <3>4. PICK r \in Range(toPrefill) : \E t \in 0 .. numInput[r] - 1 :
             /\ s = Slot(kv[r], t)
             /\ s \div PageSize \in Range(kv[r])
             /\ m[s] = Entry(<<r, t>>, t)
      BY <3>2, <3>3
    <3>5. PICK t \in 0 .. numInput[r] - 1 :
             /\ s = Slot(kv[r], t)
             /\ s \div PageSize \in Range(kv[r])
             /\ m[s] = Entry(<<r, t>>, t)
      BY <3>4
    <3>6. s \div PageSize \notin PagesBesides({r})
      BY <2>1, <3>5, PagesAreOwn
    <3>7. Stores(s, r, t)
      BY <3>2, <3>5, <3>6 DEF Stores
    <3> QED BY <3>7
  <2>3. CASE CanDecode /\ mem' = Forward(Rows(running)).mem
    <3>1. PICK result : result = Forward(Rows(running))
      OBVIOUS
    <3>2. result.mem = mem' /\ toPrefill = <<>>
      BY <2>3, <3>1 DEF CanDecode
    <3>3. \A x \in Slots :
             result.mem[x] # mem[x] =>
                \/ \E r \in Range(running) :
                      /\ x = Slot(kv[r], KvLength(r))
                      /\ x \div PageSize \in Range(kv[r])
                      /\ result.mem[x] = Entry(<<r, KvLength(r)>>, KvLength(r))
                \/ kernel = "cuda_graph" /\ x \div PageSize = ScratchPage
      BY <2>3, <3>1, DecodeForward
    <3>4. CASE kernel = "cuda_graph" /\ s \div PageSize = ScratchPage
      BY <3>2, <3>4, PagesAreOwn
    <3>5. CASE \E r \in Range(running) :
                  /\ s = Slot(kv[r], KvLength(r))
                  /\ s \div PageSize \in Range(kv[r])
                  /\ result.mem[s] = Entry(<<r, KvLength(r)>>, KvLength(r))
      <4>1. PICK r \in Range(running) :
               /\ s = Slot(kv[r], KvLength(r))
               /\ s \div PageSize \in Range(kv[r])
               /\ result.mem[s] = Entry(<<r, KvLength(r)>>, KvLength(r))
        BY <3>5
      <4>2. s \div PageSize \notin PagesBesides({r})
        BY <2>1, <4>1, PagesAreOwn
      <4>3. Stores(s, r, KvLength(r))
        BY <3>2, <4>1, <4>2 DEF Stores
      <4> QED BY <3>2, <4>3
    <3> QED BY <3>2, <3>3, <3>4, <3>5
  <2>4. mem' # mem
    OBVIOUS
  <2>5. ~ UNCHANGED vars /\ ~ Admit /\ ~ \E r \in Requests : Finish(r) \/ Evict(r)
    BY <2>4 DEF vars, Admit, Finish, Evict, Leave
  <2>6. \/ toPrefill # <<>> /\ PrefillWrites
        \/ CanDecode /\ mem' = Forward(Rows(running)).mem
    <3>1. CASE BatchedPrefill
      BY <3>1 DEF BatchedPrefill
    <3>2. CASE PrefillRaises
      BY <2>4, <3>2 DEF PrefillRaises
    <3>3. CASE BatchedDecode
      BY <3>3 DEF BatchedDecode
    <3>4. CASE DecodeRaises
      BY <2>4, <3>4 DEF DecodeRaises
    <3> QED BY <2>5, <3>1, <3>2, <3>3, <3>4 DEF Next
  <2> QED BY <2>2, <2>3, <2>6
<1> QED BY <1>1, EngineInductive, PTL DEF Spec, WritesStayInBatch

=============================================================================
