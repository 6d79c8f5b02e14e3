---------------------------- MODULE PagedMemory ----------------------------
(***************************************************************************)
(* What the pages of KVMemoryPool hold and how they are addressed: the     *)
(* slot mapping and the block tables of miniengine/kv_memory_pool.py, and  *)
(* the attention kernels of miniengine/model.py reduced to which slots     *)
(* they write and which they read.  The layers of the model are alike in   *)
(* this respect, so one memory stands for all of them.                     *)
(***************************************************************************)
EXTENDS KVMemoryPool, SequencesExt

VARIABLE mem        \* mem[s]: what slot s holds, NoEntry at first

Slots == 0 .. NumPages * PageSize - 1

\* Keys and values are computed from a token and the position it is fed at.
Entry(token, position) == <<token, position>>
NoEntry == <<>>

MemInit == mem = [s \in Slots |-> NoEntry]

\* The slot of the token at position t (from 0) of the sequence whose page table
\* is given.
Slot(table, t) == table[t \div PageSize + 1] * PageSize + (t % PageSize)

\* Slip: as if the pages of a table were neighbours.
SlotMappingContiguous(table, start, length) ==
    [i \in 1 .. length |-> table[1] * PageSize + start + i - 1]

\* slot_mapping_for_prefill(page_table, start_pos, length)
SlotMapping(table, start, length) ==
    [i \in 1 .. length |-> Slot(table, start + i - 1)]

\* A row of pad_block_table.
PadBlockTable(table, maxPages) == table \o [i \in 1 .. maxPages - Len(table) |-> 0]

\* The sums of the first 0, 1, ... elements of lens: where each request begins in
\* an array that packs them.
Offsets(lens) == [i \in 1 .. Len(lens) + 1 |-> FoldLeft(+, 0, SubSeq(lens, 1, i - 1))]

\* The memory after entries[i] is written to slots[i] for every i.
Written(slots, entries) ==
    [s \in Slots |->
        LET writers == {i \in DOMAIN slots : slots[i] = s}
        IN  IF writers = {} THEN mem[s]
            ELSE entries[CHOOSE i \in writers : \A j \in writers : j <= i]]

\* What a kernel reads of the first n positions of a page table.
ReadPrefix(m, table, n) == [t \in 1 .. n |-> m[Slot(table, t - 1)]]

----------------------------------------------------------------------------
\* A row of a decode batch: its input token, the position it is fed at, the number
\* of positions already in the pages, and the pages.
DecodeRow(token, length, table) ==
    [token |-> token, position |-> length, length |-> length, table |-> table]

\* flash_attn_with_kvcache: row k appends its entry after its length positions,
\* then attends to all of them.
FlashAttention(rows) ==
    LET m == Written([k \in DOMAIN rows |-> Slot(rows[k].table, rows[k].length)],
                     [k \in DOMAIN rows |-> Entry(rows[k].token, rows[k].position)])
    IN  [mem |-> m,
         seen |-> [k \in DOMAIN rows |-> ReadPrefix(m, rows[k].table, rows[k].length + 1)]]

=============================================================================
