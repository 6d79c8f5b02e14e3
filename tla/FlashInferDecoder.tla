------------------------- MODULE FlashInferDecoder -------------------------
(***************************************************************************)
(* miniengine/flashinfer_decoder.py: the plan is made once per decode step *)
(* from page tables and lengths; per layer the new keys and values are     *)
(* appended and the pages of the plan are attended to.                     *)
(***************************************************************************)
EXTENDS PagedMemory

\* n_pages_used of a row, after the append.
PagesUsed(row) == (row.length + 1 + PageSize - 1) \div PageSize

\* The assertion of plan().
Plannable(rows) == \A k \in DOMAIN rows : PagesUsed(rows[k]) <= Len(rows[k].table)

\* The arrays kv_indptr, kv_indices and kv_last_page_len.
Plan(rows) ==
    [indptr   |-> Offsets([k \in DOMAIN rows |-> PagesUsed(rows[k])]),
     indices  |-> FlattenSeq([k \in DOMAIN rows |->
                                SubSeq(rows[k].table, 1, PagesUsed(rows[k]))]),
     lastPage |-> [k \in DOMAIN rows |->
                     rows[k].length + 1 - (PagesUsed(rows[k]) - 1) * PageSize]]

\* The pages of row k in a plan, and how many positions of them are in use.
PlannedPages(plan, k) == SubSeq(plan.indices, plan.indptr[k] + 1, plan.indptr[k + 1])
PlannedLength(plan, k) ==
    (plan.indptr[k + 1] - plan.indptr[k] - 1) * PageSize + plan.lastPage[k]

\* attend_and_append: append_paged_kv_cache at the rows' positions, then run.
AttendAndAppend(rows) ==
    LET plan == Plan(rows)
        m == Written([k \in DOMAIN rows |-> Slot(PlannedPages(plan, k), rows[k].length)],
                     [k \in DOMAIN rows |-> Entry(rows[k].token, rows[k].position)])
    IN  [mem |-> m,
         seen |-> [k \in DOMAIN rows |->
                     ReadPrefix(m, PlannedPages(plan, k), PlannedLength(plan, k))]]

=============================================================================
