--------------------------- MODULE ClassicEngine ---------------------------
(***************************************************************************)
(* The per-request KV caches of the classic engine paths                   *)
(* (miniengine/engine.py, _prefill_classic, decode_step and                *)
(* _batched_decode_classic; miniengine/model.py, _attn_kernel without      *)
(* paged_metadata).                                                        *)
(*                                                                         *)
(* A cache is a sequence of keys.  A key stands for the key and value of   *)
(* one token: whose token, its place in that request's sequence (from 1),  *)
(* and the position it was rotated to (from 0).  All layers hold the same. *)
(***************************************************************************)
EXTENDS Naturals, Sequences, FiniteSetsExt, SequencesExt

Key(r, place, position) == [of |-> r, place |-> place, at |-> position]

\* The zeros of F.pad, in a place where attention could see them.
Padding == Key("padding", 0, 0)

\* What a forward pass of a token at place n of r should attend to, itself included.
OwnSequence(r, n) == {Key(r, i, i - 1) : i \in 1 .. n}

\* The cache that a prefill of r's first n tokens leaves.
PrefilledCache(r, n) == [i \in 1 .. n |-> Key(r, i, i - 1)]

\* max_cache_len of the rows of a batch.
MaxCacheLen(cache, rows) == Max({Len(cache[r]) : r \in rows} \cup {0})

Padded(keys, n) == keys \o [i \in 1 .. n - Len(keys) |-> Padding]

\* Row r of the batch after the forward pass, which appends the key of its input
\* token at the position given by position_ids, the length of its cache.
FullRow(cache, rows, r, input) ==
    Append(Padded(cache[r], MaxCacheLen(cache, rows)), Key(r, input, Len(cache[r])))

\* Slip: nothing is masked, every row sees the padding of the shorter ones.
NoWindow(cl, longest) == {}

\* The window of the attention mask that is -inf.
PaddingWindow(cl, longest) == cl + 1 .. longest

\* What row r attends to.
Attended(cache, rows, r, input) ==
    LET full == FullRow(cache, rows, r, input)
    IN  {full[i] : i \in DOMAIN full \ PaddingWindow(Len(cache[r]), MaxCacheLen(cache, rows))}

\* The real prefix and the new token, cut out of the padded row.
Extracted(full, cl) == Append(SubSeq(full, 1, cl), Last(full))

=============================================================================
