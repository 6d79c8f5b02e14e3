----------------------------- MODULE PagePool -----------------------------
(***************************************************************************)
(* What a page pool promises its callers, with no free list and no         *)
(* counters: every page has a set of owners, a page is handed out only     *)
(* while it has none, and it is shared only by an owner.                   *)
(***************************************************************************)
CONSTANTS Pages, Holders

VARIABLE owners     \* owners[p]: the holders whose page table lists p

Init == owners = [p \in Pages |-> {}]

Grab(h) ==
    \E S \in SUBSET {p \in Pages : owners[p] = {}} :
        owners' = [p \in Pages |-> IF p \in S THEN {h} ELSE owners[p]]

Alias(h, k) ==
    \E S \in SUBSET {p \in Pages : k \in owners[p]} :
        owners' = [p \in Pages |-> IF p \in S THEN owners[p] \cup {h} ELSE owners[p]]

Drop(h) == owners' = [p \in Pages |-> owners[p] \ {h}]

Next == \E h \in Holders : \/ Grab(h)
                           \/ \E k \in Holders \ {h} : Alias(h, k)
                           \/ Drop(h)

Spec == Init /\ [][Next]_owners

=============================================================================
