-------------------------- MODULE MCPagedScheduler --------------------------
(***************************************************************************)
(* PagedScheduler for TLC.  Requests are model values and interchangeable  *)
(* in every safety run; the liveness runs use no symmetry.                 *)
(***************************************************************************)
EXTENDS PagedScheduler

Symmetry == Permutations(Requests)

=============================================================================
