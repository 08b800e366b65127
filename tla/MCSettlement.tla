---------------------------- MODULE MCSettlement ----------------------------
(***************************************************************************)
(* Small instances of Settlement for TLC.                                  *)
(***************************************************************************)
EXTENDS Settlement, TLC

\* Receipts differ in nothing but their allocations.
Symmetry == Permutations(Receipts)
=============================================================================
