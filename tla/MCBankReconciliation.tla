------------------------- MODULE MCBankReconciliation -------------------------
(* Sessions are interchangeable; safety may be checked up to it. *)
EXTENDS BankReconciliation, TLC

Symmetry == Permutations(Sessions)
=============================================================================
