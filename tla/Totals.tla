------------------------------- MODULE Totals -------------------------------
(***************************************************************************)
(* Sums of amounts over a set of documents.                                *)
(*                                                                         *)
(* The code adds amounts up with Decimal.add in loops and with SQL         *)
(* aggregates (_sum).  A sum is defined here without recursion, as the     *)
(* number of money units the elements hold together, so that its laws      *)
(* follow from the library's theorems about cardinality (Totals_proofs).   *)
(***************************************************************************)
EXTENDS Integers, FiniteSets

\* One pair <<x, k>> for each of the f[x] units that an element x of S holds.
Units(S, f) == UNION {{x} \X (1 .. f[x]) : x \in S}

\* The sum of f[x] over x \in S, for f with values in Nat.
Total(S, f) == Cardinality(Units(S, f))

\* The sum of f[x] over x \in S, for f with values in Int.
Net(S, f) ==
  Total(S, [x \in S |-> IF f[x] > 0 THEN f[x] ELSE 0])
    - Total(S, [x \in S |-> IF f[x] < 0 THEN 0 - f[x] ELSE 0])
=============================================================================
