-------------------------- MODULE MCFinancialClose --------------------------
(***************************************************************************)
(* Small instances of FinancialClose for TLC: two revenue accounts and one *)
(* expense account.                                                        *)
(***************************************************************************)
EXTENDS FinancialClose, TLC

CONSTANTS sales, services, rent

\* A document that debits account a and credits account b, where they are
\* result accounts, by one unit.
Entry(a, b) ==
  [x \in {sales, services, rent} |-> IF x = a THEN 1 ELSE IF x = b THEN -1 ELSE 0]

Income == Entry("ASSET", sales)
IncomeReversed == Entry(sales, "ASSET")
Expense == Entry(rent, "ASSET")
Barter == Entry(rent, sales)
Reclassification == Entry(sales, services)

IncomeAndReversal == {Income, IncomeReversed}
BarterAndReclassification == {Barter, Reclassification}
OneExpense == {Expense}

Symmetry == Permutations(Users)
=============================================================================
