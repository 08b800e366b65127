SPECIFICATION Spec
CONSTANTS
  Invoices = {i1, i2}
  CreditNotes = {n1}
  Receipts = {r1, r2}
  NPeriods = 1
  Amounts = {1, 3}
  Rates = {1, 3}
  RateScale = 2
  MaxVersion = 0
  MaxReopen = 0
SYMMETRY Symmetry
CHECK_DEADLOCK FALSE
INVARIANTS
  TypeOK
  OutstandingIsUnsettled
  OutstandingBaseIsUnsettled
  SubledgerReconciled
  ReversedInvoiceUnsettled
  PostedCanBeReversed
  LedgerMatchesSubledger
