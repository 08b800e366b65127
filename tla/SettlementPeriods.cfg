SPECIFICATION Spec
CONSTANTS
  Invoices = {i1}
  CreditNotes = {n1}
  Receipts = {r1}
  NPeriods = 2
  Amounts = {2}
  Rates = {3}
  RateScale = 2
  MaxVersion = 1
  MaxReopen = 2
CHECK_DEADLOCK FALSE
INVARIANTS
  NoDraftInClosedPeriod
  ClosedInOrder
PROPERTIES
  ClosedPeriodFrozen
