SPECIFICATION Spec
CONSTANTS
  NPeriods = 1
  Users = {u1, u2}
  sales = sales
  services = services
  rent = rent
  Revenues = {sales, services}
  Expenses = {rent}
  Effects <- IncomeAndReversal
  MaxDocs = 2
  MaxDrafts = 1
  MaxIssues = 1
  MaxEdits = 2
  MaxVersion = 4
  MaxCycle = 2
SYMMETRY Symmetry
CHECK_DEADLOCK FALSE
INVARIANTS
  TypeOK
  PendingMatchesRun
  ReviewedWasApproved
  OneLiveRun
