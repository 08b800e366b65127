SPECIFICATION Spec
CONSTANTS
  NPeriods = 1
  Users = {u1, u2}
  sales = sales
  services = services
  rent = rent
  Revenues = {sales, services}
  Expenses = {rent}
  Effects <- OneExpense
  MaxDocs = 2
  MaxDrafts = 0
  MaxIssues = 0
  MaxEdits = 3
  MaxVersion = 1
  MaxCycle = 2
SYMMETRY Symmetry
CHECK_DEADLOCK FALSE
INVARIANTS
  CloseEntryStandsWithClose
