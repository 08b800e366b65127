SPECIFICATION Spec
CONSTANTS
  NPeriods = 2
  Users = {u1, u2}
  sales = sales
  services = services
  rent = rent
  Revenues = {sales, services}
  Expenses = {rent}
  Effects <- BarterAndReclassification
  MaxDocs = 2
  MaxDrafts = 0
  MaxIssues = 0
  MaxEdits = 2
  MaxVersion = 1
  MaxCycle = 2
SYMMETRY Symmetry
CHECK_DEADLOCK FALSE
INVARIANTS
  ClosedBooksWereApproved
  YearFollowsPeriods
  FirstCloseEntryStandsWithClose
