SPECIFICATION Spec
CONSTANTS
  Attempts = {a1}
  Calls = {c1, c2}
  Due = 1
  Reports = {"PENDING", "FAILED", "CANCELLED"}
  NoAttempt = none
INVARIANTS
  ClosedIsWithdrawn
PROPERTIES
  MoneyIsFollowed
CHECK_DEADLOCK FALSE
