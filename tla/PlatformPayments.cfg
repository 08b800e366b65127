SPECIFICATION Spec
CONSTANTS
  Attempts = {a1, a2}
  Calls = {c1, c2}
  Due = 2
  Reports = {}
  NoAttempt = none
SYMMETRY Symmetry
INVARIANTS
  TypeOK
  TakenIsBooked
PROPERTIES
  Collects
CHECK_DEADLOCK FALSE
