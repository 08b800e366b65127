SPECIFICATION Spec
CONSTANTS
  Requests = {r1, r2}
  Fingerprints = {f1, f2}
  MaxAttempts = 3
CHECK_DEADLOCK FALSE
INVARIANTS
  TypeOK
  DoneOnceIffSucceeded
  RecoveryIsProof
PROPERTIES
  KeepsPromise
  EventuallyAnswered
