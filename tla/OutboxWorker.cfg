SPECIFICATION Spec
CONSTANTS
  Events = {e1}
  Workers = {w1, w2}
  Lease = 2
  Timeout = 1
  MaxBackoff = 2
  BatchSize = 1
  MaxAttempts = 3
  MaxFaults = 2
  MaxStall = 3
CHECK_DEADLOCK FALSE
INVARIANTS
  TypeOK
  ProcessedWasDelivered
  AttemptsWithinFaults
  LeaseLostOnlyWhenLate
PROPERTIES
  VerdictIsFinal
  EventuallyDecided
