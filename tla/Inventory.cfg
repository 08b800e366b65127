SPECIFICATION Spec
CONSTANTS
  Warehouses = {w1, w2}
  Sessions = {s1}
  Quantities = {1, 2}
  UnitCosts = {4}
  Nets = {5}
  Scale = 10
  Legacy = {w1}
  LegacyStock = 2
  MaxMovements = 4
  Nowhere = none
INVARIANTS
  TypeOK
  LedgerAgreesWithStock
  CreditsGiveBackTheCost
PROPERTIES
  SettledAsCounted
CHECK_DEADLOCK FALSE
