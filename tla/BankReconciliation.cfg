SPECIFICATION Spec
CONSTANTS
  Sessions = {s1, s2}
  Days = {1, 2}
  Amounts = {1}
  References = {r1}
  NoReference = none
  Windows = {1}
  MaxLines = 2
  MaxDocuments = 2
SYMMETRY Symmetry
INVARIANTS
  TypeOK
  OneToOne
PROPERTIES
  DifferenceIsWhatIsOpen
CHECK_DEADLOCK FALSE
