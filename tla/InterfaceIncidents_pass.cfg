SPECIFICATION Spec
CONSTANTS
  Interfaces = {i1, i2}
  MaxPolls = 6
INVARIANTS
  TypeOK
  ValidSamplesDecide
PROPERTIES
  KeepsLedger
CHECK_DEADLOCK FALSE
