SPECIFICATION Spec
CONSTANTS
  Lags = {l1, l2}
  Ports = {p1}
  Indexes = {i1, i2, i3}
  l1 = l1
  l2 = l2
  p1 = p1
  i1 = i1
  i2 = i2
  i3 = i3
  MaxChanges = 2
  MaxSelections = 1
INVARIANTS
  TypeOK
  SelectionSurvives
  SuccessIsReconciled
PROPERTIES
  LossNeedsEvidence
SYMMETRY Interchangeable
CHECK_DEADLOCK FALSE
