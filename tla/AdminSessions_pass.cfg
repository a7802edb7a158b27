SPECIFICATION Spec
CONSTANTS
  Tokens = {t1, t2}
  NoToken = none
  Requests = {r1, r2}
  Absolute = 5
  Idle = 3
  Delay = 1
  MaxTime = 7
  MaxAccounts = 1
SYMMETRY Interchangeable
INVARIANTS
  TypeOK
PROPERTIES
  KeepsSessions
  RefusalsAreDeserved
  PurgeTakesTheLapsed
CHECK_DEADLOCK FALSE
