SPECIFICATION Spec
CONSTANTS
  Width = 3
  Speeds = {1, 2}
  MaxInterval = 2
  MaxTime = 4
  MaxRows = 3
  MaxUpsets = 1
INVARIANTS
  TypeOK
  NoFabricatedTraffic
  WeeklyDeltaIsReal
  UndisturbedIsExact
CHECK_DEADLOCK FALSE
