SPECIFICATION Spec
CONSTANTS
  Members = {1, 2}
  Roles = {"master", "standby"}
  MaxAnswer = 1
  Week = 3
  MaxTime = 6
  MaxAnswers = 3
INVARIANTS
  TypeOK
  MissingMeansReportedAbsent
  WindowsAreRuns
  RoleChangesAreReliable
PROPERTIES
  SummaryIsSettled
CHECK_DEADLOCK FALSE
