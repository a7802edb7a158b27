SPECIFICATION Spec
CONSTANTS
  MaxWeek = 1
  Requesters = {r1}
  MaxJobs = 2
  MaxFaults = 1
INVARIANTS
  InsertFindsItsJob
