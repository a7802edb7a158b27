SPECIFICATION LateSpec
CONSTANTS
  MaxWeek = 1
  Requesters = {r1}
  MaxJobs = 2
  MaxFaults = 1
INVARIANTS
  OwedSwitchHasCandidate
