SPECIFICATION FairSpec
CONSTANTS
  MaxWeek = 2
  Requesters = {r1}
  MaxJobs = 3
  MaxFaults = 3
INVARIANTS
  TypeOK
  OneActiveJobPerWeek
  OwedSwitchHasCandidate
PROPERTIES
  SuccessIsTerminal
  KeepsPromise
  Delivers
  EveryJobSucceeds
  CompletedWeekIsReported
  ReconciliationCompletes
