SPECIFICATION RetentionSpec
CONSTANTS
  Slots = 4
  Weeks = 1
  Lead = 1
  Delay = 2
  MaxCycle = 9
  LastPoll = 7
  Required = 2
  Kept = 7
  Batch = 1
CONSTRAINT DetailInTheWeeksOnly
INVARIANTS
  RetentionTypeOK
  SustainedIsMaximal
  AbnormalIffDownAtEnd
PROPERTIES
  KeptWeekIsSettled
  CascadeIsSmall
CHECK_DEADLOCK FALSE
