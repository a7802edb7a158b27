SPECIFICATION Spec
CONSTANTS
  Devices = {d1}
  SlowDevices = {}
  Workers = 1
  Contexts = {"no", "snmp", "no_snmp"}
  Results = {"ssh", "dead"}
  MaxCycle = 6
  MaxFaults = 1
INVARIANTS
  TypeOK
  EvidenceDecides
  PollsDoNotOverlap
PROPERTIES
  ProcessedOnce
  KeepsLedger
CHECK_DEADLOCK FALSE
