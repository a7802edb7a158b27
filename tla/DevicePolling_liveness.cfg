SPECIFICATION FairSpec
CONSTANTS
  Devices = {d1, d2}
  SlowDevices = {d2}
  Workers = 2
  Contexts = {"snmp"}
  Results = {"data"}
  MaxCycle = 3
  MaxFaults = 1
PROPERTIES
  OthersAreServed
CHECK_DEADLOCK FALSE
