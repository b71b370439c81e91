SPECIFICATION Spec
CONSTANTS
  Procs = {svc, man}
  Service = svc
  Vlans = {v0, v1}
  TestVlan = v1
  Nothing = Nothing
  RequestTime = 0
  ClientTime = 0
  UbusTime = 0
  Deadline = 0
  TermTimeout = 10
  MaxStarts = 2
  MaxFaults = 2
  MaxEdits = 0
  MaxTests = 1
  MaxReads = 1
INVARIANTS Reachable VlanReady VlanMatchesLink NoLeak
CHECK_DEADLOCK FALSE
