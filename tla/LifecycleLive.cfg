SPECIFICATION FairSpec
CONSTANTS
  Procs = {svc}
  Service = svc
  Vlans = {v0, v1}
  TestVlan = v1
  Nothing = Nothing
  RequestTime = 8
  ClientTime = 5
  UbusTime = 5
  Deadline = 3
  TermTimeout = 10
  MaxStarts = 2
  MaxFaults = 1
  MaxEdits = 1
  MaxTests = 1
  MaxReads = 3
INVARIANT GracefulStop
PROPERTY ServiceRuns
CHECK_DEADLOCK FALSE
