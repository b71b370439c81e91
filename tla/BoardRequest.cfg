SPECIFICATION FairSpec
CONSTANTS
  Ops = {1, 2, 3}
  Statuses = {0, 2}
  MaxRetries = 1
  SeqMod = 2
  SettledRestarts = TRUE
  MaxCalls = 3
  MaxNet = 2
  MaxJunk = 1
INVARIANTS OkMeansApplied WireInv
PROPERTIES ImplementsRpc RequestReturns
