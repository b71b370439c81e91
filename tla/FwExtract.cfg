SPECIFICATION Spec
CONSTANTS
  Files <- MCFiles
  Argvs <- MCArgvs
  KeyFiles <- MCKeyFiles
  Recovered <- MCRecovered
  Base = 5
  TagHeader = 2
  SigLen = 1
  Block = 2
  KeyLen = 1
  VersionAt = 1
  Magic = 3
  Absent = Absent
  Stale = Stale
CHECK_DEADLOCK FALSE
INVARIANTS PartitionOut AbortLeavesOutput SecondAfterFirst DecryptInverts
