SPECIFICATION FairSpec
CONSTANTS
  Lens = {9, 10, 11}
  HeaderSize = 2
  ChunkSize = 3
  TxBufSize = 212
  MaxUpgrades = 2
INVARIANTS AllSentAtVerify DoneMeansFlashed
PROPERTY UploadEnds
CHECK_DEADLOCK FALSE
