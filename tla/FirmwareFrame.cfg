SPECIFICATION Spec
CONSTANTS
  Lens = {2097152}
  HeaderSize = 256
  ChunkSize = 1024
  TxBufSize = 212
  MaxUpgrades = 1
INVARIANT NoPanic
CHECK_DEADLOCK FALSE
