SPECIFICATION WireSpec
CONSTANTS
  Checksum <- Crc4
  CellMod = 4
  Payloads <- MCPayloads
  Seqs = {0, 3}
  MinFrame = 9
  Burst = 2
  Sizes <- MCSizes
  ReplyLen = 2
  Chunk = 2
  MaxMsg = 3
  Pipe = 3
  MaxWaits = 1
  MaxReplies = 4
  Types = {1, 2}
  Data <- MCData
  Room = 10
  Nested = 8
  LenMod = 16
CHECK_DEADLOCK FALSE
INVARIANTS AcceptsWhatWasSent DamageDetected StreamsInOrder ReadsWhatWasPut
PROPERTY PollReturns
