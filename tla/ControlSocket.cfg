SPECIFICATION FairSpec
CONSTANTS
  Clients = {c1, c2, c3}
  Silent = {c3}
  MaxVersion = 1
  MaxPieces = 1
INVARIANTS ExitZeroMeans StatusNotOlder
PROPERTY CommandsTaken
CHECK_DEADLOCK FALSE
