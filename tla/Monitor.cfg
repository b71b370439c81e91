SPECIFICATION Spec
CONSTANTS
  Statuses = {"Up", "NoSignal", "Initializing", "EstablishingLink"}
  MaxNow = 2
  MaxEvents = 6
  MaxBounces = 2
  Nothing = Nothing
INVARIANTS UptimeCounts TcAnnounced LedSettles
CHECK_DEADLOCK FALSE
