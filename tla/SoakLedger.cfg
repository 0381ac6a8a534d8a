SPECIFICATION Spec
CONSTANTS
  Drills <- CrashOnly
  Segments = 2
  ChunkSize = 2
  Attempts = 2
  Patience = 1
  GiveUp = 1
  Tpcb = TRUE
  MaxIds = 3
  MaxLost = 1
  MaxDeaths = 0
INVARIANTS TypeOK NoFalseAlarm LossReported CleanSoak
CHECK_DEADLOCK FALSE
