SPECIFICATION FairSpec
CONSTANTS
  Drills <- AllDrills
  Segments = 3
  ChunkSize = 1
  Attempts = 2
  Patience = 1
  GiveUp = 2
  Tpcb = TRUE
  MaxIds = 0
  MaxLost = 0
  MaxDeaths = 1
INVARIANTS RtoMeansRecovery OneNode
PROPERTY SoakEnds
CHECK_DEADLOCK FALSE
