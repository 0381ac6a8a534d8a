SPECIFICATION FairSpec
CONSTANTS
  Sockets = 3
  Shards = 2
  Dialers = 1
  Writers = 1
  Rows = 2
  Batch = 2
  Cols = 2
  Warmup = 1
  Duration = 1
  Drain = 1
  MaxStatements = 1
  MaxRefused = 1
  MaxLost = 1
  InsertErrors = TRUE
  Interrupts = TRUE
INVARIANTS TypeOK CountedOnce OwedIsCommitted MissingIsExact CountersMatch RampSettles
PROPERTY RunEnds
CHECK_DEADLOCK FALSE
