SPECIFICATION Spec
CONSTANTS
  Sockets = 2
  Shards = 2
  Dialers = 1
  Writers = 1
  Rows = 1
  Batch = 1
  Cols = 2
  Warmup = 0
  Duration = 1
  Drain = 1
  MaxStatements = 1
  MaxRefused = 1
  MaxLost = 0
  InsertErrors = FALSE
  Interrupts = FALSE
INVARIANT WrittenShardsHaveSockets
CHECK_DEADLOCK FALSE
