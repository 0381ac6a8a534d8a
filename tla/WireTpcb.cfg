SPECIFICATION FairSpec
CONSTANTS
  Clients = 2
  Last = 3
  MaxRounds = 2
  MaxErrors = 2
  MaxBreaks = 1
  MaxStrays = 1
INVARIANTS TypeOK AnswersAreOwn RoundsStartClean TimedIsCommitted NoConnLeft
PROPERTIES RunReturns
CHECK_DEADLOCK FALSE
