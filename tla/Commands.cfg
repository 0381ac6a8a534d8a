SPECIFICATION Spec
CONSTANTS
  Inits = {FALSE, TRUE}
  Warmups = {FALSE, TRUE}
  MaxWork = 4
  MaxBoots = 1
  Cycles = 2
  Polls = 3
  WarmN = 1
  Samples = 2
  ListN = 1
  LargeN = 2
  Attempts = 2
  Targets <- SomeTargets
  Results <- SomeResults
  MaxFiles = 2
  MaxInvocations = 2
  HoldSecs = 4
  Every = 1
  Settles = {0, 2}
  Drains = {2}
  Held = {0, 1}
  OpKinds = {"puts", "gets"}
  FlushSecs = 1
  MaxOps = 2
  MaxRestarts = 1
  HistWorkers = {w1, w2}
  Micros <- SomeMicros
  Decades = 4
  Asked = {500, 950, 999}
  Finite = {1, 15, 1000, 9999}
  MaxTimed = 3
  Slots = 2
  Segments = 2
  MaxCounted = 2
  MaxStoreBoots = 2
INVARIANTS LinesAreOwn AttachStops ProbeCleans BoardIsNewest PilesAreHonest PercentilesNearRank
           NeverOverstates ExactWithinBoot
CHECK_DEADLOCK FALSE
