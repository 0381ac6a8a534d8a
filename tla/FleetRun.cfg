SPECIFICATION FairSpec
CONSTANTS
  Clients = {c1, c2}
  Tenants = 2
  FailureCap = 1
  MaxSends = 2
  Options <- SomeOptions
  WorkingSet = 1
  MaxRuns = 2
INVARIANTS TypeOK OutcomeIsTruth DeltaExplained NodesAccounted
PROPERTY FleetReturns
CHECK_DEADLOCK FALSE
