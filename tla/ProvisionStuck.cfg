SPECIFICATION FairSpec
CONSTANTS
  Tenants = 3
  Jobs = 2
  FailureCap = 1
  Stores = {s1}
  MaxRuns = 1
  MaxErrors = 0
  MaxSaveFails = 2
  NoStore = NoStore
  NoWorker = NoWorker
PROPERTY ProvisionReturns
CHECK_DEADLOCK FALSE
