SPECIFICATION FairSpec
CONSTANTS
  Tenants = 3
  Jobs = 2
  FailureCap = 1
  Stores = {s1, s2}
  MaxRuns = 2
  MaxErrors = 2
  MaxSaveFails = 1
  NoStore = NoStore
  NoWorker = NoWorker
INVARIANTS ReadyIsProvisioned OkMeansMade
PROPERTIES ReadyKept ProvisionReturns
CHECK_DEADLOCK FALSE
