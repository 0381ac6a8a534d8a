SPECIFICATION Spec
CONSTANTS
  Segments = 2
  Scenarios <- SomeScenarios
  Statuses <- SomeStatuses
  Reports <- SomeReports
  Counts = {1}
INVARIANTS PublishedIsJudged CutIsCounted
PROPERTIES SavesAtomically
CHECK_DEADLOCK FALSE
