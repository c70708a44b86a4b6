SPECIFICATION FairSpec
CONSTANTS
  MaxRuns = 1
  MaxClaims = 2
  MaxJobs = 1
  MaxChecks = 3
  Features = {"video", "crash", "defer", "logfail"}
  Logical = TRUE
  Async = TRUE
  Cancellers = {c1}
PROPERTIES
  TaskEnds
  CancelledIsBilled
CHECK_DEADLOCK FALSE
