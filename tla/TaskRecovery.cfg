SPECIFICATION Spec
CONSTANTS
  MaxRuns = 1
  MaxClaims = 2
  MaxJobs = 1
  MaxChecks = 3
  Features = {"video", "recovery", "pollslot", "admin", "unsaved", "nousage", "logfail", "crash", "outage"}
  Logical = TRUE
  Async = TRUE
  Cancellers = {c1}
INVARIANTS
  TypeOK
  
  ConfirmedIsRefunded
PROPERTIES
  RestoredIsDelivered
CHECK_DEADLOCK FALSE
