SPECIFICATION Spec
CONSTANTS
  MaxRuns = 1
  MaxClaims = 2
  MaxJobs = 2
  MaxChecks = 3
  Features = {"crash", "outage", "unsaved", "nousage"}
  Logical = TRUE
  Async = TRUE
  Cancellers = {c1, c2}
SYMMETRY Symmetry
INVARIANTS
  OneJobPerRun
  
CHECK_DEADLOCK FALSE
