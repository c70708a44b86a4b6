SPECIFICATION Spec
CONSTANTS
  MaxRuns = 2
  MaxClaims = 2
  MaxJobs = 2
  MaxChecks = 3
  Features = {"retry", "crash", "stall", "unsaved"}
  Logical = FALSE
  Async = FALSE
  Cancellers = {c1, c2}
SYMMETRY Symmetry
INVARIANTS
  OneConclusion
  DeliveredIsNotRefunded
PROPERTIES
  EndedRunsStay
CHECK_DEADLOCK FALSE
