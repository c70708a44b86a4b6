SPECIFICATION FairSpec
CONSTANTS
  Procs = {p1, p2}
  MaxNonces = 3
  MaxCrashes = 2
  Withdrawals = {2}
  Absent = Absent
  Faults = {"crash", "io"}
INVARIANTS
  AckedSurvives
  OneWriter
PROPERTIES
  WritesAreAtomic
  OrphanedLockGoes
CHECK_DEADLOCK FALSE
