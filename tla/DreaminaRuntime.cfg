SPECIFICATION Spec
CONSTANTS
  Runtimes = {r1, r2}
  Keys = {k1, k2}
  MaxActive = 1
  MaxEnqueues = 1
  MaxCrashes = 1
  MaxSessions = 0
  Features = {"crash", "stall", "lost", "login", "users", "legacy", "fickle"}
  Nobody = Nobody
SYMMETRY Symmetry
INVARIANTS
  TypeOK
  
  SlotsSuffice
PROPERTIES
  EndedStays
  
CHECK_DEADLOCK FALSE
