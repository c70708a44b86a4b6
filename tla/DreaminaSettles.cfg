SPECIFICATION FairSpec
CONSTANTS
  Runtimes = {r1, r2}
  Keys = {k1}
  MaxActive = 1
  MaxEnqueues = 2
  MaxCrashes = 2
  MaxSessions = 1
  Features = {"crash", "dispose", "busy", "lost", "login", "users", "legacy"}
  Nobody = Nobody
INVARIANTS
  OneSpawnPerKey
  OneCliInItsSession

  
CHECK_DEADLOCK FALSE
