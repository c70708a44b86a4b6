SPECIFICATION FairSpec
CONSTANTS
  Tabs = {t1}
  NoTab = nobody
  Nodes = {g, m}
  Target = g
  Effects = {e1}
  ShownFirst = {TRUE, FALSE}
  MaxEdits = 3
  MaxTries = 2
  MaxFailures = 1
  MaxReopens = 1
INVARIANTS
  StampsAreCommitted
  Settled
PROPERTIES
  ResultIsKept
CHECK_DEADLOCK FALSE
