SPECIFICATION Spec
CONSTANTS
  Tabs = {t1, t2}
  NoTab = nobody
  Nodes = {g, m}
  Target = g
  Effects = {e1}
  ShownFirst = {FALSE}
  MaxEdits = 3
  MaxTries = 0
  MaxFailures = 0
  MaxReopens = 0
PROPERTIES
  SavesOwnChanges
CHECK_DEADLOCK FALSE
