SPECIFICATION FairSpec
CONSTANTS
  Tabs = {t1, t2}
  NoTab = nobody
  NoTask = none
  Tasks = {k1, k2}
  NodeTasks = {k1}
  Capacity = 2
  MaxFaults = 1
  MaxFence = 4
INVARIANTS
  TypeOK
  CompletedIsDelivered
PROPERTIES
  
  StoreProgresses
  
CHECK_DEADLOCK FALSE
