CONSTANTS
  t1 = t1
  d1 = d1
  Tasks <- MCTasks
  Daemons <- MCDaemons
  NoTask = NoTask
  Settings <- MCSettings
  Reserve = 1
  Retries = 2
SPECIFICATION Spec
CHECK_DEADLOCK FALSE
INVARIANTS RecordsAccounted BacklogBound
PROPERTIES NobodyStuck
