SPECIFICATION Spec
CONSTANTS
  c1 = c1
  d1 = d1
  u1 = u1
  u2 = u2
  Containers = {c1}
  Disks = {d1}
  NoTarget = NoTarget
  Ring = 2
  Users = {u1, u2}
  Instances <- MCInstances
  Limit = 1
  Extra = 0
  MaxThreads = 3
CHECK_DEADLOCK FALSE
INVARIANTS EventsKept OneReset 
PROPERTIES AllServed
