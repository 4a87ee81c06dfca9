CONSTANTS
  c1 = c1
  c2 = c2
  f1 = f1
  f2 = f2
  Callers <- MCCallers
  Fibs <- MCFibs
  Instances <- MCInstances
  NoHdr = NoHdr
  NoFib = NoFib
  HdrSize = 2
  MaxFibSize = 4
  SizeLimit = 6
  U16 = 8
SPECIFICATION Spec
CHECK_DEADLOCK FALSE
INVARIANTS NoOverrun FibsWhole
 
