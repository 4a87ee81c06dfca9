SPECIFICATION Spec
CONSTANTS
  d1 = d1
  d2 = d2
  Devices = {d1, d2}
  Nobody = Nobody
  Align = 2
  BufSize = 4
  Stride = 20
  NoHead = NoHead
  PageSize = 5
  MaxSize = 3
  MaxVrings = 2
  Instances <- MCInstances
CHECK_DEADLOCK FALSE
   
PROPERTIES ResetIsAcked
