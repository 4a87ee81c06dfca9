CONSTANTS
  d1 = d1
  p = p
  q = q
  src = src
  none = none
  MaxLines = 4
  MaxAny = 5
  MaxItems = 3
  Decls <- MCDecls
  Args <- MCArgs
  Calls <- MCCalls
  SourceLines <- MCSourceLines
  OldFiles <- MCOldFiles
  Origin = src
  NoText = none
SPECIFICATION PipelineSpec
INVARIANT
  IdenticalArePicked
CHECK_DEADLOCK FALSE
