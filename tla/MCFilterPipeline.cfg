CONSTANTS
  d1 = d1
  p = p
  q = q
  src = src
  none = none
  MaxLines = 7
  MaxAny = 5
  MaxItems = 5
  Decls <- MCDecls
  Args <- MCArgs
  Calls <- MCCalls
  SourceLines <- MCSourceLines
  OldFiles <- MCOldFiles
  Origin = src
  NoText = none
SPECIFICATION PipelineSpec
CHECK_DEADLOCK FALSE
INVARIANTS  FlagsAreKept OutputWellFormed Phase2Sound EndToEnd
PROPERTIES DroppedHasNoPair PipelineEnds
