CONSTANTS
  p = p
  q = q
  Vars <- MCVars
  PointerLines = 4
  FormLines = 3
  Functions <- MCFunctions
SPECIFICATION Spec
CHECK_DEADLOCK FALSE
INVARIANTS ReportsAreDoubleFetches DoubleFetchesAreReported
