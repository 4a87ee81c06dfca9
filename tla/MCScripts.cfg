CONSTANTS
  f1 = f1
  f2 = f2
  f3 = f3
  a = a
  b = b
  Files <- MCFiles
  Name <- MCName
  MaxReports = 2
  MaxRuns = 2
  Trees <- MCTrees
  Sources <- MCSources
  MaxWalks = 3
SPECIFICATION ScriptsSpec
CHECK_DEADLOCK FALSE
INVARIANTS OutcomeIsExact ResultsAreOwn
