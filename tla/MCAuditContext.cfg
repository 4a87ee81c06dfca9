\* Two file names, two directory entries; blocks of two references.
SPECIFICATION Spec
CONSTANTS
  f1 = f1
  f2 = f2
  k1 = k1
  k2 = k2
  NoChunk = NoChunk
  NoName = NoName
  NoCtx = NoCtx
  Unset = Unset
  BlockSize = 2
  Chunks = {k1, k2}
  Filenames = {f1, f2}
  Dentries <- MCDentries
  RuleSets <- MCRuleSets
  Majors = {1}
  Tasks <- MCTasks
  Specials = {"IPC"}
  Pids = {"p"}
  PreNames = 1
  AuxPids = 1
  TopPrio = 11
  MaxOps = 2
  MaxBlocks = 2
CHECK_DEADLOCK FALSE
INVARIANTS ReferencesExact  DecisionByPriority
PROPERTIES WalkIsComplete
