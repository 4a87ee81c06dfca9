\* Two clients; two skbs of up to three messages, one session.
SPECIFICATION Spec
CONSTANTS
  Clients = {1, 2}
  Caps <- MCCaps
  Skbs <- MCSkbs
  Features = {"ONLY_UNSET", "IMMUTABLE"}
  Uids = {1}
  UnsetUid = 0
  Users = {"u"}
  BootLimits = {64}
  MaxWait = 60
  FullSize = 40
  Header = 16
  MaxSkbs = 2
  MaxSessions = 1
CHECK_DEADLOCK FALSE
INVARIANTS AnswersInOrder
  
