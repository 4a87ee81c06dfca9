\* Chunks of four, an skb of six; the process changes one character.
SPECIFICATION Spec
CONSTANTS
  Argvs <- MCArgvs
  Titles <- MCTitles
  MaxLen = 4
  NumLen = 1
  BufSize = 6
  Digits = 2
  MaxChanges = 1
CHECK_DEADLOCK FALSE
INVARIANTS TextFits TextExact
