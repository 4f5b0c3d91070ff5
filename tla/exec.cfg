SPECIFICATION ExecFairSpec
CHECK_DEADLOCK FALSE
CONSTANTS
  Calls = {t1, t2}
  Streaming = {t1}
  Commands <- OneLine
  Matches <- Self
  Cap = 1
  MaxOut = 2
  Window = 1
INVARIANTS
  ExecTypeOK
  CountsMatch
  NothingLost
PROPERTIES
  ResultIsFinal
  
