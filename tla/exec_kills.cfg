SPECIFICATION ExecSpec
CHECK_DEADLOCK FALSE
CONSTANTS
  Calls = {t1, t2}
  Streaming = {t1}
  Commands <- Lines
  Matches <- Finds
  Cap = 1
  MaxOut = 2
  Window = 1
PROPERTY
  KillsOnlyRunaway
