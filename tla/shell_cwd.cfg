SPECIFICATION ShellSpec
CHECK_DEADLOCK FALSE
CONSTANTS
  Calls = {t1, t2}
  Streaming = {}
  Commands <- Wrapped
  Matches <- Everything
  Cap = 2
  MaxOut = 3
  Window = 1
  Sessions = {s1, s2}
  Dirs <- Folders
  Home = "app1"
  Cut <- Shortened
PROPERTY
  CwdOnlyFromWholeOutput
