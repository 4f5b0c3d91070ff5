SPECIFICATION Spec
CONSTANTS
  t1 = t1
  t2 = t2
  posix = posix
  chroot = chroot
  win = win
  Mcp = mcp
  Calls <- MCCalls
  Hosts <- MCHosts
  Windows <- MCWindows
  Chrooted <- MCChrooted
  Detached <- MCDetached
  HostPolicy <- MCHostPolicy
  EnvPolicy <- MCEnvPolicy
  LocalRoots <- MCLocalRoots
  Scenarios <- MCScenarios
  TmpName <- MCTmpName
  BakName <- MCBakName
  Casefold <- MCCasefold
  Newline = "n"
  Cap = 3
  MaxEntries = 4
  MaxFaults = 1
  MaxClock = 1
INVARIANTS
  FilesTypeOK
  
  FolderGone
  ReadsOneVersion
  BackupsStay
PROPERTIES
  SetAsideFirst
  ModeKept
  
