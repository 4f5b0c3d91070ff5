SPECIFICATION Spec
CHECK_DEADLOCK FALSE
SYMMETRY Identities
VIEW Reachable
CONSTANTS
  Keys = {k1, k2}
  Tasks = {t1, t2}
  Entries = {e1, e2, e3}
  Conns = {c1, c2}
  NoEntry = NoEntry
  NoConn = NoConn
  Nobody = Nobody
  Reaper = Reaper
  Closer = Closer
  Weathers = {{"drop", "cancel"}, {"reap", "invalidate"}}
INVARIANTS
  TypeOK
  LockExcludes
  HostIsolation
  QuietOneConnection
  QuietSftpOnOwnConn
  QuietCloseAllClean
PROPERTIES
  QuietOneChannel
  SftpExitsFirst
  NoClientOverwritten
