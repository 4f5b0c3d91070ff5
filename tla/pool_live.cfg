SPECIFICATION FairSpec
CHECK_DEADLOCK FALSE
VIEW Reachable
CONSTANTS
  Keys = {k1}
  Tasks = {t1, t2}
  Entries = {e1, e2}
  Conns = {c1, c2}
  NoEntry = NoEntry
  NoConn = NoConn
  Nobody = Nobody
  Reaper = Reaper
  Closer = Closer
  Weathers = {{"invalidate"}, {"reap"}}
PROPERTIES
  CallsReturn
  IdleReaped
