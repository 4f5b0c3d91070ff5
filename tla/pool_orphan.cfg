SPECIFICATION Spec
CHECK_DEADLOCK FALSE
SYMMETRY Identities
VIEW Reachable
CONSTANTS
  Keys = {k1}
  Tasks = {t1, t2}
  Entries = {e1, e2, e3}
  Conns = {c1, c2, c3}
  NoEntry = NoEntry
  NoConn = NoConn
  Nobody = Nobody
  Reaper = Reaper
  Closer = Closer
  Weathers = {{"reap", "drop"}}
INVARIANT
  OneConnectionPerKey
