SPECIFICATION FairSpec
CHECK_DEADLOCK FALSE
CONSTANTS
  Names = {a, b, c}
  Keys = {ka, kb, kc}
  KeyMaps <- OwnOrSharedKeys
  Calls = {t1, t2}
  MaxHops = 2
  Rewrites <- OneJump
  Absent = Absent
  Direct = Direct
  Down = Down
  Nobody = Nobody
INVARIANTS
  TypeOK
  AcyclicNeverDeadlocks
  ThroughLastHop
  LocksNested
PROPERTY
  AcquireEnds
