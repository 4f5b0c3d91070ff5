SPECIFICATION NotesSpec
CHECK_DEADLOCK FALSE
CONSTANTS
  Calls = {t1, t2, t3}
  Cap = 2
  MaxRetries = 2
  MaxClock = 1
  Absent = Absent
INVARIANTS
  NotesTypeOK
  
PROPERTY
  AppendLosesNothing
