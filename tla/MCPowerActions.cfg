CONSTANTS
  Calls = {c1, c2}
  InhibitorIds = {i1, i2}
  Locks <- MCLocks
  Kinds = {"sleep", "shutdown"}
SPECIFICATION PowerSpec
PROPERTIES
  
  CallsFinish
  
CHECK_DEADLOCK FALSE
