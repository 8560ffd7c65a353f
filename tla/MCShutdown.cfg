CONSTANTS
  N = 3
  Names <- MCServices
  Services <- MCServices
  Defs <- MCDefs
  Added <- MCAdded
  has_stop_exec = {1}
  Unkillable = {2}
SPECIFICATION ShutdownSpec
INVARIANTS
  DependentsStopFirst
  
PROPERTIES
  ShutdownCompletes
CHECK_DEADLOCK FALSE
