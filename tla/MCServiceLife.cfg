CONSTANTS
  max_restarts = 1
  window = 1
  MaxRecords = 3
  MaxTime = 2
  ServiceDefs <- MCDefs
  limits <- MClimits
  Procs = 3
  MaxFaults = 1
  MaxKills = 2
SPECIFICATION LifeSpec
INVARIANTS
  
  AbortsHaveCause
  OomReportsAreReal
  GroupIsRemoved
  AnswerIsExact
CHECK_DEADLOCK FALSE
