SPECIFICATION Spec
CONSTANTS
  Services <- MCServices
  Names <- MCNames
  Defs <- MCDefs
  Readiness <- SomeReadiness
  Permanent = {"b"}
  Group <- GroupBC
  Commands = {"start", "restart"}
  SpawnMayFail = TRUE
  MaxInstances = 1
  MaxRestarts = 1
  MaxCommands = 1
  
PROPERTIES ImplementsFrontier StartupEnds
CHECK_DEADLOCK FALSE
