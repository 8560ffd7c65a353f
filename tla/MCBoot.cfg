SPECIFICATION Spec
CONSTANTS
  None = None
  Boots <- MCBoots
  MaxAttempts = 2
  MaxFaults = 2
  Pages = {6, 20}
INVARIANTS
  EssentialsAreThere
  RootIsWhole
PROPERTIES
  CleanShutdown
  
CHECK_DEADLOCK FALSE
