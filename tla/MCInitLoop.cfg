SPECIFICATION LoopSpec
CONSTANTS
  NoKind = NoKind
  Threshold = 2
  MaxMessages = 1
  MaxSignals = 2
  Faults = {{"no_pidfd"}, {"spawn_fails"}, {"clock_is_set"}}
INVARIANTS
  
  NoEmergencyLoop
PROPERTIES
  ReplacedWhenDue
  ShutdownHappens
  SvmgrComesBack
CHECK_DEADLOCK FALSE
