CONSTANTS
  None = None
  Ctl = {c1}
  Logind = {l1}
  Bridge = {b1}
  Unreliable = {c1}
  MaxPieces = 2
  MaxFaults = 1
SPECIFICATION Spec
PROPERTIES
  ImplementsControl
  CallsReturn
CHECK_DEADLOCK FALSE
