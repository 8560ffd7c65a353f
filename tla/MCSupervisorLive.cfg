CONSTANTS
  a = a b = b c = c root = root net = net
  p1 = p1 p2 = p2 p3 = p3 p4 = p4
  Workers = {a, b, c}
  Supervisors = {root, net}
  Pids = {p1, p2, p3}
  None = None
  Parent <- MCParent
  Loaded <- MCLoadedFlat
  Strategies <- MCStrategies
  max_restarts <- MCLimits
  restart_policy <- MCPolicy
  Commands = {"restart"}
  MaxSpawns = 1
  MaxCommands = 1
SPECIFICATION Spec
PROPERTIES
  PermanentComesBack
CHECK_DEADLOCK FALSE
