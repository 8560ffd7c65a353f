CONSTANTS
  a = a b = b c = c root = root net = net
  p1 = p1 p2 = p2 p3 = p3 p4 = p4
  Workers = {a, b, c}
  Supervisors = {root, net}
  Pids = {p1, p2, p3, p4}
  None = None
  Parent <- MCParent
  Loaded <- MCLoadedFlat
  Strategies <- SingleOnly
  max_restarts <- MCLimits
  restart_policy <- MCPolicy
  Commands = {"restart"}
  MaxSpawns = 3
  MaxCommands = 1
SPECIFICATION Spec
PROPERTY
  RestartStartsOnce
CHECK_DEADLOCK FALSE
