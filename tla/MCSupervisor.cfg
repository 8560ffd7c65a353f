CONSTANTS
  a = a b = b c = c root = root net = net
  p1 = p1 p2 = p2 p3 = p3 p4 = p4
  Workers = {a, b, c}
  Supervisors = {root, net}
  Pids = {p1, p2, p3, p4}
  None = None
  Parent <- MCParent
  Loaded <- MCLoadedFlat
  Strategies <- MCStrategies
  max_restarts <- MCLimits
  restart_policy <- MCPolicy
  Commands = {"start", "stop", "restart", "reload"}
  MaxSpawns = 2
  MaxCommands = 2
SPECIFICATION Spec
SYMMETRY PidSymmetry
INVARIANTS
  BookAgrees
  
  AtMostOneInstance
CHECK_DEADLOCK FALSE
