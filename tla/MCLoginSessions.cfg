CONSTANTS
  Root = Root None = None
  Uids = {u, v}
  Pids = {p1, p2}
  Slots = {t1, t2, t3}
  MaxSessions = 3
  MaxMethods = 2
  Methods = {"ReleaseSession", "TerminateUser", "TerminateSeat", "ActivateSession", "Session.Activate", "Session.Terminate", "Seat.Terminate", "User.Terminate"}
SPECIFICATION Spec
SYMMETRY MCSymmetry
INVARIANTS
  TablesAgree
  DevicesFollowActive
  
CHECK_DEADLOCK FALSE
