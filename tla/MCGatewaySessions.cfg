SPECIFICATION Spec
CONSTANTS
  u1 = u1
  s1 = s1
  s2 = s2
  c1 = c1
  c2 = c2
  Sessions = {s1, s2}
  Users = {u1}
  UserOf <- Owners
  Instances <- TwoZones
  StartInstance <- Start
  Conns = {c1, c2}
  Hosts <- HostsMore
  ReadsAfterClose = FALSE
  NoSession = NoSession
  NoUser = NoUser
  NoConn = NoConn
  NoInstance = NoInstance
SYMMETRY Clients
INVARIANTS
  
  
  ClosedWillUnregister
CHECK_DEADLOCK FALSE
