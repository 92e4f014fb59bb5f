SPECIFICATION Spec
CONSTANTS
  c1 = c1
  c2 = c2
  v1 = v1
  v2 = v2
  u1 = u1
  addr = addr
  p1 = p1
  p2 = p2
  Callers = {c1, c2}
  Visitors = {v1, v2}
  Users = {u1}
  Modes = {"oidc", "password"}
  Passwords = {p1, p2}
  NoPassword = NoPassword
  Nobody = Nobody
  Bearer = Bearer
  Names = {u1}
  Addresses = {addr}
  Limit <- MCLimit
  AccessTTL = 1
  RefreshTTL = 1
  LoginTTL = 1
  MaxSessions = 2
  MaxPending = 1
  MaxIssued = 3
  MaxLogins = 1
  MaxTime = 1
  MaxCrashes = 1
  Window = 1
  LockTime = 1
  MaxTracked = 1
  FlowTTL = 1
  MaxFlows = 1
  MaxDevices = 1
  MaxStarted = 1
  MaxMade = 2
  MaxTotal = 3
  Mixed = FALSE
SYMMETRY Alike
INVARIANTS AccessTypeOK TokensSingleUse RevokedStaysOut DeviceLimit HandedOutWorks
PROPERTIES SessionsNotLost FirstPasswordStays HandedOutOnce LockHolds
CHECK_DEADLOCK FALSE
