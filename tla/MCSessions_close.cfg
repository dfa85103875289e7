SPECIFICATION Spec
CONSTANTS
  u1 = u1  d1 = d1  t1 = t1  t2 = t2  p1 = p1  p2 = p2
  Users = {u1}  Tenants = {t1}  Devices = {}  Procs = {p1, p2}
  NoUser = NoUser  NoTenant = NoTenant  NoDevice = NoDevice
  AccessTTL = 1  Grace = 1  RefreshTTL = 1  ChallengeTTL = 1
  Existing = {t1}  Joined <- MCNoPairs  Invited <- MCOneTenant
  Ops = {"login", "refresh", "setupJoin", "revokeAll", "revokeSession", "changePassword",
         "deactivate", "activate", "deleteUser", "logout"}
  MaxId = 2  MaxTime = 2
SYMMETRY ProcSymmetry
INVARIANTS BlacklistOutlivesToken ClosedTokenRefused QuietUserLockedOut
PROPERTIES SessionLifecycle RefreshLifecycle AccessLifecycle
CHECK_DEADLOCK FALSE
