SPECIFICATION Spec
CONSTANTS
  u1 = u1  d1 = d1  t1 = t1  t2 = t2  p1 = p1  p2 = p2
  Users = {u1}  Tenants = {t1, t2}  Devices = {d1}  Procs = {p1}
  NoUser = NoUser  NoTenant = NoTenant  NoDevice = NoDevice
  AccessTTL = 1  Grace = 1  RefreshTTL = 1  ChallengeTTL = 1
  Existing = {t1}  Joined <- MCNoPairs  Invited <- MCOneTenant
  Ops = {"login", "selectTenant", "setupCreate", "setupJoin", "mfa", "enableMfa", "disableMfa",
         "verifyMfa", "membership", "refresh"}
  MaxId = 3  MaxTime = 0
SYMMETRY ProcSymmetry
INVARIANTS TypeOK SessionTenantGranted
CHECK_DEADLOCK FALSE
