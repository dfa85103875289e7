SPECIFICATION Spec
CONSTANTS
  t1 = t1  t2 = t2  clerk = clerk  orgadmin = orgadmin  p1 = p1  p2 = p2
  u1 = u1  u2 = u2
  Users = {u1, u2}  Tenants = {t1, t2}  Roles = {orgadmin, clerk}
  RoleTenant <- MCRoleTenant  TenantAdmin = orgadmin  Platform = Platform  Seeded = t1
  NoRole = NoRole  NoInvite = NoInvite  NoUser = NoUser
  Procs = {p1, p2}  TTL = 1  MaxInvites = 2  MaxTime = 2
SYMMETRY Symmetry
INVARIANTS TypeOK InvitedRoleFits
PROPERTIES InviteSettles MembershipKept KeepsPromise
CHECK_DEADLOCK FALSE
