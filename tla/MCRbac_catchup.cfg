SPECIFICATION Spec
CONSTANTS
  staff = staff  owner = owner  member = member
  home = home  t1 = t1
  admin = admin  tadmin = tadmin  r1 = r1  adm = adm  x = x
  NoScope = NoScope  NoRole = NoRole  NoTenant = NoTenant  NoUser = NoUser
  Admin = admin  TenantAdmin = tadmin  AdminPerm = adm
  TenantAdmins = {tadmin}
  RoleTenant <- MCRoleTenant  FirstPerms <- MCFirstPerms
  Roles = {admin, tadmin, r1}
  Users = {owner, member}  Tenants = {t1}  Scopes = {}
  Perms = {adm, x}  PluginPerms = {x}  FirstGrantable = {x}
  FirstPrimary <- MCOwnerAndMember  Owners <- MCOwner  FirstRoles <- MCRolesWith
  CacheTTL = 1  CacheFails = TRUE  Procs = {"p1", "p2"}  MaxRows = 2
  Ops = {"read", "grant", "leave", "declare", "revoke"}
PROPERTIES CatchesUp TwinsOnlyTogether
CHECK_DEADLOCK FALSE
