SPECIFICATION Spec
CONSTANTS
  staff = staff  owner = owner  member = member
  home = home  t1 = t1
  admin = admin  tadmin = tadmin  r1 = r1  adm = adm  x = x
  NoScope = NoScope  NoRole = NoRole  NoTenant = NoTenant  NoUser = NoUser
  Admin = admin  TenantAdmin = tadmin  AdminPerm = adm
  TenantAdmins = {tadmin, r1}
  RoleTenant <- MCRoleTenant  FirstPerms <- MCFirstPerms
  Roles = {admin, tadmin, r1}
  Users = {staff, owner}  Tenants = {home, t1}  Scopes = {"s"}
  Perms = {adm, x}  PluginPerms = {x}  FirstGrantable = {x}
  FirstPrimary <- MCWithStaff  Owners <- MCOwners  FirstRoles <- MCRolesWithout
  CacheTTL = 1  CacheFails = FALSE  Procs = {"p1"}  MaxRows = 1
  Ops = {"assign", "addRole", "dropRole", "grant", "memberSave",
         "createRole", "roleSave", "deleteRole", "join", "leave", "ipc", "platformRole", "revoke"}
INVARIANTS TypeOK NoSelfMadeAdmin
PROPERTIES Isolation ScopeReach SaveKeepsAsked
CHECK_DEADLOCK FALSE
