SPECIFICATION Spec
CONSTANTS
  adm = adm  u1 = u1  p1 = p1  p2 = p2
  Users = {adm, u1}  Adm = adm
  Slugs = {"home", "shop"}  Home = "home"
  Names = {"admin", "tenant_admin"}
  AdminName = "admin"  OwnerName = "tenant_admin"
  Limit = 1  Procs = {p1, p2}
  NoTenant = NoTenant  NoUser = NoUser  NoSlug = NoSlug  NoRole = NoRole
  MaxTenants = 2  MaxRoles = 3  MaxInvited = 1
SYMMETRY Symmetry
INVARIANTS TypeOK NoneForgotten RoleAtHome FoundByName
PROPERTIES LimitCounted
CHECK_DEADLOCK FALSE
