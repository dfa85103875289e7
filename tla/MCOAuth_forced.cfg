SPECIFICATION Spec
CONSTANTS
  u1 = u1  u2 = u2  t1 = t1  google = google  github = github  s1 = s1  s2 = s2  p1 = p1  p2 = p2
  NoUser = NoUser  NoTenant = NoTenant  NoIdentity = NoIdentity
  Procs = {p1}  Users = {u1}  Known = {}
  Tenants = {t1}  Default = t1  Providers = {google}  Subjects = {s1}
  EmailOf <- MCOneEmail
  Ops = {"authorize", "tenant"}
  WithFactor = {}
  MaxStates = 1  MaxRows = 1  Joined <- MCNoPairs
INVARIANTS SessionsOfMembers
CHECK_DEADLOCK FALSE
