SPECIFICATION Spec
CONSTANTS
  u1 = u1  u2 = u2  t1 = t1  google = google  github = github  s1 = s1  s2 = s2  p1 = p1  p2 = p2
  NoUser = NoUser  NoTenant = NoTenant  NoIdentity = NoIdentity
  Procs = {p1, p2}  Users = {u1, u2}  Known = {u2}
  Tenants = {t1}  Default = t1  Providers = {google, github}  Subjects = {s1}
  EmailOf <- MCOneEmail
  Ops = {"authorize", "link", "unlink", "password", "elsewhere", "renew"}
  WithFactor = {u2}
  MaxStates = 2  MaxRows = 2  Joined <- MCNoPairs
SYMMETRY Symmetry
INVARIANTS TypeOK Sequential
PROPERTIES LinkKept SuspendedOpensNone
CHECK_DEADLOCK FALSE
