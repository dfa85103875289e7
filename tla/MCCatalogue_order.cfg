SPECIFICATION Spec
CONSTANTS
  core = core  x = x  c1 = c1  xs = xs  x1 = x1
  admin = admin  other = other
  Perms = {c1, xs, x1}  Plugins = {core, x}  Space <- MCTwoSpaces  Reserved = {core}
  Roles = {admin, other}  SeededRoles = {admin}  Admin = admin  Seeded = {c1, xs}  Listed <- MCListed
  Platform = Platform  Ops = {"restart", "fail", "edit", "role"}
INVARIANTS TypeOK AdminComplete HeldAccounted GoneWhenHeard
PROPERTIES PluginsApart
CHECK_DEADLOCK FALSE
