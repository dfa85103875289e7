SPECIFICATION Spec
CONSTANTS
  p1 = p1  p2 = p2  Procs = {p1, p2}
  Count = 2  MaxSetups = 2  MaxUses = 1
  Ops = {"setup", "login", "check", "account", "enable", "disable"}
SYMMETRY ProcSymmetry
INVARIANTS TypeOK Sequential
PROPERTIES CodeLifecycle
CHECK_DEADLOCK FALSE
