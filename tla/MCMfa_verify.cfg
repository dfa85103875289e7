SPECIFICATION Spec
CONSTANTS
  p1 = p1  p2 = p2  Procs = {p1}
  Count = 1  MaxSetups = 1  MaxUses = 2
  Ops = {"setup", "check"}
SYMMETRY ProcSymmetry
INVARIANTS BackupCodeUsedOnce
CHECK_DEADLOCK FALSE
