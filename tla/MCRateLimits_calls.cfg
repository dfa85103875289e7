SPECIFICATION Spec
CONSTANTS
  Procs = {p1, p2}  Callers = {"c1"}  p1 = p1  p2 = p2
  Limit = 2  Period = 2  MaxTime = 3  MaxCalls = 4
  CacheFails = TRUE
SYMMETRY ProcSymmetry
INVARIANTS TypeOK WindowLimit NoOvercount
CHECK_DEADLOCK FALSE
