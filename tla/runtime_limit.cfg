SPECIFICATION Spec
CONSTANTS
  Runtimes = {r1, r2}
  Procs = {p1, p2, p3}
  NoProc = NoProc
  NoRuntime = NoRuntime
  RunCalls = {run1, run2}
  StopCalls = {stop1, stop2}
  Limit = 1
  Overlap = TRUE
  Events = {}
SYMMETRY Symmetry
INVARIANTS
  RunningWithinLimit
