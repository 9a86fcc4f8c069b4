SPECIFICATION Spec
CONSTANTS
  Runtimes = {r1, r2}
  Procs = {p1, p2, p3}
  NoProc = NoProc
  NoRuntime = NoRuntime
  RunCalls = {run1}
  StopCalls = {stop1}
  Limit = 2
  Overlap = FALSE
  Events = {"sigint"}
SYMMETRY Symmetry
PROPERTIES
  RestoreRevives
