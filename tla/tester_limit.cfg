SPECIFICATION Spec
CONSTANTS
  s1 = s1
  s2 = s2
  s3 = s3
  a = a
  b = b
  Scenarios = {a, b}
  Sets = {s1, s2, s3}
  ScenarioOf <- Owner
  MaxChild = 1
  OwnPid = OwnPid
  NoPid = NoPid
  NoSet = NoSet
  Events = {}
CHECK_DEADLOCK FALSE
SYMMETRY Symmetry
INVARIANTS
  MaxChildRespected
