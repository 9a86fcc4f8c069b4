SPECIFICATION TesterSpec
CONSTANTS
  s1 = s1
  s2 = s2
  s3 = s3
  a = a
  b = b
  jan = jan
  feb = feb
  e1 = e1
  e2 = e2
  c1 = c1
  Scenarios = {a, b}
  Sets = {s1, s2, s3}
  ScenarioOf <- Owner
  MaxChild = 1
  OwnPid = OwnPid
  NoPid = NoPid
  NoSet = NoSet
  Events = {"cache", "fork", "send", "stop"}
  Files = {jan, feb}
  Engine = {e1, e2}
  Children = {c1}
  Months <- TwoMonths
  FallbackSources = 2
CHECK_DEADLOCK FALSE
INVARIANTS
  SetsAreServed
  PreparedIsWhole
PROPERTIES
  QueueAndSlotsMove
  PreparationEnds
