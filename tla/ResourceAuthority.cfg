SPECIFICATION LiveSpec
CONSTANTS
  A = A  B = B  r1 = r1  r2 = r2
  prepare = prepare  verify = verify  other = other
  read = read  p1 = p1
  Stage = {prepare, other}
  Request = {r1, r2}
  Leaf = {A, B}
  Subscriber = {}
  Class = {read}
  Project = {p1}
  RequestOf <- MCRequestOf
  ProjectOf <- MCProjectOf
  After <- MCAfter
  PlanBefore <- MCPlanBefore
  Options <- MCOptions
  Capacity <- MCCapacity
  Coupled <- MCCoupled
  RunnerOutcome = {"passed", "failed", "cancelled", "invalidated"}
  MaxUnits = 1
  MaxGeneration <- MCMaxGeneration
  NoStage = NoStage
  HasCleanup = {prepare}
  ProbeLeaf = {A}
  Outages <- MCOutages
  MaxFaults = 2
INVARIANTS LiveWorkOwns
PROPERTIES CancelledBeforeAdmission GrantsResolve
CHECK_DEADLOCK FALSE
