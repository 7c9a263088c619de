SPECIFICATION LiveSpec
CONSTANTS
  A = A  B = B  r1 = r1  r2 = r2
  prepare = prepare  verify = verify  other = other
  read = read  p1 = p1
  Stage = {prepare, verify}
  Request = {r1}
  Leaf = {A, B}
  Subscriber = {}
  Class = {read}
  Project = {p1}
  RequestOf <- MCRequestOf
  ProjectOf <- MCProjectOf
  After <- MCAfter
  PlanBefore <- MCPlanBefore
  Options <- MCOptions
  Capacity <- MCCapacity
  Coupled <- MCCoupled
  RunnerOutcome = {"passed", "failed", "cancelled"}
  MaxUnits = 1
  MaxGeneration <- MCMaxGeneration
  NoStage = NoStage
  HasCleanup = {prepare}
  ProbeLeaf = {A}
  Outages <- MCOutages
  MaxFaults = 0
PROPERTIES SuccessKeepsDependantsWaiting
CHECK_DEADLOCK FALSE
