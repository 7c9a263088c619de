SPECIFICATION OutboxSpec
CONSTANTS
  A = A  B = B
  pool = pool  pair = pair  alias = alias  either = either  tangle = tangle
  r1 = r1  r2 = r2  r3 = r3
  read1 = read1  write1 = write1  both2 = both2  read3 = read3  solo = solo
  u1 = u1  read = read  p1 = p1  p2 = p2
  Stage = {read1, write1, both2, read3, solo}
  Request = {r1, r2, r3}
  Leaf = {A, B}
  Subscriber = {u1}
  Class = {read}
  Project = {p1, p2}
  RequestOf <- MCRequestOf
  ProjectOf <- MCProjectOf
  After <- MCAfter
  PlanBefore <- MCPlanBefore
  Registry <- MCRegistry
  Needs <- MCNeeds
  Bookings <- MCBookings
  Options <- MCOptions
  Capacity <- MCCapacity
  Coupled <- MCCoupled
  MaxGeneration <- MCMaxGeneration
  RunnerOutcome = {"passed", "failed"}
  MaxUnits = 2
  NoRow = NoRow
  CheckRequest = {r3}
  WakePolicy <- MCWakePolicy
  Sessions <- MCSessions
  MaxInterrupts = 1
INVARIANTS TypeOK HoldingsSound AllocationSound AnnouncementsSound
PROPERTIES ProtectionHonoured EndedForGood ImplementsScopes DeliveryKept
CHECK_DEADLOCK FALSE
