SPECIFICATION Spec
CONSTANTS
  t1 = t1  t2 = t2  w1 = w1  f1 = f1  f2 = f2  x = x  y = y
  NoTask = NoTask
  Task = {t1}
  Worker = {w1}
  Fingerprint = {f1, f2}
  Reaper = {x}
  AllowDuplicate = {}
  GlobalLimit = 1
  NotBefore = {}
  Cancellable = {}
  Verdict = {"completed", "timed_out"}
  SlowStart = FALSE
  FaultKind = {"supervisor"}
  MaxFaults = 1
  WorkerOf <- MCWorkerOf
  WorkerLimit <- MCWorkerLimit
  WakePolicy <- MCWakePolicy
  FingerprintOf <- MCFingerprintOf
INVARIANTS PolicyRespected
CHECK_DEADLOCK FALSE
