SPECIFICATION LiveSpec
CONSTANTS
  t1 = t1  t2 = t2  w1 = w1  f1 = f1  f2 = f2  x = x  y = y
  NoTask = NoTask
  Task = {t1}
  Worker = {w1}
  Fingerprint = {f1, f2}
  Reaper = {x}
  AllowDuplicate = {}
  GlobalLimit = 1
  NotBefore = {t1}
  Cancellable = {}
  Verdict = {"completed", "timed_out"}
  SlowStart = TRUE
  FaultKind = {}
  MaxFaults = 0
  WorkerOf <- MCWorkerOf
  WorkerLimit <- MCWorkerLimit
  WakePolicy <- MCAlways
  FingerprintOf <- MCFingerprintOf
PROPERTIES TerminalStays
CHECK_DEADLOCK FALSE
