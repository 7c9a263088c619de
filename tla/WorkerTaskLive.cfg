SPECIFICATION LiveSpec
CONSTANTS
  t1 = t1  t2 = t2  w1 = w1  f1 = f1  f2 = f2  x = x  y = y
  NoTask = NoTask
  Task = {t1, t2}
  Worker = {w1}
  Fingerprint = {f1}
  Reaper = {x}
  AllowDuplicate = {t2}
  GlobalLimit = 1
  NotBefore = {}
  Cancellable = {}
  Verdict = {"completed"}
  SlowStart = FALSE
  FaultKind = {"supervisor", "admission", "reaper", "spawn", "files", "stop"}
  MaxFaults = 1
  WorkerOf <- MCWorkerOf
  WorkerLimit <- MCWorkerLimit
  WakePolicy <- MCWakePolicy
  FingerprintOf <- MCFingerprintOf
INVARIANTS AdmissionSound
PROPERTIES TerminalStays SpawnedSettles QueuedProgresses
CHECK_DEADLOCK FALSE
