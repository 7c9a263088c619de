SPECIFICATION LiveSpec
CONSTANTS
  k1 = k1  service = service  oneShot = oneShot  op = op
  c1 = c1  c2 = c2
  NoSignal = NoSignal
  Plays <- MCPlays
  Signal = {k1}
  Notices = {k1}
  Scanner = {service, oneShot}
  Operator = {op}
  Reviewed = {k1}
  MaxAttempts = 2
  MaxBusy <- MCMaxBusy
  MaxRetries = 1
  MaxCrashes <- MCMaxCrashes
  Command = {c1, c2}
  MaxProcesses = 6
  Managers = {c1}
  MaxErrands = 1
  MaxMishaps = 2
INVARIANTS TypeOK DeliverySound ServiceSound StrangersUnharmed
PROPERTIES AcknowledgedNotClaimed SignalsSettle EnsureRecovers
CHECK_DEADLOCK FALSE
