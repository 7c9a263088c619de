------------------------------ MODULE WatcherHost ------------------------------
(***************************************************************************)
(* The watcher of one host: the lifecycle of its service and, apart from   *)
(* it, the delivery of signals by any two scans, those of a service and of *)
(* a command or those of two services.                                     *)
(***************************************************************************)
EXTENDS WatcherService

CONSTANT Plays

Init ==
  /\ play \in Plays
  /\ record = NoRecord
  /\ heartbeat = [pid |-> 0, fresh |-> FALSE]
  /\ process = [n \in Process |-> Nobody]
  /\ command = [c \in Command |-> NoCommand]
  /\ serviceLock = "free"
  /\ errands = 0 /\ mishaps = 0
  /\ inbox = {} /\ superseded = {}
  /\ file = EmptyFile
  /\ receipt = [k \in Signal |-> "none"]
  /\ ackReceipt = {}
  /\ deliveryLock = [k \in Signal |-> "free"]
  /\ stateLock = "free"
  /\ scanner = [s \in Scanner |-> NoScan]
  /\ operator = [o \in Operator |-> NoErrand]
  /\ submitted = [k \in Signal |-> 0]
  /\ released = [k \in Signal |-> 0]
  /\ busy = 0 /\ retries = 0 /\ crashes = 0

Attempt(s) ==
  \/ SuppressAcknowledged(s) \/ Unacknowledged(s)
  \/ AlreadyWoken(s) \/ StillAmbiguous(s) \/ Refused(s) \/ Claim(s) \/ Submit(s) \/ Conclude(s)

ScanStep(s) ==
  ScanBegin(s) \/ (\E k \in Signal : ConsumeSuperseded(s, k) \/ TakeUp(s, k)) \/ Attempt(s) \/ ScanRead(s) \/ ScanWrite(s)

ErrandStep(o) ==
  AckReceipt(o) \/ AckState(o) \/ RetryInspect(o) \/ RetryRelease(o) \/ RetryState(o)

CommandStep(c) ==
  \/ EnsureReads(c) \/ EnsureJudges(c) \/ LockService(c)
  \/ RefuseStart(c) \/ StartStops(c) \/ SpawnService(c) \/ RecordService(c) \/ AbandonStart(c)
  \/ StopFindsGone(c) \/ StopTerminates(c) \/ StopKills(c) \/ StopConcludes(c)

Next ==
  \/ \E c \in Command : CommandStep(c) \/ Order(c) \/ StopRefuses(c) \/ CommandDies(c)
  \/ \E n \in Process : Beat(n) \/ Dies(n) \/ WatcherFails(n) \/ StrangerEnds(n)
  \/ HeartbeatAges \/ PidReused
  \/ \E k \in Signal : Publish(k) \/ Supersede(k) \/ BackoffEnds(k)
  \/ \E s \in Scanner : ScanStep(s) \/ ScannerCrash(s)
  \/ \E o \in Operator :
       \/ ErrandStep(o) \/ OperatorCrash(o)
       \/ \E k \in Signal : AckBegin(o, k) \/ RetryBegin(o, k)

Spec == Init /\ [][Next]_vars

\* Assumed: scans repeat and no command stops halfway without dying; a lock that is
\* free again and again is got; time passes; the target thread is not busy for ever
\* (MaxBusy).  Commands that ensure the service come again and again and none stops
\* halfway without dying; a signalled process dies.
Fairness ==
  /\ \A c \in Command : WF_vars(CommandStep(c))
  /\ WF_vars(\E n \in Process : Dies(n))
  /\ \A k \in Signal : WF_vars(BackoffEnds(k))
  /\ \A s \in Scanner : WF_vars(ScanStep(s)) /\ SF_vars(ScanRead(s))
  /\ \A o \in Operator : WF_vars(ErrandStep(o)) /\ SF_vars(AckReceipt(o))

LiveSpec == Spec /\ Fairness

-----------------------------------------------------------------------------
TypeOK == play \in Plays /\ ServiceTypeOK /\ DeliveryTypeOK
===============================================================================
