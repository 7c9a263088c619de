---------------------------- MODULE WatcherDelivery ----------------------------
(***************************************************************************)
(* Delivery of inbox signals to one Codex chat (watcher.py, codex_app.py): *)
(* scans with private snapshots of the watcher state, a durable claim      *)
(* before each submission, deferral, operator acknowledgement and operator *)
(* retry.  Files and locks are the only shared state.                      *)
(*                                                                         *)
(* A signal is in the inbox once its `not_before` has passed.  The two     *)
(* delivery modes (queue command, headless turn) differ in what they may   *)
(* report, not in the protocol.  The lock of a wakeup receipt is only      *)
(* taken inside the delivery lock of its signal, so it is left out.        *)
(* Left out too: the workstream guard (see Workstream); the finalizer of a *)
(* headless turn, which only refines an accepted receipt; the other work   *)
(* of a scan; state schema upgrades.                                       *)
(***************************************************************************)
EXTENDS Naturals, FiniteSets

CONSTANTS
  Signal, Scanner,
  Operator,        \* the processes of `acknowledge` and `deferred retry`
  Reviewed,        \* signals an operator may acknowledge
  Notices,         \* signals of the continuity ledger, which may be superseded
  MaxAttempts,     \* DEFER_MAX_ATTEMPTS
  MaxBusy,         \* [play -> bound on attempts that find the thread active]
  MaxRetries,      \* bound on operator retries
  MaxCrashes,      \* [play -> bound on deaths of scans and acknowledgements]
  NoSignal

ASSUME ReviewedAssumption == Reviewed \subseteq Signal /\ Notices \subseteq Signal
ASSUME MaxAttemptsAssumption == MaxAttempts \in Nat \ {0}
ASSUME BoundAssumption ==
  /\ MaxRetries \in Nat
  /\ \A bound \in {MaxBusy, MaxCrashes} : bound["deliver"] \in Nat /\ bound["notices"] \in Nat
ASSUME ActorAssumption == Scanner \cap Operator = {} /\ "free" \notin Scanner \cup Operator
ASSUME NoSignalAssumption == NoSignal \notin Signal

VARIABLES
  play,         \* what a behaviour is about: "deliver", "notices" or "service"
  \* The service, see WatcherService:
  record,       \* the service file: its process and status
  heartbeat,    \* the heartbeat file: the pid in it and whether it is fresh
  process,      \* [number -> process of the host]
  command,      \* [Command -> place, errand, what it read, its child]
  serviceLock,  \* the holder of the lock of the service file
  errands, mishaps,
  \* Delivery:
  inbox,        \* signals published and due
  superseded,   \* notices that are no longer current
  file,         \* the watcher state file
  receipt,      \* [Signal -> status of the wakeup receipt]
  ackReceipt,   \* signals with an acknowledgement receipt
  deliveryLock, \* [Signal -> holder of its delivery lock]
  stateLock,    \* the holder of the state file's lock
  scanner,      \* [Scanner -> place, snapshot of the state, signals to do and done]
  operator,     \* [Operator -> place, signal, what it read]
  submitted,    \* [Signal -> messages about it that reached the chat]
  released,     \* [Signal -> times an operator released its receipt]
  busy, retries, crashes

host == <<play, record, heartbeat, process, command, serviceLock, errands, mishaps>>
locks == <<deliveryLock, stateLock>>
signals == <<inbox, superseded>>
history == <<submitted, released>>
bounds == <<busy, retries, crashes>>
delivery ==
  <<inbox, superseded, file, receipt, ackReceipt, locks, scanner, operator, history, bounds>>
vars == <<host, delivery>>

NotDeferred == [status |-> "none", attempts |-> 0, waiting |-> FALSE]
EmptyFile == [seen |-> {}, deferred |-> [k \in Signal |-> NotDeferred], acknowledged |-> {}]
NoScan == [at |-> "idle", file |-> EmptyFile, todo |-> {}, done |-> {}, signal |-> NoSignal,
           result |-> "none"]
NoErrand == [at |-> "idle", signal |-> NoSignal, file |-> EmptyFile, seen |-> "none"]

(***************************************************************************)
(* What a scan makes of one attempt, in its own copy of the state.         *)
(***************************************************************************)
\* build_deferred_record: guards never exhaust an event, anything ambiguous or
\* about a quota needs the operator at once.
ManualRequired(reason, attempts) ==
  reason = "manual" \/ (reason = "failed" /\ attempts >= MaxAttempts)

\* Variant: the attempts of the previous record are not carried over.
DeferredRecord_Restart(previous, reason) ==
  [status |-> IF ManualRequired(reason, 1) THEN "manual" ELSE "retryable",
   attempts |-> 1, waiting |-> ~ManualRequired(reason, 1)]

\* The count of attempts stays at its limit, beyond which it tells nothing more.
DeferredRecord(previous, reason) ==
  LET attempts == IF previous.attempts = MaxAttempts THEN MaxAttempts
                                                     ELSE previous.attempts + 1
      manual == ManualRequired(reason, attempts) IN
    [status |-> IF manual THEN "manual" ELSE "retryable",
     attempts |-> attempts, waiting |-> ~manual]

Seen(f, k) == [f EXCEPT !.seen = @ \cup {k}, !.deferred[k] = NotDeferred]
Elapsed(f, k) == [f EXCEPT !.deferred[k] = [@ EXCEPT !.waiting = FALSE]]
Deferred(f, k, reason) == [f EXCEPT !.deferred[k] = DeferredRecord(@, reason)]

\* scan_once's last step, on the state file as it is then.
Merge(mine, latest, done) ==
  [latest EXCEPT
     !.seen = @ \cup mine.seen,
     !.deferred = [k \in Signal |->
                     IF k \notin done THEN @[k]
                     ELSE IF k \in mine.seen \cup latest.seen THEN NotDeferred
                     ELSE mine.deferred[k]]]

-----------------------------------------------------------------------------
Publish(k) ==
  /\ play \in {"deliver", "notices"}
  /\ k \notin inbox
  /\ inbox' = inbox \cup {k}
  /\ UNCHANGED <<host, superseded, file, receipt, ackReceipt, locks, scanner, operator, history, bounds>>

Supersede(k) ==
  /\ play = "notices"
  /\ k \in (inbox \cap Notices) \ superseded
  /\ superseded' = superseded \cup {k}
  /\ UNCHANGED <<host, inbox, file, receipt, ackReceipt, locks, scanner, operator, history, bounds>>

\* Time passes: the retry_after_at of a deferred event is past, in every copy of it.
BackoffEnds(k) ==
  /\ file.deferred[k].waiting
  /\ file' = Elapsed(file, k)
  /\ scanner' = [s \in Scanner |-> [scanner[s] EXCEPT !.file = Elapsed(@, k)]]
  /\ operator' = [o \in Operator |-> [operator[o] EXCEPT !.file = Elapsed(@, k)]]
  /\ UNCHANGED <<host, signals, receipt, ackReceipt, locks, history, bounds>>

(***************************************************************************)
(* scan_once: a snapshot, then one signal after the other under its        *)
(* delivery lock, then the merge under the lock of the state file.         *)
(***************************************************************************)
ScannerAt(s, place) == scanner[s].at = place
FreeDelivery(s) ==
  deliveryLock' = [k \in Signal |-> IF deliveryLock[k] = s THEN "free" ELSE deliveryLock[k]]

\* The scan is done with its signal: its copy changes and the lock is free again.
Finish(s, f) ==
  /\ scanner' = [scanner EXCEPT ![s].at = "scanning", ![s].file = f,
                                ![s].done = @ \cup {scanner[s].signal},
                                ![s].signal = NoSignal, ![s].result = "none"]
  /\ FreeDelivery(s)

Due(k, f) == f.deferred[k].status # "manual" /\ ~f.deferred[k].waiting

\* A scan of an empty inbox writes back what it read.
ScanBegin(s) ==
  /\ ScannerAt(s, "idle")
  /\ inbox # {}
  /\ scanner' = [scanner EXCEPT ![s] =
                   [NoScan EXCEPT !.at = "scanning", !.file = file,
                                  !.todo = {k \in inbox \ file.seen : Due(k, file)}]]
  /\ UNCHANGED <<host, signals, file, receipt, ackReceipt, locks, operator, history, bounds>>

\* delivery_disposition, asked before the lock and not again: a notice that is no
\* longer current is consumed.
\* Variant: every notice that was deferred is.
ConsumeSuperseded_Deferred(s, k) ==
  /\ ScannerAt(s, "scanning")
  /\ k \in scanner[s].todo \cap Notices
  /\ k \in superseded \/ scanner[s].file.deferred[k].status # "none"
  /\ scanner' = [scanner EXCEPT ![s].file = Seen(@, k), ![s].todo = @ \ {k},
                                ![s].done = @ \cup {k}]
  /\ UNCHANGED <<host, signals, file, receipt, ackReceipt, locks, operator, history, bounds>>

ConsumeSuperseded(s, k) ==
  /\ ScannerAt(s, "scanning")
  /\ k \in scanner[s].todo \cap superseded
  /\ scanner' = [scanner EXCEPT ![s].file = Seen(@, k), ![s].todo = @ \ {k},
                                ![s].done = @ \cup {k}]
  /\ UNCHANGED <<host, signals, file, receipt, ackReceipt, locks, operator, history, bounds>>

TakeUp(s, k) ==
  /\ ScannerAt(s, "scanning")
  /\ k \in scanner[s].todo \ superseded
  /\ deliveryLock[k] = "free"
  /\ deliveryLock' = [deliveryLock EXCEPT ![k] = s]
  /\ scanner' = [scanner EXCEPT ![s].at = "locked", ![s].signal = k, ![s].todo = @ \ {k}]
  /\ UNCHANGED <<host, signals, file, receipt, ackReceipt, stateLock, operator, history, bounds>>

SuppressAcknowledged(s) ==
  LET k == scanner[s].signal IN
    /\ ScannerAt(s, "locked")
    /\ k \in ackReceipt
    /\ Finish(s, Seen(scanner[s].file, k))
    /\ UNCHANGED <<host, signals, file, receipt, ackReceipt, stateLock, operator, history, bounds>>

Unacknowledged(s) ==
  /\ ScannerAt(s, "locked")
  /\ scanner[s].signal \notin ackReceipt
  /\ scanner' = [scanner EXCEPT ![s].at = "delivering"]
  /\ UNCHANGED <<host, signals, file, receipt, ackReceipt, locks, operator, history, bounds>>

(***************************************************************************)
(* The Codex adapter.  _existing_wakeup decides by the receipt alone.      *)
(***************************************************************************)
\* Variant: a claim without an outcome is taken for a failed attempt.
Ambiguous_Claimed(k) == receipt[k] = "ambiguous"

Ambiguous(k) == receipt[k] \in {"claimed", "ambiguous"}

AlreadyWoken(s) ==
  LET k == scanner[s].signal IN
    /\ ScannerAt(s, "delivering")
    /\ receipt[k] = "accepted"
    /\ Finish(s, Seen(scanner[s].file, k))
    /\ UNCHANGED <<host, signals, file, receipt, ackReceipt, stateLock, operator, history, bounds>>

StillAmbiguous(s) ==
  LET k == scanner[s].signal IN
    /\ ScannerAt(s, "delivering")
    /\ Ambiguous(k)
    /\ Finish(s, Deferred(scanner[s].file, k, "manual"))
    /\ UNCHANGED <<host, signals, file, receipt, ackReceipt, stateLock, operator, history, bounds>>

\* Nothing is submitted: the thread is active, its quota is exhausted, or the
\* event or the server cannot be reached, with or without a receipt.
Refused(s) ==
  LET k == scanner[s].signal IN
    /\ ScannerAt(s, "delivering")
    /\ receipt[k] # "accepted" /\ ~Ambiguous(k)
    /\ \E reason \in {"guard", "failed", "manual"} :
         /\ busy' = IF reason = "guard" THEN busy + 1 ELSE busy
         /\ busy' <= MaxBusy[play]
         /\ Finish(s, Deferred(scanner[s].file, k, reason))
         /\ \/ receipt' = [receipt EXCEPT ![k] = "deferred"]
            \/ reason = "failed" /\ UNCHANGED receipt
    /\ UNCHANGED <<host, signals, file, ackReceipt, stateLock, operator, history, retries, crashes>>

Claim(s) ==
  LET k == scanner[s].signal IN
    /\ ScannerAt(s, "delivering")
    /\ receipt[k] # "accepted" /\ ~Ambiguous(k)
    /\ receipt' = [receipt EXCEPT ![k] = "claimed"]
    /\ scanner' = [scanner EXCEPT ![s].at = "claimed"]
    /\ UNCHANGED <<host, signals, file, ackReceipt, locks, operator, history, bounds>>

\* An acknowledged message reached the chat; of a launch that failed with an OSError
\* nothing did; of a timeout, an error or a missing acknowledgement nobody knows.
Results == [answer : {"accepted", "deferred", "ambiguous"}, reached : BOOLEAN]
Known(r) == r.answer # "ambiguous" => (r.reached <=> r.answer = "accepted")

Submit(s) ==
  LET k == scanner[s].signal IN
    /\ ScannerAt(s, "claimed")
    /\ \E r \in Results :
         /\ Known(r)
         /\ scanner' = [scanner EXCEPT ![s].at = "submitted", ![s].result = r.answer]
         /\ submitted' = [submitted EXCEPT ![k] = IF r.reached THEN @ + 1 ELSE @]
    /\ UNCHANGED <<host, signals, file, receipt, ackReceipt, locks, operator, released, bounds>>

\* Variant: after an ambiguous submission the signal counts as delivered.
Concluded_AmbiguousSeen(f, k, result) ==
  IF result = "deferred" THEN Deferred(f, k, "failed") ELSE Seen(f, k)

Concluded(f, k, result) ==
  CASE result = "accepted" -> Seen(f, k)
    [] result = "deferred" -> Deferred(f, k, "failed")
    [] result = "ambiguous" -> Deferred(f, k, "manual")

Conclude(s) ==
  LET k == scanner[s].signal IN
    /\ ScannerAt(s, "submitted")
    /\ receipt' = [receipt EXCEPT ![k] = scanner[s].result]
    /\ Finish(s, Concluded(scanner[s].file, k, scanner[s].result))
    /\ UNCHANGED <<host, signals, file, ackReceipt, stateLock, operator, history, bounds>>

ScanRead(s) ==
  /\ ScannerAt(s, "scanning")
  /\ scanner[s].todo = {}
  /\ stateLock = "free"
  /\ stateLock' = s
  /\ scanner' = [scanner EXCEPT ![s].at = "merging",
                                ![s].file = Merge(@, file, scanner[s].done)]
  /\ UNCHANGED <<host, signals, file, receipt, ackReceipt, deliveryLock, operator, history, bounds>>

ScanWrite(s) ==
  /\ ScannerAt(s, "merging")
  /\ file' = scanner[s].file
  /\ stateLock' = "free"
  /\ scanner' = [scanner EXCEPT ![s] = NoScan]
  /\ UNCHANGED <<host, signals, receipt, ackReceipt, deliveryLock, operator, history, bounds>>

Crash == crashes < MaxCrashes[play] /\ crashes' = crashes + 1
FreeState(p) == stateLock' = IF stateLock = p THEN "free" ELSE stateLock

ScannerCrash(s) ==
  /\ ~ScannerAt(s, "idle")
  /\ Crash
  /\ FreeDelivery(s)
  /\ FreeState(s)
  /\ scanner' = [scanner EXCEPT ![s] = NoScan]
  /\ UNCHANGED <<host, signals, file, receipt, ackReceipt, operator, history, busy, retries>>

(***************************************************************************)
(* acknowledge_signal: the delivery lock, then the lock of the state file; *)
(* the receipt first, then the state.  An acknowledgement is repeated only *)
(* while the state does not record it.                                     *)
(***************************************************************************)
OperatorAt(o, place) == operator[o].at = place
Called(o) == play = "deliver" /\ OperatorAt(o, "idle")

\* Variant: only the state file is locked.
AckBegin_NoLock(o, k) ==
  /\ Called(o)
  /\ k \in (Reviewed \cap inbox) \ file.acknowledged
  /\ operator' = [operator EXCEPT ![o] = [NoErrand EXCEPT !.at = "ackLocked", !.signal = k]]
  /\ UNCHANGED <<host, signals, file, receipt, ackReceipt, locks, scanner, history, bounds>>

AckBegin(o, k) ==
  /\ Called(o)
  /\ k \in (Reviewed \cap inbox) \ file.acknowledged
  /\ deliveryLock[k] = "free"
  /\ deliveryLock' = [deliveryLock EXCEPT ![k] = o]
  /\ operator' = [operator EXCEPT ![o] = [NoErrand EXCEPT !.at = "ackLocked", !.signal = k]]
  /\ UNCHANGED <<host, signals, file, receipt, ackReceipt, stateLock, scanner, history, bounds>>

Acknowledged(f, k) == [Seen(f, k) EXCEPT !.acknowledged = @ \cup {k}]

AckReceipt(o) ==
  LET k == operator[o].signal IN
    /\ OperatorAt(o, "ackLocked")
    /\ stateLock = "free"
    /\ stateLock' = o
    /\ ackReceipt' = ackReceipt \cup {k}
    /\ operator' = [operator EXCEPT ![o].at = "ackWrite", ![o].file = Acknowledged(file, k)]
    /\ UNCHANGED <<host, signals, file, receipt, deliveryLock, scanner, history, bounds>>

AckState(o) ==
  /\ OperatorAt(o, "ackWrite")
  /\ file' = operator[o].file
  /\ stateLock' = "free"
  /\ FreeDelivery(o)
  /\ operator' = [operator EXCEPT ![o] = NoErrand]
  /\ UNCHANGED <<host, signals, receipt, ackReceipt, scanner, history, bounds>>

OperatorCrash(o) ==
  /\ ~OperatorAt(o, "idle")
  /\ Crash
  /\ FreeDelivery(o)
  /\ FreeState(o)
  /\ operator' = [operator EXCEPT ![o] = NoErrand]
  /\ UNCHANGED <<host, signals, file, receipt, ackReceipt, scanner, history, busy, retries>>

(***************************************************************************)
(* retry_deferred_event: reads and rewrites the state and the receipt      *)
(* without taking any lock.                                                *)
(***************************************************************************)
\* Variant: the record takes the status meant for the receipt.
Rearmed_ReceiptStatus(f, k) ==
  [f EXCEPT !.deferred[k] = [@ EXCEPT !.status = "retry_requested", !.waiting = FALSE]]

Rearmed(f, k) ==
  [f EXCEPT !.deferred[k] = [@ EXCEPT !.status = "retryable", !.waiting = FALSE]]

RetryBegin(o, k) ==
  /\ Called(o)
  /\ retries < MaxRetries
  /\ retries' = retries + 1
  /\ file.deferred[k].status # "none"
  /\ operator' = [operator EXCEPT ![o] = [NoErrand EXCEPT !.at = "retryRead", !.signal = k,
                                                          !.file = Rearmed(file, k)]]
  /\ UNCHANGED <<host, signals, file, receipt, ackReceipt, locks, scanner, history, busy, crashes>>

RetryInspect(o) ==
  /\ OperatorAt(o, "retryRead")
  /\ operator' = [operator EXCEPT ![o].at = "retryRelease",
                                  ![o].seen = receipt[operator[o].signal]]
  /\ UNCHANGED <<host, signals, file, receipt, ackReceipt, locks, scanner, history, bounds>>

RetryRelease(o) ==
  LET k == operator[o].signal IN
    /\ OperatorAt(o, "retryRelease")
    /\ \/ /\ operator[o].seen \in {"claimed", "ambiguous"}
          /\ receipt' = [receipt EXCEPT ![k] = "retry_requested"]
          /\ released' = [released EXCEPT ![k] = @ + 1]
       \/ /\ operator[o].seen \notin {"claimed", "ambiguous"}
          /\ UNCHANGED <<receipt, released>>
    /\ operator' = [operator EXCEPT ![o].at = "retryWrite"]
    /\ UNCHANGED <<host, signals, file, ackReceipt, locks, scanner, submitted, bounds>>

RetryState(o) ==
  /\ OperatorAt(o, "retryWrite")
  /\ file' = operator[o].file
  /\ operator' = [operator EXCEPT ![o] = NoErrand]
  /\ UNCHANGED <<host, signals, receipt, ackReceipt, locks, scanner, history, bounds>>

(***************************************************************************)
(* What service_status tells the operator of the state file and the inbox. *)
(***************************************************************************)
\* pending_signal_count counts these, whether or not they are deferred.
Pending == inbox \ file.seen

\* deferred_event_summaries
DeferredEvents ==
  {[event |-> k, status |-> file.deferred[k].status, attempts |-> file.deferred[k].attempts,
    retried |-> file.deferred[k].waiting] : k \in {k \in Signal : file.deferred[k].status # "none"}}

-----------------------------------------------------------------------------
DeferredRecords == [status : {"none", "retryable", "manual"}, attempts : 0..MaxAttempts,
           waiting : BOOLEAN]
File == [seen : SUBSET Signal, deferred : [Signal -> DeferredRecords], acknowledged : SUBSET Signal]
Receipts ==
  {"none", "claimed", "accepted", "deferred", "ambiguous", "retry_requested"}
ScanRecords ==
  [at : {"idle", "scanning", "locked", "delivering", "claimed", "submitted", "merging"},
   file : File, todo : SUBSET Signal, done : SUBSET Signal, signal : Signal \cup {NoSignal},
   result : {"none", "accepted", "deferred", "ambiguous"}]
ErrandRecords ==
  [at : {"idle", "ackLocked", "ackWrite", "retryRead", "retryRelease", "retryWrite"},
   signal : Signal \cup {NoSignal}, file : File, seen : Receipts]

DeliveryTypeOK ==
  /\ inbox \subseteq Signal /\ superseded \subseteq Notices /\ ackReceipt \subseteq Signal
  /\ file \in File
  /\ receipt \in [Signal -> Receipts]
  /\ deliveryLock \in [Signal -> {"free"} \cup Scanner \cup Operator]
  /\ stateLock \in {"free"} \cup Scanner \cup Operator
  /\ scanner \in [Scanner -> ScanRecords] /\ operator \in [Operator -> ErrandRecords]
  /\ submitted \in [Signal -> Nat] /\ released \in [Signal -> Nat]

\* docs/contracts.md: "concurrent watcher consumers cannot submit the same event twice".
\* However scans overlap and die, a chat gets at most one message about a signal for
\* each time an operator released its receipt, and one more.
AtMostOnce == \A k \in Signal : submitted[k] <= 1 + released[k]

\* docs/contracts.md: "An event is marked seen only after a successful action" or a
\* "manual acknowledgement": no seen signal was lost on its way to the chat, even when
\* snapshots of other scans and retries are merged into the state: service_status
\* counts it as pending until then.  The continuity ledger may withdraw a notice of
\* its own.
NothingLost ==
  \A k \in inbox \ Pending : submitted[k] > 0 \/ k \in ackReceipt \cup superseded

\* Exactly-once, as far as the host allows: scan_once and acknowledge_signal neither
\* repeat a message by themselves nor mark a signal seen that reached nobody.
DeliverySound == AtMostOnce /\ NothingLost

\* Once the acknowledgement receipt is written no delivery of the signal is begun
\* (acknowledge_signal and scan_once share the delivery lock).
AcknowledgedNotClaimed ==
  [][\A k \in ackReceipt : receipt'[k] = "claimed" => receipt[k] = "claimed"]_vars

\* Every signal is in the end seen, or service_status shows that it waits for the
\* operator, whatever dies between claim, submission, receipt and state.
SignalsSettle ==
  \A k \in Signal :
    <>[](k \in Pending => \E e \in DeferredEvents : e.event = k /\ e.status = "manual")
===============================================================================
