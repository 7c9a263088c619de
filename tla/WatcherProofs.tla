------------------------------ MODULE WatcherProofs ------------------------------
(***************************************************************************)
(* What holds of the watcher of a host for every number of signals, scans, *)
(* operators, commands and processes: types, the delivery protocol and the *)
(* service of the host.  The two halves share no variable but `play`, so   *)
(* each has an inductive invariant of its own.                             *)
(***************************************************************************)
EXTENDS WatcherHost, FiniteSetTheorems, TLAPS

USE DEF ScanRecords, ErrandRecords, File, DeferredRecords, Receipts

-----------------------------------------------------------------------------
(***************************************************************************)
(* Delivery                                                                *)
(***************************************************************************)
Working == {"locked", "delivering", "claimed", "submitted"}
Acking == {"ackLocked", "ackWrite"}

\* Whoever is in the middle of a signal holds its delivery lock.
HoldsLock ==
  /\ \A s \in Scanner : scanner[s].at \in Working =>
       scanner[s].signal \in Signal /\ deliveryLock[scanner[s].signal] = s
  /\ \A s \in Scanner : scanner[s].at = "submitted" => scanner[s].result # "none"
  /\ \A o \in Operator : operator[o].at # "idle" => operator[o].signal \in Signal
  /\ \A o \in Operator : operator[o].at \in Acking => deliveryLock[operator[o].signal] = o

Taken(k) == receipt[k] \in {"claimed", "accepted", "ambiguous"}

\* A claim uses up what the first message or a release of the operator allowed; the
\* claimant alone submits, even when its receipt was released under it.
BudgetKept ==
  /\ AtMostOnce
  /\ \A k \in Signal : ~Taken(k) => submitted[k] <= released[k]
  /\ \A s \in Scanner :
       LET k == scanner[s].signal IN
         /\ scanner[s].at = "claimed" =>
              submitted[k] <= released[k] /\ (~Taken(k) => submitted[k] < released[k])
         /\ scanner[s].at = "submitted" /\ scanner[s].result = "deferred" =>
              submitted[k] <= released[k]

\* A receipt or a scan that says "accepted" is right.
AcceptedIsRight ==
  /\ \A k \in Signal : receipt[k] = "accepted" => submitted[k] > 0
  /\ \A s \in Scanner : scanner[s].at = "submitted" /\ scanner[s].result = "accepted" =>
       submitted[scanner[s].signal] > 0

Justified(k) == submitted[k] > 0 \/ k \in ackReceipt \cup superseded

\* The state file and every copy of it, however old, mark only what may be.
SeenIsJustified ==
  /\ \A k \in file.seen : Justified(k)
  /\ \A s \in Scanner : \A k \in scanner[s].file.seen : Justified(k)
  /\ \A o \in Operator : \A k \in operator[o].file.seen : Justified(k)
  /\ \A o \in Operator : operator[o].at = "ackWrite" => operator[o].signal \in ackReceipt

\* Nobody begins the delivery of what was acknowledged.
DeliveringIsOpen ==
  \A s \in Scanner : scanner[s].at = "delivering" => scanner[s].signal \notin ackReceipt

DeliveryShape == DeliveryTypeOK /\ HoldsLock

DeliveryStep ==
  \/ \E k \in Signal : Publish(k) \/ Supersede(k) \/ BackoffEnds(k)
  \/ \E s \in Scanner : ScanStep(s) \/ ScannerCrash(s)
  \/ \E o \in Operator :
       \/ ErrandStep(o) \/ OperatorCrash(o)
       \/ \E k \in Signal : AckBegin(o, k) \/ RetryBegin(o, k)

\* What the operators of a scan make of a state file is a state file, and marks only
\* what it marked and the signal at hand.
LEMMA FileOperators ==
  ASSUME NEW f \in File, NEW k \in Signal
  PROVE  /\ Seen(f, k) \in File /\ Seen(f, k).seen = f.seen \cup {k}
         /\ Acknowledged(f, k) \in File /\ Acknowledged(f, k).seen = f.seen \cup {k}
         /\ Rearmed(f, k) \in File /\ Rearmed(f, k).seen = f.seen
         /\ Elapsed(f, k) \in File /\ Elapsed(f, k).seen = f.seen
         /\ \A reason \in {"guard", "failed", "manual"} :
              Deferred(f, k, reason) \in File /\ Deferred(f, k, reason).seen = f.seen
         /\ \A result \in {"accepted", "deferred", "ambiguous"} :
              /\ Concluded(f, k, result) \in File
              /\ Concluded(f, k, result).seen \subseteq f.seen \cup {k}
              /\ result # "accepted" => Concluded(f, k, result).seen = f.seen
<1>n. NotDeferred \in DeferredRecords
  BY MaxAttemptsAssumption DEF NotDeferred
<1>1. Seen(f, k) \in File /\ Seen(f, k).seen = f.seen \cup {k}
  BY <1>n DEF Seen
<1>2. Acknowledged(f, k) \in File /\ Acknowledged(f, k).seen = f.seen \cup {k}
  BY <1>1 DEF Acknowledged
<1>3. Rearmed(f, k) \in File /\ Rearmed(f, k).seen = f.seen
  BY DEF Rearmed
<1>6. Elapsed(f, k) \in File /\ Elapsed(f, k).seen = f.seen
  BY DEF Elapsed
<1>4. ASSUME NEW reason \in {"guard", "failed", "manual"}
      PROVE  Deferred(f, k, reason) \in File /\ Deferred(f, k, reason).seen = f.seen
  <2>1. DeferredRecord(f.deferred[k], reason) \in DeferredRecords
    BY MaxAttemptsAssumption DEF DeferredRecord, ManualRequired
  <2> QED BY <2>1 DEF Deferred
<1>5. ASSUME NEW result \in {"accepted", "deferred", "ambiguous"}
      PROVE  /\ Concluded(f, k, result) \in File
             /\ Concluded(f, k, result).seen \subseteq f.seen \cup {k}
             /\ result # "accepted" => Concluded(f, k, result).seen = f.seen
  BY <1>1, <1>4 DEF Concluded
<1> QED BY <1>1, <1>2, <1>3, <1>4, <1>5, <1>6

\* A deferral marks nothing, whatever its reason.
LEMMA DeferredMarksNothing ==
  ASSUME NEW f \in File, NEW k \in Signal, NEW reason \in {"guard", "failed", "manual"}
  PROVE  Deferred(f, k, reason).seen = f.seen
BY FileOperators

\* An answer marks its signal only when it was accepted.
LEMMA ConcludedMarks ==
  ASSUME NEW f \in File, NEW k \in Signal, NEW result \in {"accepted", "deferred", "ambiguous"}
  PROVE  /\ Concluded(f, k, result).seen \subseteq f.seen \cup {k}
         /\ result # "accepted" => Concluded(f, k, result).seen = f.seen
BY FileOperators

\* scan_once's merge adds the marks of the scan to those of the file as it is.
LEMMA MergeOperator ==
  ASSUME NEW mine \in File, NEW latest \in File, NEW done \in SUBSET Signal
  PROVE  /\ Merge(mine, latest, done) \in File
         /\ Merge(mine, latest, done).seen = latest.seen \cup mine.seen
<1> DEFINE deferred == [k \in Signal |->
      IF k \notin done THEN latest.deferred[k]
      ELSE IF k \in mine.seen \cup latest.seen THEN NotDeferred ELSE mine.deferred[k]]
<1>n. NotDeferred \in DeferredRecords
  BY MaxAttemptsAssumption DEF NotDeferred
<1>1. deferred \in [Signal -> DeferredRecords]
  BY <1>n
<1>2. Merge(mine, latest, done) =
        [latest EXCEPT !.seen = latest.seen \cup mine.seen, !.deferred = deferred]
  BY Zenon DEF Merge
<1> HIDE DEF deferred
<1> QED BY <1>1, <1>2

\* The empty records are records.
LEMMA EmptyRecords ==
  /\ EmptyFile \in File /\ EmptyFile.seen = {}
  /\ NoScan \in ScanRecords /\ NoScan.at = "idle" /\ NoScan.file = EmptyFile
  /\ NoErrand \in ErrandRecords /\ NoErrand.at = "idle" /\ NoErrand.file = EmptyFile
BY MaxAttemptsAssumption DEF EmptyFile, NotDeferred, NoScan, NoErrand

USE DEF DeliveryTypeOK, HoldsLock, host, delivery, locks, signals, history, bounds, Working,
        Acking, ScannerAt, FreeDelivery, Finish, Crash, FreeState, OperatorAt, Called

\* Nobody but the holder gives a delivery lock back, and only a free one is taken.
LEMMA ShapeStep ==
  ASSUME DeliveryShape, DeliveryStep
  PROVE  DeliveryShape'
<1> USE ReviewedAssumption, ActorAssumption, NoSignalAssumption, EmptyRecords DEF DeliveryShape
<1> HIDE DEF File, ScanRecords, ErrandRecords
<1>1. ASSUME NEW k \in Signal, Publish(k) \/ Supersede(k)
      PROVE  DeliveryShape'
  BY <1>1 DEF Publish, Supersede
<1>2. ASSUME NEW k \in Signal, BackoffEnds(k)
      PROVE  DeliveryShape'
  <2>1. Elapsed(file, k) \in File
    BY FileOperators
  <2> DEFINE scan(s) == [scanner[s] EXCEPT !.file = Elapsed(@, k)]
             errand(o) == [operator[o] EXCEPT !.file = Elapsed(@, k)]
  <2>2. ASSUME NEW s \in Scanner
        PROVE  /\ scan(s) \in ScanRecords /\ scan(s).at = scanner[s].at
               /\ scan(s).signal = scanner[s].signal /\ scan(s).result = scanner[s].result
    <3>1. scanner[s] \in ScanRecords /\ scanner[s].file \in File
      BY DEF ScanRecords
    <3>2. Elapsed(scanner[s].file, k) \in File
      BY <3>1, FileOperators
    <3> QED BY <3>1, <3>2 DEF ScanRecords
  <2>3. ASSUME NEW o \in Operator
        PROVE  /\ errand(o) \in ErrandRecords /\ errand(o).at = operator[o].at
               /\ errand(o).signal = operator[o].signal
    <3>1. operator[o] \in ErrandRecords /\ operator[o].file \in File
      BY DEF ErrandRecords
    <3>2. Elapsed(operator[o].file, k) \in File
      BY <3>1, FileOperators
    <3> QED BY <3>1, <3>2 DEF ErrandRecords
  <2>4. /\ scanner' = [s \in Scanner |-> scan(s)] /\ operator' = [o \in Operator |-> errand(o)]
        /\ file' = Elapsed(file, k)
        /\ UNCHANGED <<signals, receipt, ackReceipt, deliveryLock, stateLock, history>>
    BY <1>2 DEF BackoffEnds
  <2> HIDE DEF scan, errand
  <2> QED BY <2>1, <2>2, <2>3, <2>4
<1>3. ASSUME NEW s \in Scanner, ScanStep(s) \/ ScannerCrash(s)
      PROVE  DeliveryShape'
  <2> DEFINE k == scanner[s].signal
  <2>0. /\ scanner[s].file \in File
        /\ scanner[s].at \in Working => k \in Signal
        /\ scanner[s] \in ScanRecords
    BY DEF ScanRecords
  <2>1. CASE ScanBegin(s)
    <3> DEFINE todo == {j \in inbox \ file.seen : Due(j, file)}
               r == [NoScan EXCEPT !.at = "scanning", !.file = file, !.todo = todo]
    <3>1. r \in ScanRecords /\ r.at = "scanning"
      <4>1. todo \in SUBSET Signal
        OBVIOUS
      <4>2. file \in File /\ NoScan \in ScanRecords
        OBVIOUS
      <4> HIDE DEF todo
      <4> QED BY ONLY <4>1, <4>2 DEF ScanRecords
    <3>2. /\ scanner' = [scanner EXCEPT ![s] = r]
          /\ UNCHANGED <<signals, file, receipt, ackReceipt, locks, operator, history>>
      BY <2>1 DEF ScanBegin
    <3> HIDE DEF r
    <3> QED BY <3>1, <3>2
  <2>2. ASSUME NEW j \in Signal, ConsumeSuperseded(s, j)
        PROVE  DeliveryShape'
    <3> DEFINE f == Seen(scanner[s].file, j)
    <3>1. f \in File
      BY <2>0, FileOperators
    <3>2. scanner' = [scanner EXCEPT ![s].file = f, ![s].todo = @ \ {j},
                                     ![s].done = @ \cup {j}]
      BY <2>2 DEF ConsumeSuperseded
    <3> HIDE DEF f
    <3> QED BY <2>2, <2>0, <3>1, <3>2 DEF ConsumeSuperseded, ScanRecords
  <2>3. ASSUME NEW j \in Signal, TakeUp(s, j)
        PROVE  DeliveryShape'
    BY <2>3, <2>0 DEF TakeUp, ScanRecords
  <2>4. ASSUME NEW f \in File, Finish(s, f), scanner[s].at \in Working,
               UNCHANGED <<stateLock, ackReceipt, signals, file, operator, history>>,
               receipt' \in [Signal -> Receipts]
        PROVE  DeliveryShape'
    <3> DEFINE r == [scanner[s] EXCEPT !.at = "scanning", !.file = f, !.done = @ \cup {k},
                                       !.signal = NoSignal, !.result = "none"]
    <3>1. scanner[s] \in ScanRecords /\ k \in Signal
      BY <2>4, <2>0
    <3>2. r \in ScanRecords /\ r.at = "scanning"
      BY ONLY <2>4, <3>1 DEF ScanRecords
    <3>3. scanner' = [scanner EXCEPT ![s] = r]
      BY ONLY <2>4 DEF Finish
    <3>4. deliveryLock' = [j \in Signal |-> IF deliveryLock[j] = s THEN "free" ELSE deliveryLock[j]]
      BY ONLY <2>4 DEF Finish, FreeDelivery
    <3> HIDE DEF r
    <3>5. /\ scanner' \in [Scanner -> ScanRecords] /\ scanner'[s].at = "scanning"
          /\ \A t \in Scanner : t # s => scanner'[t] = scanner[t]
      BY <3>2, <3>3
    <3>6. deliveryLock' \in [Signal -> {"free"} \cup Scanner \cup Operator]
      BY <3>4
    <3>7. DeliveryTypeOK'
      BY <2>4, <3>5, <3>6
    <3>8. HoldsLock'
      <4>1. \A j \in Signal : deliveryLock[j] # s => deliveryLock'[j] = deliveryLock[j]
        BY ONLY <3>4
      <4>2. ASSUME NEW t \in Scanner, scanner'[t].at \in Working
            PROVE  /\ t # s /\ scanner'[t] = scanner[t]
                   /\ scanner[t].signal \in Signal /\ deliveryLock[scanner[t].signal] = t
        BY <3>5, <4>2
      <4>3. \A t \in Scanner : scanner'[t].at \in Working =>
               scanner'[t].signal \in Signal /\ deliveryLock'[scanner'[t].signal] = t
        BY <4>1, <4>2
      <4>4. \A t \in Scanner : scanner'[t].at = "submitted" => scanner'[t].result # "none"
        BY <4>2
      <4>5. operator' = operator
        BY ONLY <2>4
      <4>6. \A o \in Operator :
              /\ operator[o].at # "idle" => operator[o].signal \in Signal
              /\ operator[o].at \in Acking =>
                   /\ operator[o].signal \in Signal /\ deliveryLock[operator[o].signal] = o
                   /\ o # s
        OBVIOUS
      <4>7. \A o \in Operator :
              /\ operator'[o].at # "idle" => operator'[o].signal \in Signal
              /\ operator'[o].at \in Acking => deliveryLock'[operator'[o].signal] = o
        BY ONLY <4>1, <4>5, <4>6
      <4> QED BY ONLY <4>3, <4>4, <4>7 DEF HoldsLock
    <3> QED BY <3>7, <3>8
  <2>5. CASE SuppressAcknowledged(s)
    BY Zenon, <2>5, <2>4, <2>0, FileOperators DEF SuppressAcknowledged
  <2>6. CASE Unacknowledged(s)
    BY <2>6, <2>0 DEF Unacknowledged, ScanRecords
  <2>7. CASE AlreadyWoken(s)
    BY Zenon, <2>7, <2>4, <2>0, FileOperators DEF AlreadyWoken
  <2>8. CASE StillAmbiguous(s)
    BY Zenon, <2>8, <2>4, <2>0, FileOperators DEF StillAmbiguous
  <2>9. CASE Refused(s)
    <3>1. PICK reason \in {"guard", "failed", "manual"} :
            /\ Finish(s, Deferred(scanner[s].file, k, reason))
            /\ receipt' = [receipt EXCEPT ![k] = "deferred"] \/ UNCHANGED receipt
      BY <2>9 DEF Refused
    <3>2. /\ Deferred(scanner[s].file, k, reason) \in File
          /\ UNCHANGED <<stateLock, ackReceipt, signals, file, operator, history>>
          /\ scanner[s].at \in Working
      BY <2>9, <2>0, FileOperators DEF Refused
    <3>3. receipt' \in [Signal -> Receipts]
      BY <3>1, <3>2
    <3> HIDE DEF Finish
    <3> QED BY <3>1, <3>2, <3>3, <2>4
  <2>10. CASE Claim(s)
    BY <2>10, <2>0 DEF Claim, ScanRecords
  <2>11. CASE Submit(s)
    <3>1. PICK r \in Results :
            /\ scanner' = [scanner EXCEPT ![s].at = "submitted", ![s].result = r.answer]
            /\ submitted' = [submitted EXCEPT ![k] = IF r.reached THEN @ + 1 ELSE @]
      BY Zenon, <2>11 DEF Submit
    <3>2. r.answer \in {"accepted", "deferred", "ambiguous"}
      BY DEF Results
    <3>3. submitted' \in [Signal -> Nat]
      BY <2>0, <2>11, <3>1 DEF Submit
    <3>4. scanner' \in [Scanner -> ScanRecords]
      <4>1. [scanner[s] EXCEPT !.at = "submitted", !.result = r.answer] \in ScanRecords
        BY ONLY <2>0, <3>2 DEF ScanRecords
      <4>2. scanner \in [Scanner -> ScanRecords]
        OBVIOUS
      <4>3. scanner' = [scanner EXCEPT ![s] = [scanner[s] EXCEPT !.at = "submitted",
                                                                  !.result = r.answer]]
        BY ONLY <3>1, <4>2
      <4> QED BY ONLY <4>1, <4>2, <4>3
    <3>5. \A t \in Scanner : t # s => scanner'[t] = scanner[t]
      BY <3>1
    <3>6. scanner'[s].at = "submitted" /\ scanner'[s].signal = k /\ scanner'[s].result # "none"
      BY <2>0, <3>1, <3>2 DEF ScanRecords
    <3>7. scanner[s].at = "claimed" /\ UNCHANGED <<deliveryLock, stateLock, ackReceipt, signals,
                                                   file, operator, receipt, released>>
      BY <2>11 DEF Submit
    <3> HIDE <2>11
    <3> QED BY <2>0, <3>3, <3>4, <3>5, <3>6, <3>7
  <2>12. CASE Conclude(s)
    <3>1. scanner[s].result \in {"accepted", "deferred", "ambiguous"}
      BY <2>12, <2>0 DEF Conclude, ScanRecords
    <3> QED BY Zenon, <2>12, <2>4, <2>0, <3>1, FileOperators DEF Conclude
  <2>13. CASE ScanRead(s)
    <3> DEFINE f == Merge(scanner[s].file, file, scanner[s].done)
    <3>1. f \in File
      BY <2>0, MergeOperator DEF ScanRecords
    <3>2. scanner' = [scanner EXCEPT ![s].at = "merging", ![s].file = f]
      BY <2>13 DEF ScanRead
    <3> HIDE DEF f
    <3>3. scanner' \in [Scanner -> ScanRecords]
      <4>1. [scanner[s] EXCEPT !.at = "merging", !.file = f] \in ScanRecords
        BY ONLY <2>0, <3>1 DEF ScanRecords
      <4>2. scanner \in [Scanner -> ScanRecords]
        OBVIOUS
      <4>3. scanner' = [scanner EXCEPT ![s] = [scanner[s] EXCEPT !.at = "merging", !.file = f]]
        BY ONLY <3>2, <4>2
      <4> QED BY ONLY <4>1, <4>2, <4>3
    <3>4. /\ \A t \in Scanner : t # s => scanner'[t] = scanner[t]
          /\ scanner'[s].at = "merging"
      BY <3>2, <2>0 DEF ScanRecords
    <3> QED BY <2>13, <3>3, <3>4 DEF ScanRead
  <2>14. CASE ScanWrite(s)
    BY <2>14, <2>0 DEF ScanWrite
  <2>15. CASE ScannerCrash(s)
    BY <2>15, <2>0 DEF ScannerCrash
  <2> QED
    BY <1>3, <2>1, <2>2, <2>3, <2>5, <2>6, <2>7, <2>8, <2>9, <2>10, <2>11, <2>12, <2>13, <2>14,
       <2>15 DEF ScanStep, Attempt
<1>4. ASSUME NEW o \in Operator,
             \/ ErrandStep(o) \/ OperatorCrash(o)
             \/ \E k \in Signal : AckBegin(o, k) \/ RetryBegin(o, k)
      PROVE  DeliveryShape'
  <2> DEFINE k == operator[o].signal
  <2>0. operator[o].file \in File /\ operator[o] \in ErrandRecords
    BY DEF ErrandRecords
  <2>1. CASE AckReceipt(o)
    <3> DEFINE f == Acknowledged(file, k)
    <3>1. f \in File /\ k \in Signal
      BY <2>1, FileOperators DEF AckReceipt
    <3>2. operator' = [operator EXCEPT ![o].at = "ackWrite", ![o].file = f]
      BY <2>1 DEF AckReceipt
    <3> HIDE DEF f
    <3>3. operator' \in [Operator -> ErrandRecords]
      <4>1. [operator[o] EXCEPT !.at = "ackWrite", !.file = f] \in ErrandRecords
        BY ONLY <2>0, <3>1 DEF ErrandRecords
      <4>2. operator \in [Operator -> ErrandRecords]
        OBVIOUS
      <4>3. operator' = [operator EXCEPT ![o] = [operator[o] EXCEPT !.at = "ackWrite", !.file = f]]
        BY ONLY <3>2, <4>2
      <4> QED BY ONLY <4>1, <4>2, <4>3
    <3>4. /\ \A p \in Operator : p # o => operator'[p] = operator[p]
          /\ operator'[o].at = "ackWrite" /\ operator'[o].signal = k
      BY <3>2, <2>0 DEF ErrandRecords
    <3> QED BY <2>1, <3>1, <3>3, <3>4 DEF AckReceipt
  <2>2. CASE AckState(o)
    BY <2>2, <2>0 DEF AckState
  <2>3. CASE RetryInspect(o)
    BY ZenonT(60), <2>3, <2>0 DEF RetryInspect, ErrandRecords
  <2>4. CASE RetryRelease(o)
    BY <2>4, <2>0 DEF RetryRelease, ErrandRecords
  <2>5. CASE RetryState(o)
    BY <2>5, <2>0 DEF RetryState
  <2>6. CASE OperatorCrash(o)
    BY <2>6, <2>0 DEF OperatorCrash
  <2>7. ASSUME NEW j \in Signal, AckBegin(o, j)
        PROVE  DeliveryShape'
    <3> DEFINE r == [NoErrand EXCEPT !.at = "ackLocked", !.signal = j]
    <3>1. r \in ErrandRecords /\ r.at = "ackLocked" /\ r.signal = j
      BY DEF ErrandRecords
    <3>2. operator' = [operator EXCEPT ![o] = r]
      BY <2>7 DEF AckBegin
    <3> HIDE DEF r
    <3> QED BY <2>7, <3>1, <3>2 DEF AckBegin
  <2>8. ASSUME NEW j \in Signal, RetryBegin(o, j)
        PROVE  DeliveryShape'
    <3> DEFINE r == [NoErrand EXCEPT !.at = "retryRead", !.signal = j,
                                     !.file = Rearmed(file, j)]
    <3>1. r \in ErrandRecords /\ r.at = "retryRead" /\ r.signal = j
      BY FileOperators DEF ErrandRecords
    <3>2. operator' = [operator EXCEPT ![o] = r]
      BY <2>8 DEF RetryBegin
    <3> HIDE DEF r
    <3> QED BY <2>8, <3>1, <3>2 DEF RetryBegin
  <2> QED
    BY <1>4, <2>1, <2>2, <2>3, <2>4, <2>5, <2>6, <2>7, <2>8 DEF ErrandStep
<1> QED
  BY <1>1, <1>2, <1>3, <1>4 DEF DeliveryStep

\* Of the steps of delivery only five touch receipts, counts or the scans that claimed.
StaysQuiet ==
  /\ UNCHANGED <<receipt, submitted, released>>
  /\ \A s \in Scanner : scanner'[s].at \in {"claimed", "submitted"} =>
       /\ scanner'[s].at = scanner[s].at
       /\ scanner'[s].signal = scanner[s].signal
       /\ scanner'[s].result = scanner[s].result

\* The other steps are quiet.
LEMMA QuietSteps ==
  ASSUME DeliveryShape, DeliveryStep,
         \A s \in Scanner : ~Refused(s) /\ ~Claim(s) /\ ~Submit(s) /\ ~Conclude(s),
         \A o \in Operator : ~RetryRelease(o)
  PROVE  StaysQuiet
<1> USE DEF DeliveryShape, StaysQuiet
<1>1. ASSUME NEW k \in Signal, Publish(k) \/ Supersede(k) \/ BackoffEnds(k)
      PROVE  StaysQuiet
  <2> HIDE DEF File
  <2>1. \A s \in Scanner : [scanner[s] EXCEPT !.file = Elapsed(@, k)].at = scanner[s].at
                        /\ [scanner[s] EXCEPT !.file = Elapsed(@, k)].signal = scanner[s].signal
                        /\ [scanner[s] EXCEPT !.file = Elapsed(@, k)].result = scanner[s].result
    OBVIOUS
  <2> QED BY <1>1, <2>1 DEF Publish, Supersede, BackoffEnds
<1>2. ASSUME NEW s \in Scanner, ScanStep(s) \/ ScannerCrash(s)
      PROVE  StaysQuiet
  <2> HIDE DEF File
  <2> DEFINE Passes ==
        /\ UNCHANGED <<receipt, submitted, released>>
        /\ \A t \in Scanner : t # s => scanner'[t] = scanner[t]
        /\ scanner'[s].at \notin {"claimed", "submitted"}
  <2>1. CASE ScanBegin(s) \/ ScanWrite(s) \/ ScannerCrash(s)
    <3>1. \A done : [NoScan EXCEPT !.at = "scanning", !.file = file, !.todo = done].at = "scanning"
      BY DEF NoScan
    <3>2. ScanBegin(s) => Passes
      BY <3>1 DEF ScanBegin
    <3>3. ScanWrite(s) \/ ScannerCrash(s) => Passes
      BY EmptyRecords DEF ScanWrite, ScannerCrash
    <3> QED BY <2>1, <3>2, <3>3
  <2>2. ASSUME NEW k \in Signal, ConsumeSuperseded(s, k) \/ TakeUp(s, k)
        PROVE  StaysQuiet
    <3>1. Passes
      BY <2>2 DEF ConsumeSuperseded, TakeUp
    <3> QED BY <3>1
  <2>3. ASSUME NEW f, Finish(s, f), UNCHANGED <<receipt, submitted, released>>
        PROVE  StaysQuiet
    <3>1. Passes
      BY <2>3
    <3> QED BY <3>1
  <2>4. CASE SuppressAcknowledged(s) \/ AlreadyWoken(s) \/ StillAmbiguous(s)
    <3> HIDE DEF Finish
    <3> QED BY <2>4, <2>3 DEF SuppressAcknowledged, AlreadyWoken, StillAmbiguous
  <2>5. CASE Unacknowledged(s) \/ ScanRead(s)
    <3>1. Passes
      BY <2>5 DEF Unacknowledged, ScanRead
    <3> QED BY <3>1
  <2> QED BY <1>2, <2>1, <2>2, <2>4, <2>5 DEF ScanStep, Attempt
<1>3. ASSUME NEW o \in Operator,
             \/ ErrandStep(o) \/ OperatorCrash(o)
             \/ \E k \in Signal : AckBegin(o, k) \/ RetryBegin(o, k)
      PROVE  StaysQuiet
  BY Zenon, <1>3 DEF ErrandStep, OperatorCrash, AckBegin, RetryBegin, AckReceipt, AckState,
     RetryInspect, RetryState
<1> QED BY <1>1, <1>2, <1>3 DEF DeliveryStep

\* The budget of a signal: a claim takes what is left, an answer settles it.
LEMMA BudgetStep ==
  ASSUME DeliveryShape, BudgetKept, AcceptedIsRight, DeliveryStep
  PROVE  BudgetKept' /\ AcceptedIsRight'
<1> USE DEF DeliveryShape, BudgetKept, AcceptedIsRight, AtMostOnce, Taken
<1> HIDE DEF File
<1>1. CASE StaysQuiet
  BY <1>1 DEF StaysQuiet
<1>2. ASSUME NEW s \in Scanner, Refused(s) \/ Claim(s) \/ Submit(s) \/ Conclude(s)
      PROVE  BudgetKept' /\ AcceptedIsRight'
  <2> DEFINE k == scanner[s].signal
  <2>0. /\ k \in Signal /\ deliveryLock[k] = s /\ scanner[s] \in ScanRecords
        /\ \A t \in Scanner : t # s /\ scanner[t].at \in Working => scanner[t].signal # k
        /\ \A t \in Scanner : t # s => scanner'[t] = scanner[t]
        /\ UNCHANGED released
    <3>1. /\ ScannerAt(s, "delivering") \/ ScannerAt(s, "claimed") \/ ScannerAt(s, "submitted")
          /\ UNCHANGED released
      BY Zenon, <1>2 DEF Refused, Claim, Submit, Conclude
    <3>2. /\ k \in Signal /\ deliveryLock[k] = s /\ scanner[s] \in ScanRecords
          /\ \A t \in Scanner : t # s /\ scanner[t].at \in Working => scanner[t].signal # k
      BY <3>1 DEF ScannerAt
    <3>3. \A t \in Scanner : t # s => scanner'[t] = scanner[t]
      <4>0. scanner \in [Scanner -> ScanRecords]
        OBVIOUS
      <4>1. CASE Refused(s)
        BY ONLY <4>0, <4>1 DEF Refused, Finish
      <4>2. CASE Claim(s)
        BY ONLY <4>0, <4>2 DEF Claim
      <4>3. CASE Submit(s)
        BY ONLY <4>0, <4>3 DEF Submit
      <4>4. CASE Conclude(s)
        BY ONLY <4>0, <4>4 DEF Conclude, Finish
      <4> QED BY ONLY <1>2, <4>1, <4>2, <4>3, <4>4
    <3> QED BY <3>1, <3>2, <3>3
  <2>1. CASE Refused(s)
    <3>1. receipt' = [receipt EXCEPT ![k] = "deferred"] \/ UNCHANGED receipt
      BY <2>1 DEF Refused
    <3>2. ~Taken(k) /\ UNCHANGED submitted /\ scanner'[s].at = "scanning"
      BY <2>1 DEF Refused, Ambiguous
    <3>3. \A j \in Signal : receipt'[j] = receipt[j] \/ (j = k /\ receipt'[j] = "deferred")
      BY <3>1
    <3> HIDE <2>1
    <3> QED BY <2>0, <3>2, <3>3
  <2>2. CASE Claim(s)
    <3>1. receipt' = [receipt EXCEPT ![k] = "claimed"] /\ ~Taken(k) /\ UNCHANGED submitted
      BY <2>2 DEF Claim, Ambiguous
    <3>2. scanner'[s].at = "claimed" /\ scanner'[s].signal = k
      BY <2>0, <2>2 DEF Claim, ScanRecords
    <3> QED BY <2>0, <3>1, <3>2
  <2>3. CASE Submit(s)
    <3>1. PICK r \in Results :
            /\ Known(r)
            /\ scanner' = [scanner EXCEPT ![s].at = "submitted", ![s].result = r.answer]
            /\ submitted' = [submitted EXCEPT ![k] = IF r.reached THEN @ + 1 ELSE @]
      BY Zenon, <2>3 DEF Submit
    <3>2. scanner'[s].at = "submitted" /\ scanner'[s].signal = k /\ scanner'[s].result = r.answer
      BY <2>0, <3>1 DEF ScanRecords, Results
    <3>3. scanner[s].at = "claimed" /\ UNCHANGED receipt
      BY <2>3 DEF Submit
    <3>4. /\ r.answer = "deferred" => submitted'[k] = submitted[k]
          /\ r.answer = "accepted" => submitted'[k] = submitted[k] + 1
          /\ submitted'[k] \in {submitted[k], submitted[k] + 1}
          /\ \A j \in Signal : j # k => submitted'[j] = submitted[j]
      BY <2>0, <3>1 DEF Results, Known
    <3>5. /\ submitted[k] \in Nat /\ released[k] \in Nat /\ submitted[k] <= released[k]
          /\ ~Taken(k) => submitted[k] < released[k]
      BY <2>0, <3>3
    <3>6. ~Taken(k) => submitted'[k] <= released[k]
      BY <3>5, <3>4
    <3> QED BY SMTT(40), <2>0, <3>2, <3>3, <3>4, <3>5, <3>6
  <2>4. CASE Conclude(s)
    <3>1. /\ receipt' = [receipt EXCEPT ![k] = scanner[s].result] /\ UNCHANGED submitted
          /\ scanner'[s].at = "scanning" /\ scanner[s].at = "submitted"
      BY <2>4 DEF Conclude
    <3>2. scanner[s].result \in {"accepted", "deferred", "ambiguous"}
      BY <2>0, <3>1 DEF ScanRecords
    <3>3. /\ receipt'[k] = scanner[s].result
          /\ \A j \in Signal : j # k => receipt'[j] = receipt[j]
      BY <2>0, <3>1
    <3> HIDE <2>4
    <3>4. BudgetKept'
      BY <2>0, <3>1, <3>2, <3>3
    <3>5. AcceptedIsRight'
      BY <2>0, <3>1, <3>2, <3>3
    <3> QED BY <3>4, <3>5
  <2> QED BY <1>2, <2>1, <2>2, <2>3, <2>4
<1>3. ASSUME NEW o \in Operator, RetryRelease(o)
      PROVE  BudgetKept' /\ AcceptedIsRight'
  <2> DEFINE k == operator[o].signal
  <2>0. k \in Signal /\ UNCHANGED <<scanner, submitted>>
    BY <1>3 DEF RetryRelease
  <2>1. CASE UNCHANGED <<receipt, released>>
    BY <2>1, <2>0
  <2>2. CASE /\ receipt' = [receipt EXCEPT ![k] = "retry_requested"]
             /\ released' = [released EXCEPT ![k] = @ + 1]
    <3>1. /\ released'[k] = released[k] + 1 /\ receipt'[k] = "retry_requested"
          /\ \A j \in Signal : j # k => released'[j] = released[j] /\ receipt'[j] = receipt[j]
      BY <2>0, <2>2
    <3>2. submitted[k] \in Nat /\ released[k] \in Nat /\ submitted[k] <= 1 + released[k]
      BY <2>0
    <3>3. submitted[k] <= released'[k]
      BY <3>1, <3>2
    <3>4. \A s \in Scanner : scanner[s].at = "claimed" /\ scanner[s].signal = k =>
            submitted[k] < released'[k]
      BY <3>1, <3>2
    <3>5. \A s \in Scanner : scanner[s].at \in {"claimed", "submitted"} =>
            scanner[s].signal \in Signal
      OBVIOUS
    <3>6. BudgetKept'
      BY <2>0, <3>1, <3>3, <3>4, <3>5
    <3>7. AcceptedIsRight'
      BY <2>0, <3>1
    <3> QED BY <3>6, <3>7
  <2> QED BY <1>3, <2>1, <2>2 DEF RetryRelease
<1> QED BY <1>1, <1>2, <1>3, QuietSteps

\* Marks: whoever marks a signal in a copy of the state file has a reason that stays, and
\* every other change of a copy is made of the marks of other copies.
LEMMA ReasonsStay ==
  ASSUME DeliveryShape, DeliveryStep, NEW k, Justified(k)
  PROVE  Justified(k)'
<1> USE DEF DeliveryShape, Justified
<1> HIDE DEF File
<1>1. ackReceipt \subseteq ackReceipt' /\ superseded \subseteq superseded'
  <2> HIDE DEF DeliveryTypeOK, HoldsLock, Finish, FreeDelivery, Crash, FreeState
  <2>1. ASSUME NEW j \in Signal, Publish(j) \/ Supersede(j) \/ BackoffEnds(j)
        PROVE  ackReceipt \subseteq ackReceipt' /\ superseded \subseteq superseded'
    BY <2>1 DEF Publish, Supersede, BackoffEnds
  <2>2. ASSUME NEW s \in Scanner, ScanStep(s) \/ ScannerCrash(s)
        PROVE  UNCHANGED <<ackReceipt, superseded>>
    <3>1. CASE Attempt(s)
      BY <3>1 DEF Attempt, SuppressAcknowledged, Unacknowledged, AlreadyWoken, StillAmbiguous,
         Refused, Claim, Submit, Conclude
    <3>2. CASE ~Attempt(s)
      BY Zenon, <2>2, <3>2 DEF ScanStep, ScannerCrash, ScanBegin, ConsumeSuperseded, TakeUp, ScanRead,
         ScanWrite
    <3> QED BY <3>1, <3>2
  <2>3. ASSUME NEW o \in Operator,
               \/ ErrandStep(o) \/ OperatorCrash(o)
               \/ \E j \in Signal : AckBegin(o, j) \/ RetryBegin(o, j)
        PROVE  ackReceipt \subseteq ackReceipt' /\ superseded \subseteq superseded'
    BY Zenon, <2>3 DEF ErrandStep, OperatorCrash, AckBegin, RetryBegin, AckReceipt, AckState,
       RetryInspect, RetryRelease, RetryState
  <2> QED BY <2>1, <2>2, <2>3 DEF DeliveryStep
<1>2. submitted[k] > 0 => submitted'[k] > 0
  <2>1. CASE StaysQuiet
    BY <2>1 DEF StaysQuiet
  <2>2. ASSUME NEW s \in Scanner, Refused(s) \/ Claim(s) \/ Conclude(s)
        PROVE  UNCHANGED submitted
    BY <2>2 DEF Refused, Claim, Conclude
  <2>3. ASSUME NEW o \in Operator, RetryRelease(o)
        PROVE  UNCHANGED submitted
    BY <2>3 DEF RetryRelease
  <2>4. ASSUME NEW s \in Scanner, Submit(s)
        PROVE  submitted[k] > 0 => submitted'[k] > 0
    <3>1. scanner[s].signal \in Signal
      BY <2>4 DEF Submit
    <3>2. PICK n \in {submitted[scanner[s].signal], submitted[scanner[s].signal] + 1} :
            submitted' = [submitted EXCEPT ![scanner[s].signal] = n]
      BY <2>4 DEF Submit
    <3>3. submitted[scanner[s].signal] \in Nat
      BY <3>1
    <3> QED BY <3>1, <3>2, <3>3
  <2> QED BY <2>1, <2>2, <2>3, <2>4, QuietSteps
<1> QED BY <1>1, <1>2

\* What a step does to the marks of the copies.
LEMMA MarksStep ==
  ASSUME DeliveryShape, AcceptedIsRight, SeenIsJustified, DeliveryStep
  PROVE  SeenIsJustified'
<1> USE DEF DeliveryShape
<1> HIDE DEF File
<1>q. ASSUME \A k \in file'.seen : Justified(k) \/ Justified(k)',
             \A s \in Scanner : \A k \in scanner'[s].file.seen : Justified(k) \/ Justified(k)',
             \A o \in Operator : \A k \in operator'[o].file.seen : Justified(k) \/ Justified(k)',
             \A o \in Operator : operator'[o].at = "ackWrite" => operator'[o].signal \in ackReceipt'
      PROVE  SeenIsJustified'
  BY <1>q, ReasonsStay DEF SeenIsJustified
<1>1. ASSUME NEW k \in Signal, Publish(k) \/ Supersede(k)
      PROVE  SeenIsJustified'
  BY <1>1, <1>q DEF Publish, Supersede, SeenIsJustified
<1>2. ASSUME NEW k \in Signal, BackoffEnds(k)
      PROVE  SeenIsJustified'
  <2> DEFINE scan(s) == [scanner[s] EXCEPT !.file = Elapsed(@, k)]
             errand(o) == [operator[o] EXCEPT !.file = Elapsed(@, k)]
  <2>1. file'.seen = file.seen
    BY <1>2, FileOperators DEF BackoffEnds
  <2>2. \A s \in Scanner : scanner'[s].file.seen = scanner[s].file.seen
    <3> SUFFICES ASSUME NEW s \in Scanner
                 PROVE  scanner'[s].file.seen = scanner[s].file.seen
      OBVIOUS
    <3>1. scanner[s] \in ScanRecords /\ scanner[s].file \in File
      BY DEF ScanRecords
    <3>2. Elapsed(scanner[s].file, k).seen = scanner[s].file.seen
      BY <3>1, FileOperators
    <3>3. scanner'[s] = scan(s)
      BY <1>2 DEF BackoffEnds
    <3> QED BY <3>1, <3>2, <3>3 DEF ScanRecords
  <2>3. \A o \in Operator : /\ operator'[o].file.seen = operator[o].file.seen
                           /\ operator'[o].at = operator[o].at
                           /\ operator'[o].signal = operator[o].signal
    <3> SUFFICES ASSUME NEW o \in Operator
                 PROVE  /\ operator'[o].file.seen = operator[o].file.seen
                        /\ operator'[o].at = operator[o].at
                        /\ operator'[o].signal = operator[o].signal
      OBVIOUS
    <3>1. operator[o] \in ErrandRecords /\ operator[o].file \in File
      BY DEF ErrandRecords
    <3>2. Elapsed(operator[o].file, k).seen = operator[o].file.seen
      BY <3>1, FileOperators
    <3>3. operator'[o] = errand(o)
      BY <1>2 DEF BackoffEnds
    <3> QED BY <3>1, <3>2, <3>3 DEF ErrandRecords
  <2>4. UNCHANGED ackReceipt
    BY <1>2 DEF BackoffEnds
  <2> QED BY <2>1, <2>2, <2>3, <2>4, <1>q DEF SeenIsJustified
<1>3. ASSUME NEW s \in Scanner, ScanStep(s) \/ ScannerCrash(s)
      PROVE  SeenIsJustified'
  <2> DEFINE k == scanner[s].signal
             f == scanner[s].file
  <2>0. scanner[s] \in ScanRecords /\ f \in File /\ (scanner[s].at \in Working => k \in Signal)
    BY DEF ScanRecords
  <2>q. ASSUME UNCHANGED operator, ackReceipt \subseteq ackReceipt',
               \A t \in Scanner : t # s => scanner'[t] = scanner[t],
               \A j \in scanner'[s].file.seen : Justified(j) \/ Justified(j)',
               file' \in {file, f}
        PROVE  SeenIsJustified'
    <3>1. \A j \in file'.seen : Justified(j)
      BY <2>q DEF SeenIsJustified
    <3>2. \A t \in Scanner : \A j \in scanner'[t].file.seen : Justified(j) \/ Justified(j)'
      BY <2>q DEF SeenIsJustified
    <3> QED BY <1>q, <2>q, <3>1, <3>2 DEF SeenIsJustified
  <2>1. CASE ScanBegin(s)
    <3>1. \A todo : [NoScan EXCEPT !.at = "scanning", !.file = file, !.todo = todo].file = file
      BY DEF NoScan
    <3>2. scanner'[s].file = file /\ UNCHANGED <<operator, ackReceipt, file>>
      BY <2>1, <3>1 DEF ScanBegin
    <3>3. \A t \in Scanner : t # s => scanner'[t] = scanner[t]
      BY <2>1 DEF ScanBegin
    <3> QED BY <3>2, <3>3, <2>q DEF SeenIsJustified
  <2>2. ASSUME NEW j \in Signal, ConsumeSuperseded(s, j)
        PROVE  SeenIsJustified'
    <3>1. /\ scanner'[s].file = Seen(f, j) /\ j \in superseded
          /\ UNCHANGED <<operator, ackReceipt, file>>
          /\ \A t \in Scanner : t # s => scanner'[t] = scanner[t]
      BY <2>2, <2>0 DEF ConsumeSuperseded, ScanRecords
    <3>2. Seen(f, j).seen = f.seen \cup {j}
      BY ONLY <2>0, <2>2, FileOperators
    <3> QED BY <3>1, <3>2, <2>q DEF SeenIsJustified, Justified
  <2>3. ASSUME UNCHANGED <<operator, ackReceipt, file>>,
               \A t \in Scanner : t # s => scanner'[t] = scanner[t],
               scanner'[s].file = f
        PROVE  SeenIsJustified'
    BY <2>3, <2>q DEF SeenIsJustified
  <2>4. ASSUME NEW j \in Signal, TakeUp(s, j)
        PROVE  SeenIsJustified'
    BY <2>4, <2>3, <2>0 DEF TakeUp, ScanRecords
  <2>5. ASSUME NEW g, Finish(s, g), UNCHANGED <<operator, ackReceipt, file>>,
               \A j \in g.seen : j \in f.seen \/ Justified(j)
        PROVE  SeenIsJustified'
    <3>1. scanner'[s].file = g /\ \A t \in Scanner : t # s => scanner'[t] = scanner[t]
      BY <2>5, <2>0 DEF ScanRecords
    <3> QED BY <2>5, <2>q, <3>1 DEF SeenIsJustified
  <2>6. CASE SuppressAcknowledged(s)
    <3>1. Finish(s, Seen(f, k)) /\ k \in ackReceipt /\ k \in Signal
          /\ UNCHANGED <<operator, ackReceipt, file>>
      BY <2>6, <2>0 DEF SuppressAcknowledged
    <3>2. Seen(f, k).seen = f.seen \cup {k}
      BY <3>1, <2>0, FileOperators
    <3> HIDE DEF Finish
    <3> QED BY <3>1, <3>2, <2>5 DEF Justified
  <2>7. CASE AlreadyWoken(s)
    <3>1. Finish(s, Seen(f, k)) /\ receipt[k] = "accepted" /\ k \in Signal
          /\ UNCHANGED <<operator, ackReceipt, file>>
      BY <2>7, <2>0 DEF AlreadyWoken
    <3>2. Seen(f, k).seen = f.seen \cup {k}
      BY <3>1, <2>0, FileOperators
    <3> HIDE DEF Finish
    <3> QED BY <3>1, <3>2, <2>5 DEF Justified, AcceptedIsRight
  <2>8. CASE StillAmbiguous(s)
    <3>1. Finish(s, Deferred(f, k, "manual")) /\ k \in Signal
          /\ UNCHANGED <<operator, ackReceipt, file>>
      BY <2>8, <2>0 DEF StillAmbiguous
    <3>2. Deferred(f, k, "manual").seen = f.seen
      BY <3>1, <2>0, DeferredMarksNothing
    <3> HIDE DEF Finish
    <3> QED BY <3>1, <3>2, <2>5
  <2>9. CASE Refused(s)
    <3>1. PICK reason \in {"guard", "failed", "manual"} : Finish(s, Deferred(f, k, reason))
      BY <2>9 DEF Refused
    <3>2. k \in Signal /\ UNCHANGED <<operator, ackReceipt, file>>
      BY <2>9, <2>0 DEF Refused
    <3>3. Deferred(f, k, reason).seen = f.seen
      BY <3>1, <3>2, <2>0, DeferredMarksNothing
    <3> HIDE DEF Finish
    <3> QED BY <3>1, <3>2, <3>3, <2>5
  <2>10. CASE Conclude(s)
    <3>1. /\ Finish(s, Concluded(f, k, scanner[s].result)) /\ scanner[s].at = "submitted"
          /\ k \in Signal /\ UNCHANGED <<operator, ackReceipt, file>>
      BY <2>10, <2>0 DEF Conclude
    <3>2. scanner[s].result \in {"accepted", "deferred", "ambiguous"}
      BY <3>1, <2>0 DEF ScanRecords
    <3>3. /\ Concluded(f, k, scanner[s].result).seen \subseteq f.seen \cup {k}
          /\ scanner[s].result # "accepted" => Concluded(f, k, scanner[s].result).seen = f.seen
      BY <3>1, <3>2, <2>0, ConcludedMarks
    <3>4. scanner[s].result = "accepted" => Justified(k)
      BY <3>1 DEF AcceptedIsRight, Justified
    <3> HIDE DEF Finish
    <3> QED BY <3>1, <3>3, <3>4, <2>5
  <2>11. CASE Unacknowledged(s) \/ Claim(s) \/ Submit(s)
    BY <2>11, <2>3, <2>0 DEF Unacknowledged, Claim, Submit, ScanRecords
  <2>12. CASE ScanRead(s)
    <3>1. Merge(f, file, scanner[s].done).seen = f.seen \cup file.seen
      BY <2>0, MergeOperator DEF ScanRecords
    <3>2. /\ scanner'[s].file = Merge(f, file, scanner[s].done)
          /\ UNCHANGED <<operator, ackReceipt, file>>
          /\ \A t \in Scanner : t # s => scanner'[t] = scanner[t]
      BY <2>12, <2>0 DEF ScanRead, ScanRecords
    <3> QED BY <3>1, <3>2, <2>q DEF SeenIsJustified
  <2>13. CASE ScanWrite(s) \/ ScannerCrash(s)
    <3>1. /\ scanner'[s].file.seen = {} /\ UNCHANGED <<operator, ackReceipt>> /\ file' \in {file, f}
          /\ \A t \in Scanner : t # s => scanner'[t] = scanner[t]
      BY <2>13, EmptyRecords DEF ScanWrite, ScannerCrash
    <3> QED BY <3>1, <2>q
  <2> QED
    BY <1>3, <2>1, <2>2, <2>4, <2>6, <2>7, <2>8, <2>9, <2>10, <2>11, <2>12, <2>13
    DEF ScanStep, Attempt
<1>4. ASSUME NEW o \in Operator,
             \/ ErrandStep(o) \/ OperatorCrash(o)
             \/ \E k \in Signal : AckBegin(o, k) \/ RetryBegin(o, k)
      PROVE  SeenIsJustified'
  <2> DEFINE k == operator[o].signal
             f == operator[o].file
  <2>0. operator[o] \in ErrandRecords /\ f \in File
    BY DEF ErrandRecords
  <2>q. ASSUME UNCHANGED scanner, ackReceipt \subseteq ackReceipt',
               \A p \in Operator : p # o => operator'[p] = operator[p],
               \A j \in operator'[o].file.seen : Justified(j) \/ Justified(j)',
               operator'[o].at = "ackWrite" => operator'[o].signal \in ackReceipt',
               file' \in {file, f}
        PROVE  SeenIsJustified'
    <3>1. \A j \in file'.seen : Justified(j)
      BY <2>q DEF SeenIsJustified
    <3>2. \A p \in Operator : \A j \in operator'[p].file.seen : Justified(j) \/ Justified(j)'
      BY <2>q DEF SeenIsJustified
    <3>3. \A p \in Operator : operator'[p].at = "ackWrite" => operator'[p].signal \in ackReceipt'
      BY <2>q DEF SeenIsJustified
    <3> QED BY <1>q, <2>q, <3>1, <3>2, <3>3 DEF SeenIsJustified
  <2>1. CASE AckReceipt(o)
    <3>1. /\ operator' = [operator EXCEPT ![o].at = "ackWrite", ![o].file = Acknowledged(file, k)]
          /\ k \in Signal /\ ackReceipt' = ackReceipt \cup {k} /\ UNCHANGED <<scanner, file>>
      BY <2>1 DEF AckReceipt
    <3>2. Acknowledged(file, k).seen = file.seen \cup {k}
      BY <3>1, FileOperators
    <3>3. operator'[o].file = Acknowledged(file, k) /\ operator'[o].signal = k
      BY <3>1, <2>0 DEF ErrandRecords
    <3>4. Justified(k)'
      BY <3>1 DEF Justified
    <3>5. \A j \in operator'[o].file.seen : Justified(j) \/ Justified(j)'
      BY <3>2, <3>3, <3>1 DEF Justified, SeenIsJustified
    <3>6. \A p \in Operator : p # o => operator'[p] = operator[p]
      BY <3>1
    <3> QED BY <3>1, <3>3, <3>5, <3>6, <2>q
  <2>2. CASE AckState(o) \/ RetryState(o) \/ OperatorCrash(o)
    <3>1. /\ operator' = [operator EXCEPT ![o] = NoErrand] /\ file' \in {file, f}
          /\ UNCHANGED <<scanner, ackReceipt>>
      BY <2>2 DEF AckState, RetryState, OperatorCrash
    <3>2. operator'[o].file.seen = {} /\ operator'[o].at = "idle"
      BY <3>1, EmptyRecords
    <3> QED BY <3>1, <3>2, <2>q
  <2>3. CASE RetryInspect(o) \/ RetryRelease(o)
    <3>1. /\ operator'[o].file = f /\ operator'[o].at # "ackWrite"
          /\ UNCHANGED <<scanner, ackReceipt, file>>
          /\ \A p \in Operator : p # o => operator'[p] = operator[p]
      BY <2>3, <2>0 DEF RetryInspect, RetryRelease, ErrandRecords
    <3> QED BY <3>1, <2>q DEF SeenIsJustified
  <2>4. ASSUME NEW j \in Signal, AckBegin(o, j)
        PROVE  SeenIsJustified'
    <3>1. [NoErrand EXCEPT !.at = "ackLocked", !.signal = j].file = EmptyFile
      BY DEF NoErrand
    <3>2. [NoErrand EXCEPT !.at = "ackLocked", !.signal = j].at = "ackLocked"
      BY DEF NoErrand
    <3>3. /\ operator'[o].file = EmptyFile /\ operator'[o].at = "ackLocked"
          /\ UNCHANGED <<scanner, ackReceipt, file>>
          /\ \A p \in Operator : p # o => operator'[p] = operator[p]
      BY <2>4, <3>1, <3>2 DEF AckBegin
    <3> QED BY <3>3, <2>q, EmptyRecords
  <2>5. ASSUME NEW j \in Signal, RetryBegin(o, j)
        PROVE  SeenIsJustified'
    <3> DEFINE r == [NoErrand EXCEPT !.at = "retryRead", !.signal = j, !.file = Rearmed(file, j)]
    <3>1. r.file = Rearmed(file, j) /\ r.at = "retryRead"
      BY DEF NoErrand
    <3>2. operator' = [operator EXCEPT ![o] = r] /\ UNCHANGED <<scanner, ackReceipt, file>>
      BY <2>5 DEF RetryBegin
    <3>3. Rearmed(file, j).seen = file.seen
      BY FileOperators
    <3> HIDE DEF r
    <3> QED BY <3>1, <3>2, <3>3, <2>q DEF SeenIsJustified
  <2> QED BY <1>4, <2>1, <2>2, <2>3, <2>4, <2>5 DEF ErrandStep
<1> QED BY <1>1, <1>2, <1>3, <1>4 DEF DeliveryStep

\* The delivery lock keeps acknowledgement and delivery of a signal apart.
LEMMA OpenStep ==
  ASSUME DeliveryShape, DeliveringIsOpen, DeliveryStep
  PROVE  /\ DeliveringIsOpen'
         /\ \A k \in ackReceipt : receipt'[k] = "claimed" => receipt[k] = "claimed"
<1> USE DEF DeliveryShape, DeliveringIsOpen
<1> HIDE DEF File
<1> DEFINE Goal == /\ DeliveringIsOpen'
                   /\ \A k \in ackReceipt : receipt'[k] = "claimed" => receipt[k] = "claimed"
<1>q. ASSUME UNCHANGED <<ackReceipt, receipt>>,
             \A s \in Scanner : scanner'[s].at = "delivering" =>
               scanner[s].at = "delivering" /\ scanner'[s].signal = scanner[s].signal
      PROVE  Goal
  BY <1>q
<1>1. ASSUME NEW k \in Signal, Publish(k) \/ Supersede(k) \/ BackoffEnds(k)
      PROVE  Goal
  <2>1. \A s \in Scanner : [scanner[s] EXCEPT !.file = Elapsed(@, k)].at = scanner[s].at
                        /\ [scanner[s] EXCEPT !.file = Elapsed(@, k)].signal = scanner[s].signal
    OBVIOUS
  <2> QED BY <1>1, <1>q, <2>1 DEF Publish, Supersede, BackoffEnds
<1>2. ASSUME NEW s \in Scanner, ScanStep(s) \/ ScannerCrash(s)
      PROVE  Goal
  <2> DEFINE k == scanner[s].signal
             Leaves == /\ \A t \in Scanner : t # s => scanner'[t] = scanner[t]
                       /\ scanner'[s].at # "delivering"
  <2>0. scanner[s] \in ScanRecords
    BY DEF ScanRecords
  <2>1. ASSUME UNCHANGED ackReceipt, \A t \in Scanner : t # s => scanner'[t] = scanner[t],
               scanner'[s].at = "delivering" => scanner'[s].signal \notin ackReceipt,
               \A j \in ackReceipt : receipt'[j] = "claimed" => receipt[j] = "claimed"
        PROVE  Goal
    BY <2>1
  <2>2. CASE ScanBegin(s)
    <3>1. \A todo : [NoScan EXCEPT !.at = "scanning", !.file = file, !.todo = todo].at = "scanning"
      BY DEF NoScan
    <3>2. UNCHANGED <<ackReceipt, receipt>> /\ Leaves
      BY <2>2, <3>1 DEF ScanBegin
    <3> QED BY <3>2, <2>1
  <2>3. ASSUME NEW j \in Signal, ConsumeSuperseded(s, j) \/ TakeUp(s, j)
        PROVE  Goal
    <3>1. UNCHANGED <<ackReceipt, receipt>> /\ Leaves
      BY <2>3 DEF ConsumeSuperseded, TakeUp
    <3> QED BY <3>1, <2>1
  <2>4. ASSUME NEW f, Finish(s, f), UNCHANGED ackReceipt,
               \A j \in ackReceipt : receipt'[j] = "claimed" => receipt[j] = "claimed"
        PROVE  Goal
    <3>1. Leaves
      BY <2>4
    <3> QED BY <2>4, <3>1, <2>1
  <2>5. CASE SuppressAcknowledged(s) \/ AlreadyWoken(s) \/ StillAmbiguous(s)
    <3> HIDE DEF Finish
    <3> QED BY <2>5, <2>4 DEF SuppressAcknowledged, AlreadyWoken, StillAmbiguous
  <2>6. CASE Refused(s)
    <3>1. PICK reason \in {"guard", "failed", "manual"} : Finish(s, Deferred(scanner[s].file, k, reason))
      BY <2>6 DEF Refused
    <3>2. /\ receipt' = [receipt EXCEPT ![k] = "deferred"] \/ UNCHANGED receipt
          /\ UNCHANGED ackReceipt
      BY <2>6 DEF Refused
    <3> HIDE DEF Finish
    <3> QED BY <3>1, <3>2, <2>4
  <2>7. CASE Conclude(s)
    <3>1. /\ Finish(s, Concluded(scanner[s].file, k, scanner[s].result))
          /\ receipt' = [receipt EXCEPT ![k] = scanner[s].result] /\ UNCHANGED ackReceipt
          /\ scanner[s].result # "claimed"
      BY <2>7, <2>0 DEF Conclude, ScanRecords
    <3> HIDE DEF Finish
    <3> QED BY <3>1, <2>4
  <2>8. CASE Unacknowledged(s)
    <3>1. /\ UNCHANGED <<ackReceipt, receipt>> /\ k \notin ackReceipt
          /\ scanner'[s].signal = k /\ \A t \in Scanner : t # s => scanner'[t] = scanner[t]
      BY <2>8, <2>0 DEF Unacknowledged, ScanRecords
    <3> QED BY <3>1, <2>1
  <2>9. CASE Claim(s)
    <3>1. /\ receipt' = [receipt EXCEPT ![k] = "claimed"] /\ UNCHANGED ackReceipt
          /\ k \notin ackReceipt /\ Leaves
      BY <2>9 DEF Claim
    <3> QED BY <3>1, <2>1
  <2>10. CASE Submit(s)
    <3>1. PICK r \in Results :
            scanner' = [scanner EXCEPT ![s].at = "submitted", ![s].result = r.answer]
      BY Zenon, <2>10 DEF Submit
    <3>2. UNCHANGED <<ackReceipt, receipt>>
      BY <2>10 DEF Submit
    <3>3. Leaves
      BY <3>1
    <3> QED BY <3>2, <3>3, <2>1
  <2>11. CASE ScanRead(s)
    <3>1. UNCHANGED <<ackReceipt, receipt>> /\ Leaves
      BY <2>11 DEF ScanRead
    <3> QED BY <3>1, <2>1
  <2>12. CASE ScanWrite(s) \/ ScannerCrash(s)
    <3>1. UNCHANGED <<ackReceipt, receipt>> /\ Leaves
      BY <2>12, EmptyRecords DEF ScanWrite, ScannerCrash
    <3> QED BY <3>1, <2>1
  <2> HIDE DEF Goal
  <2> QED
    BY <1>2, <2>2, <2>3, <2>5, <2>6, <2>7, <2>8, <2>9, <2>10, <2>11, <2>12 DEF ScanStep, Attempt
<1>3. ASSUME NEW o \in Operator,
             \/ ErrandStep(o) \/ OperatorCrash(o)
             \/ \E k \in Signal : AckBegin(o, k) \/ RetryBegin(o, k)
      PROVE  Goal
  <2>1. CASE AckReceipt(o)
    BY <2>1, ActorAssumption DEF AckReceipt
  <2>2. CASE RetryRelease(o)
    BY <2>2 DEF RetryRelease
  <2>3. CASE ~AckReceipt(o) /\ ~RetryRelease(o)
    <3>1. UNCHANGED <<ackReceipt, receipt, scanner>>
      BY Zenon, <1>3, <2>3 DEF ErrandStep, OperatorCrash, AckBegin, RetryBegin, AckState, RetryInspect, RetryState
    <3> QED BY <3>1
  <2> QED BY <2>1, <2>2, <2>3
<1> QED BY <1>1, <1>2, <1>3 DEF DeliveryStep

-----------------------------------------------------------------------------
ServiceStep ==
  \/ \E c \in Command : CommandStep(c) \/ Order(c) \/ StopRefuses(c) \/ CommandDies(c)
  \/ \E n \in Process : Beat(n) \/ Dies(n) \/ WatcherFails(n) \/ StrangerEnds(n)
  \/ HeartbeatAges \/ PidReused

\* The steps of the service leave delivery alone and those of delivery the service.
LEMMA TwoHalves ==
  ASSUME Next
  PROVE  \/ ServiceStep /\ UNCHANGED <<play, delivery>>
         \/ DeliveryStep /\ UNCHANGED host
<1> USE DEF Serviced
<1>1. ASSUME ServiceStep
      PROVE  UNCHANGED <<play, delivery>>
  <2>1. ASSUME NEW c \in Command, CommandStep(c) \/ Order(c) \/ StopRefuses(c) \/ CommandDies(c)
        PROVE  UNCHANGED <<play, delivery>>
    BY <2>1 DEF CommandStep, Order, StopRefuses, CommandDies, EnsureReads, EnsureJudges,
       LockService, RefuseStart, StartStops, SpawnService, Spawns, RecordService, AbandonStart,
       StopFindsGone, StopTerminates, StopKills, StopConcludes
  <2>2. ASSUME NEW n \in Process, Beat(n) \/ Dies(n) \/ WatcherFails(n) \/ StrangerEnds(n)
        PROVE  UNCHANGED <<play, delivery>>
    BY <2>2 DEF Beat, Dies, WatcherFails, StrangerEnds
  <2>3. CASE HeartbeatAges \/ PidReused
    BY <2>3 DEF HeartbeatAges, PidReused
  <2> QED BY <1>1, <2>1, <2>2, <2>3 DEF ServiceStep
<1>2. ASSUME DeliveryStep
      PROVE  UNCHANGED host
  <2> HIDE DEF DeliveryTypeOK, HoldsLock, Finish, FreeDelivery, Crash, FreeState, host
  <2>1. ASSUME NEW j \in Signal, Publish(j) \/ Supersede(j) \/ BackoffEnds(j)
        PROVE  UNCHANGED host
    BY <2>1 DEF Publish, Supersede, BackoffEnds
  <2>2. ASSUME NEW s \in Scanner, ScanStep(s) \/ ScannerCrash(s)
        PROVE  UNCHANGED host
    <3>1. CASE Attempt(s)
      BY <3>1 DEF Attempt, SuppressAcknowledged, Unacknowledged, AlreadyWoken, StillAmbiguous,
         Refused, Claim, Submit, Conclude
    <3>2. CASE ~Attempt(s)
      BY Zenon, <2>2, <3>2 DEF ScanStep, ScannerCrash, ScanBegin, ConsumeSuperseded, TakeUp, ScanRead,
         ScanWrite
    <3> QED BY <3>1, <3>2
  <2>3. ASSUME NEW o \in Operator,
               \/ ErrandStep(o) \/ OperatorCrash(o)
               \/ \E j \in Signal : AckBegin(o, j) \/ RetryBegin(o, j)
        PROVE  UNCHANGED host
    BY Zenon, <2>3 DEF ErrandStep, OperatorCrash, AckBegin, RetryBegin, AckReceipt, AckState,
       RetryInspect, RetryRelease, RetryState
  <2> QED BY <1>2, <2>1, <2>2, <2>3 DEF DeliveryStep
<1>3. ServiceStep \/ DeliveryStep
  BY DEF Next, ServiceStep, DeliveryStep
<1> QED BY <1>1, <1>2, <1>3

-----------------------------------------------------------------------------
(***************************************************************************)
(* The service                                                             *)
(***************************************************************************)
Managing == {"starting", "spawning", "recording", "stopping", "waiting", "killed"}

\* Whoever changes the record or signals a process holds the lock of the service file.
ServiceShape ==
  /\ ServiceTypeOK
  /\ \A c \in Command : command[c].at \in Managing => serviceLock = c
  /\ \A c \in Command : command[c].at \in {"stopping", "waiting", "killed"} =>
       command[c].errand \in {"stop", "restart", "replace"}

PidsDistinct ==
  \A m, n \in Process :
    process[m].alive /\ process[n].alive /\ process[m].pid = process[n].pid => m = n

IsLoose(p) == p.alive /\ p.kind = "watcher" /\ p.sent = "none" /\ ~p.orphan
IsDown(p) == ~p.alive \/ p.sent = "kill"
Loose(n) == IsLoose(process[n])
Down(n) == IsDown(process[n])

\* The record is of a watcher of this host, dead or alive.
RecordFits ==
  /\ record.process # 0 => process[record.process].kind # "stranger"
  /\ record.status = "stopped" => record.process # 0 /\ Down(record.process)

\* A command spawns only when the recorded watcher is on its way out.
CommandsFit ==
  \A c \in Command :
    /\ command[c].at = "recording" =>
         command[c].child \in Process /\ process[command[c].child].kind # "stranger"
    /\ command[c].at \in {"spawning", "recording"} =>
         record.process = 0 \/ ~Loose(record.process)
    /\ command[c].at = "killed" => record.process # 0 /\ Down(record.process)

\* A watcher that nobody told to go is the recorded one or about to be.
LooseKnown ==
  \A n \in Process : Loose(n) =>
    n = record.process \/ \E c \in Command : command[c].at = "recording" /\ command[c].child = n

ServiceInv ==
  ServiceShape /\ PidsDistinct /\ StrangersUnharmed /\ RecordFits /\ CommandsFit /\ LooseKnown

USE DEF ServiceTypeOK, ServiceRecords, ProcessRecords, CommandRecords, Process, CommandAt, MoveTo,
        Unlock, End, Mishap, Managing

\* The empty records of the service are records.
LEMMA EmptyServiceRecords ==
  /\ Nobody \in ProcessRecords /\ ~Nobody.alive /\ Nobody.kind = "none" /\ Nobody.sent = "none"
  /\ NoRecord \in ServiceRecords /\ NoRecord.process = 0 /\ NoRecord.status = "none"
  /\ NoCommand \in CommandRecords /\ NoCommand.at = "idle"
  /\ \A pid \in {0} \cup Process :
       /\ [Nobody EXCEPT !.pid = pid] \in ProcessRecords /\ ~[Nobody EXCEPT !.pid = pid].alive
       /\ [Nobody EXCEPT !.pid = pid].kind = "none" /\ [Nobody EXCEPT !.pid = pid].sent = "none"
       /\ [Nobody EXCEPT !.pid = pid].pid = pid
       /\ Watcher(pid) \in ProcessRecords /\ Watcher(pid).kind = "watcher"
       /\ Watcher(pid).pid = pid /\ Watcher(pid).sent = "none"
       /\ Stranger(pid) \in ProcessRecords /\ Stranger(pid).kind = "stranger"
       /\ Stranger(pid).pid = pid /\ Stranger(pid).sent = "none"
BY Zenon, ServiceBoundAssumption DEF Nobody, NoRecord, NoCommand, Watcher, Stranger

\* What happens to a process leaves it a process.
LEMMA ProcessChanges ==
  ASSUME NEW p \in ProcessRecords, NEW sent \in {"none", "term", "kill"}, NEW flag \in BOOLEAN
  PROVE  /\ [p EXCEPT !.sent = sent] \in ProcessRecords
         /\ [p EXCEPT !.orphan = flag] \in ProcessRecords
         /\ [p EXCEPT !.hung = flag] \in ProcessRecords
OBVIOUS

\* A number that is free belongs to nobody and nobody refers to it; the pid a new process
\* gets belongs to no live process.
LEMMA NumbersAndPids ==
  ASSUME ServiceShape, NumberLeft
  PROVE  /\ NewNumber \in Process /\ Unused(NewNumber)
         /\ \A pid \in FreshPids : pid \in {0} \cup Process /\ ~PidTaken(pid)
         /\ record.process # 0 /\ ~RecordTaken =>
              /\ process[record.process].pid \in {0} \cup Process
              /\ ~PidTaken(process[record.process].pid)
<1>1. NewNumber \in Process /\ Unused(NewNumber)
  <2> HIDE DEF Process
  <2> QED BY Zenon DEF NewNumber, NumberLeft
<1>2. record.process # 0 => process[record.process].pid \in {0} \cup Process
  BY DEF ServiceShape
<1>3. ~PidTaken(NewNumber)
  BY <1>1 DEF Unused
<1>4. record.process # 0 /\ ~RecordTaken => ~PidTaken(process[record.process].pid)
  BY DEF RecordTaken
<1> HIDE DEF Process
<1> QED BY <1>1, <1>2, <1>3, <1>4 DEF FreshPids

\* No step leaves the types, and only the holder of the lock of the service file does what
\* needs it.
LEMMA ServiceShapeStep ==
  ASSUME ServiceShape, ServiceStep
  PROVE  ServiceShape'
<1> USE CommandAssumption DEF ServiceShape
<1>c. ASSUME NEW c \in Command, NEW r \in CommandRecords,
             command' = [command EXCEPT ![c] = r],
             r.at \in Managing => serviceLock' = c,
             r.at \in {"stopping", "waiting", "killed"} => r.errand \in {"stop", "restart", "replace"},
             serviceLock' \in {"free"} \cup Command,
             serviceLock' = serviceLock \/ serviceLock = c \/ serviceLock = "free",
             record' \in ServiceRecords, process' \in [Process -> ProcessRecords],
             UNCHANGED heartbeat
      PROVE  ServiceShape'
  <2> HIDE DEF ServiceRecords, ProcessRecords, CommandRecords, Process
  <2> QED BY <1>c
<1>1. ASSUME NEW c \in Command, CommandStep(c) \/ Order(c) \/ StopRefuses(c) \/ CommandDies(c)
      PROVE  ServiceShape'
  <2>0. command[c] \in CommandRecords
    OBVIOUS
  <2>n. NoCommand \in CommandRecords /\ NoCommand.at = "idle"
    BY EmptyServiceRecords
  <2>m. ASSUME NEW place \in {"starting", "spawning", "stopping", "waiting", "killed"},
               command' = [command EXCEPT ![c].at = place],
               serviceLock' = c, serviceLock \in {c, "free"},
               place \in {"stopping", "waiting", "killed"} =>
                 command[c].errand \in {"stop", "restart", "replace"},
               record' \in ServiceRecords, process' \in [Process -> ProcessRecords],
               UNCHANGED heartbeat
        PROVE  ServiceShape'
    <3> DEFINE r == [command[c] EXCEPT !.at = place]
    <3>1. r \in CommandRecords /\ r.at = place /\ r.errand = command[c].errand
      BY <2>0
    <3>2. command' = [command EXCEPT ![c] = r]
      BY <2>m
    <3> HIDE DEF r
    <3> QED BY <3>1, <3>2, <2>m, <1>c
  <2>e. ASSUME End(c), record' \in ServiceRecords, process' \in [Process -> ProcessRecords],
               UNCHANGED heartbeat
        PROVE  ServiceShape'
    BY <2>e, <2>n, <1>c
  <2>p. process \in [Process -> ProcessRecords] /\ record \in ServiceRecords
    OBVIOUS
  <2>1. CASE EnsureReads(c)
    <3> DEFINE r == [NoCommand EXCEPT !.at = "judging", !.errand = "ensure", !.read = record,
                                      !.healthy = Healthy(record)]
    <3>1. r \in CommandRecords /\ r.at = "judging"
      <4>1. Healthy(record) \in BOOLEAN
        BY DEF Healthy
      <4>2. NoCommand \in CommandRecords /\ record \in ServiceRecords
        BY <2>n
      <4> HIDE DEF ServiceRecords
      <4> QED BY ONLY <4>1, <4>2
    <3>2. /\ command' = [command EXCEPT ![c] = r]
          /\ UNCHANGED <<record, heartbeat, process, serviceLock>>
      BY <2>1 DEF EnsureReads
    <3> HIDE DEF r
    <3> QED BY <3>1, <3>2, <1>c, <2>p
  <2>2. CASE EnsureJudges(c)
    <3>1. PICK r \in {[NoCommand EXCEPT !.at = "locking", !.errand = "ensure"], NoCommand} :
            /\ command' = [command EXCEPT ![c] = r]
            /\ UNCHANGED <<record, heartbeat, process, serviceLock>>
      BY <2>2 DEF EnsureJudges
    <3>2. r \in CommandRecords /\ r.at \in {"locking", "idle"}
      <4>1. [NoCommand EXCEPT !.at = "locking", !.errand = "ensure"] \in CommandRecords
        BY ONLY <2>n
      <4>2. [NoCommand EXCEPT !.at = "locking", !.errand = "ensure"].at = "locking"
        BY ONLY <2>n
      <4>3. NoCommand \in CommandRecords /\ NoCommand.at = "idle"
        BY <2>n
      <4> HIDE DEF CommandRecords
      <4> QED BY ONLY <4>1, <4>2, <4>3, r \in {[NoCommand EXCEPT !.at = "locking", !.errand = "ensure"], NoCommand}
    <3> QED BY <3>1, <3>2, <1>c, <2>p
  <2>3. CASE Order(c)
    <3>1. PICK errand \in {"start", "replace", "stop", "restart"} :
            /\ command' = [command EXCEPT ![c] = [NoCommand EXCEPT !.at = "locking",
                                                                   !.errand = errand]]
            /\ UNCHANGED <<record, heartbeat, process, serviceLock>>
      BY <2>3 DEF Order
    <3>2. [NoCommand EXCEPT !.at = "locking", !.errand = errand] \in CommandRecords
      BY ONLY <2>n
    <3>3. [NoCommand EXCEPT !.at = "locking", !.errand = errand].at = "locking"
      BY ONLY <2>n
    <3> QED BY <3>1, <3>2, <3>3, <1>c, <2>p
  <2>4. CASE LockService(c)
    BY <2>4, <2>m, <2>p DEF LockService
  <2>5. CASE RefuseStart(c) \/ StopRefuses(c)
    BY <2>5, <2>e, <2>p DEF RefuseStart, StopRefuses
  <2>6. CASE StartStops(c)
    BY <2>6, <2>m, <2>p DEF StartStops
  <2>7. CASE SpawnService(c)
    <3>1. PICK pid \in FreshPids : process' = [process EXCEPT ![NewNumber] = Watcher(pid)]
      BY <2>7 DEF SpawnService, Spawns
    <3>2. pid \in {0} \cup Process /\ NewNumber \in Process
      BY <2>7, <3>1, NumbersAndPids DEF SpawnService, Spawns
    <3>3. process' \in [Process -> ProcessRecords]
      <4> HIDE DEF ProcessRecords, Process
      <4>1. Watcher(pid) \in ProcessRecords
        BY <3>2, EmptyServiceRecords
      <4> QED BY <3>1, <3>2, <4>1
    <3> DEFINE r == [command[c] EXCEPT !.at = "recording", !.child = NewNumber]
    <3>4. r \in CommandRecords /\ r.at = "recording"
      BY <2>0, <3>2
    <3>5. command' = [command EXCEPT ![c] = r] /\ UNCHANGED <<record, heartbeat, serviceLock>>
      <4>1. /\ command' = [command EXCEPT ![c].at = "recording", ![c].child = NewNumber]
            /\ UNCHANGED <<record, heartbeat, serviceLock>>
        BY <2>7, Zenon DEF SpawnService, Spawns
      <4>2. command \in [Command -> CommandRecords]
        OBVIOUS
      <4> QED BY ONLY <4>1, <4>2
    <3>6. serviceLock = c
      BY <2>7 DEF SpawnService
    <3> HIDE DEF r
    <3> QED BY <3>3, <3>4, <3>5, <3>6, <1>c, <2>p
  <2>8. CASE RecordService(c)
    BY <2>8, <2>e, <2>p DEF RecordService
  <2>9. CASE AbandonStart(c) \/ CommandDies(c)
    <3>1. process' \in [Process -> ProcessRecords]
      <4>1. \/ process' = process
            \/ process' = [process EXCEPT ![command[c].child].sent = "kill"]
            \/ process' = [process EXCEPT ![command[c].child].orphan = TRUE]
        BY <2>9 DEF AbandonStart, CommandDies
      <4>2. \A n \in Process : /\ [process[n] EXCEPT !.sent = "kill"] \in ProcessRecords
                              /\ [process[n] EXCEPT !.orphan = TRUE] \in ProcessRecords
        <5> SUFFICES ASSUME NEW n \in Process
                     PROVE  /\ [process[n] EXCEPT !.sent = "kill"] \in ProcessRecords
                            /\ [process[n] EXCEPT !.orphan = TRUE] \in ProcessRecords
          OBVIOUS
        <5>1. process[n] \in ProcessRecords
          BY <2>p
        <5> HIDE DEF ProcessRecords
        <5> QED BY ONLY <5>1, ProcessChanges
      <4> HIDE DEF ProcessRecords, Process
      <4> QED BY <4>1, <4>2, <2>p
    <3>2. End(c) /\ UNCHANGED <<record, heartbeat>>
      BY <2>9 DEF AbandonStart, CommandDies
    <3> HIDE DEF End
    <3> QED BY <3>1, <3>2, <2>e, <2>p
  <2>a. ASSUME AfterStop(c), serviceLock = c, UNCHANGED <<heartbeat, process>>,
               record' \in ServiceRecords,
               command[c].errand \in {"stop", "restart", "replace"}
        PROVE  ServiceShape'
    <3>1. CASE command[c].errand = "stop"
      BY <3>1, <2>a, <2>e, <2>p DEF AfterStop
    <3>2. CASE command[c].errand = "restart"
      <4> DEFINE r == [command[c] EXCEPT !.at = "starting", !.errand = "replace"]
      <4>1. r \in CommandRecords /\ r.at = "starting"
        BY <2>0
      <4>2. command' = [command EXCEPT ![c] = r] /\ UNCHANGED serviceLock
        BY <3>2, <2>a DEF AfterStop
      <4> HIDE DEF r
      <4> QED BY <4>1, <4>2, <2>a, <1>c, <2>p
    <3>3. CASE command[c].errand = "replace"
      BY <3>3, <2>a, <2>m, <2>p DEF AfterStop
    <3> QED BY <2>a, <3>1, <3>2, <3>3
  <2>10. CASE StopFindsGone(c) \/ StopConcludes(c)
    <3>1. NotedStopped \in ServiceRecords
      BY DEF NotedStopped
    <3> HIDE DEF AfterStop, NotedStopped
    <3> QED BY <2>10, <2>a, <3>1 DEF StopFindsGone, StopConcludes
  <2>11. CASE StopTerminates(c) \/ StopKills(c)
    <3>1. process' \in [Process -> ProcessRecords]
      <4>1. PICK sent \in {"term", "kill"} : Sends(sent)
        BY <2>11 DEF StopTerminates, StopKills
      <4>2. \A n \in Process : [process[n] EXCEPT !.sent = sent] \in ProcessRecords
        <5>1. \A n \in Process : process[n] \in ProcessRecords
          BY <2>p
        <5> HIDE DEF ProcessRecords
        <5> QED BY ONLY <4>1, <5>1, ProcessChanges
      <4> HIDE DEF ProcessRecords, Process
      <4> QED BY <4>1, <4>2, <2>p DEF Sends
    <3>2. /\ command' = [command EXCEPT ![c].at = "waiting"] \/ command' = [command EXCEPT ![c].at = "killed"]
          /\ command[c].at \in {"stopping", "waiting"} /\ UNCHANGED <<record, heartbeat, serviceLock>>
      BY <2>11 DEF StopTerminates, StopKills
    <3> HIDE DEF ProcessRecords, ServiceRecords, CommandRecords, Process
    <3> QED BY <3>1, <3>2, <2>m, <2>p
  <2> QED
    BY <1>1, <2>1, <2>2, <2>3, <2>4, <2>5, <2>6, <2>7, <2>8, <2>9, <2>10, <2>11 DEF CommandStep
<1>2. ASSUME NEW n \in Process, Beat(n) \/ Dies(n) \/ WatcherFails(n) \/ StrangerEnds(n)
      PROVE  ServiceShape'
  <2>1. process[n].pid \in {0} \cup Process
    OBVIOUS
  <2>2. CASE Beat(n)
    BY <2>1, <2>2 DEF Beat
  <2>3. CASE Dies(n) \/ WatcherFails(n) \/ StrangerEnds(n)
    <3>1. Ends(n) \/ process' = [process EXCEPT ![n].hung = TRUE]
      BY <2>3 DEF Dies, WatcherFails, StrangerEnds
    <3>2. UNCHANGED <<record, heartbeat, command, serviceLock>>
      BY <2>3 DEF Dies, WatcherFails, StrangerEnds
    <3>3. process' \in [Process -> ProcessRecords]
      <4>1. process \in [Process -> ProcessRecords]
        OBVIOUS
      <4>2. /\ [process[n] EXCEPT !.hung = TRUE] \in ProcessRecords
            /\ [Nobody EXCEPT !.pid = process[n].pid] \in ProcessRecords
        <5>1. process[n] \in ProcessRecords
          BY <4>1
        <5>2. [process[n] EXCEPT !.hung = TRUE] \in ProcessRecords
          BY ONLY <5>1, ProcessChanges
        <5>3. [Nobody EXCEPT !.pid = process[n].pid] \in ProcessRecords
          <6> HIDE DEF ProcessRecords, Process
          <6> QED BY ONLY <2>1, EmptyServiceRecords
        <5> QED BY <5>2, <5>3
      <4> HIDE DEF ProcessRecords, Process
      <4> QED BY ONLY <4>1, <4>2, <3>1 DEF Ends
    <3> HIDE <2>3
    <3> QED BY <3>2, <3>3
  <2> QED BY <1>2, <2>2, <2>3
<1>3. CASE HeartbeatAges
  BY <1>3 DEF HeartbeatAges
<1>4. CASE PidReused
  <2>1. NewNumber \in Process /\ process[record.process].pid \in {0} \cup Process
    BY <1>4, NumbersAndPids DEF PidReused
  <2>2. process' = [process EXCEPT ![NewNumber] = Stranger(process[record.process].pid)]
    BY <1>4 DEF PidReused
  <2>3. process' \in [Process -> ProcessRecords]
    <3> HIDE DEF ProcessRecords, Process
    <3>1. Stranger(process[record.process].pid) \in ProcessRecords
      BY <2>1, EmptyServiceRecords
    <3> QED BY <2>1, <2>2, <3>1
  <2> QED BY <1>4, <2>3 DEF PidReused
<1> QED BY <1>1, <1>2, <1>3, <1>4 DEF ServiceStep

\* A process only goes on or ends: no KILL is taken back, and a watcher that was told to go
\* stays so; no program that got a former pid is told anything.
Ages(n) ==
  /\ process'[n].pid = process[n].pid
  /\ process'[n].kind \in {process[n].kind, "none"}
  /\ process'[n].kind = "stranger" => process'[n].sent = process[n].sent
  /\ process'[n].alive => /\ process[n].alive
                          /\ process[n].orphan => process'[n].orphan
                          /\ process[n].sent = "kill" => process'[n].sent = "kill"
                          /\ process[n].sent # "none" => process'[n].sent # "none"

\* What follows when all processes only go on or end.
LEMMA AgingKeepsService ==
  ASSUME ServiceInv, ServiceShape', \A n \in Process : Ages(n),
         record'.process = record.process,
         record'.status = "stopped" =>
           \/ record.status = "stopped"
           \/ record.process # 0 /\ (Down(record.process) \/ IsDown(process'[record.process])),
         \A c \in Command :
           /\ command'[c].at = "recording" =>
                command[c].at = "recording" /\ command'[c].child = command[c].child
           /\ command'[c].at = "spawning" =>
                command[c].at = "spawning" \/ record.process = 0 \/ ~Loose(record.process)
           /\ command'[c].at = "killed" =>
                command[c].at = "killed" \/ (record.process # 0 /\ IsDown(process'[record.process])),
         \A c \in Command : command[c].at = "recording" =>
           command'[c].at = "recording" \/ ~IsLoose(process'[command[c].child])
  PROVE  ServiceInv'
<1> USE DEF ServiceInv
<1> HIDE DEF ProcessRecords, ServiceTypeOK, Process
<1>0. record.process # 0 => record.process \in Process
  BY DEF ServiceShape, ServiceTypeOK
<1>1. PidsDistinct'
  BY DEF PidsDistinct, Ages
<1>2. StrangersUnharmed'
  BY DEF StrangersUnharmed, Ages
<1>3. \A n \in Process : /\ Loose(n)' => Loose(n)
                         /\ Down(n) => Down(n)'
                         /\ process[n].kind # "stranger" => process'[n].kind # "stranger"
  <2> SUFFICES ASSUME NEW n \in Process
               PROVE  /\ Loose(n)' => Loose(n)
                      /\ Down(n) => Down(n)'
                      /\ process[n].kind # "stranger" => process'[n].kind # "stranger"
    OBVIOUS
  <2>1. process[n].sent \in {"none", "term", "kill"} /\ process[n].orphan \in BOOLEAN
        /\ process'[n].sent \in {"none", "term", "kill"}
    BY DEF ServiceShape, ServiceTypeOK, ProcessRecords
  <2> QED BY <2>1 DEF Ages, Loose, Down, IsLoose, IsDown
<1>r. record.process # 0 => (IsLoose(process'[record'.process]) => Loose(record.process))
  BY <1>0, <1>3 DEF Loose
<1>d. record.process # 0 => (Down(record.process) => IsDown(process'[record'.process]))
  BY <1>0, <1>3 DEF Down
<1>e. IsDown(process'[record.process]) => IsDown(process'[record'.process])
  OBVIOUS
<1>k. RecordFits'
  BY <1>0, <1>3, <1>d, <1>e DEF RecordFits, Down
<1>4. CommandsFit'
  <2> SUFFICES ASSUME NEW c \in Command
               PROVE  /\ command'[c].at = "recording" =>
                            /\ command'[c].child \in Process
                            /\ process'[command'[c].child].kind # "stranger"
                      /\ command'[c].at \in {"spawning", "recording"} =>
                            record'.process = 0 \/ ~IsLoose(process'[record'.process])
                      /\ command'[c].at = "killed" => record'.process # 0 /\ IsDown(process'[record'.process])
    BY DEF CommandsFit, Loose, Down
  <2>1. /\ record.process # 0 => (~Loose(record.process) => ~IsLoose(process'[record'.process]))
        /\ record.process # 0 /\ Down(record.process) => IsDown(process'[record'.process])
    BY <1>r, <1>d
  <2> QED BY <1>0, <1>3, <2>1 DEF CommandsFit
<1>5. LooseKnown'
  <2> SUFFICES ASSUME NEW n \in Process, Loose(n)'
               PROVE  \/ n = record'.process
                      \/ \E c \in Command : command'[c].at = "recording" /\ command'[c].child = n
    BY DEF LooseKnown
  <2>1. Loose(n)
    BY <1>3
  <2>2. CASE n = record.process
    BY <2>2
  <2>3. ASSUME NEW c \in Command, command[c].at = "recording", command[c].child = n
        PROVE  command'[c].at = "recording" /\ command'[c].child = n
    BY <2>3 DEF Loose
  <2> QED BY <2>1, <2>2, <2>3 DEF LooseKnown
<1> QED BY <1>1, <1>2, <1>k, <1>4, <1>5

\* Every step of the service keeps its invariant.
LEMMA ServiceInvStep ==
  ASSUME ServiceInv, ServiceStep
  PROVE  ServiceInv'
<1> USE DEF ServiceInv
<1>s. ServiceShape'
  BY ServiceShapeStep
<1> HIDE DEF ProcessRecords, ServiceTypeOK, Process
<1>0. record.process # 0 => record.process \in Process
  BY DEF ServiceShape, ServiceTypeOK
<1>t. \A n \in Process : process[n] \in ProcessRecords
  BY DEF ServiceShape, ServiceTypeOK
<1>1. ASSUME NEW c \in Command, CommandStep(c) \/ Order(c) \/ StopRefuses(c) \/ CommandDies(c)
      PROVE  ServiceInv'
  <2>1. ASSUME UNCHANGED <<process, record>>, command[c].at # "recording",
               \A d \in Command : d # c => command'[d] = command[d],
               command'[c].at \notin {"recording", "spawning", "killed"}
        PROVE  ServiceInv'
    <3>1. \A n \in Process : Ages(n)
      BY <2>1 DEF Ages
    <3> QED BY <2>1, <1>s, <3>1, AgingKeepsService
  <2>2. CASE EnsureReads(c) \/ EnsureJudges(c) \/ Order(c) \/ LockService(c) \/ RefuseStart(c)
             \/ StartStops(c) \/ StopRefuses(c)
    <3>1. \A e, f : [NoCommand EXCEPT !.at = "judging", !.errand = "ensure", !.read = e,
                                     !.healthy = f].at = "judging"
      BY DEF NoCommand
    <3>2. \A e : [NoCommand EXCEPT !.at = "locking", !.errand = e].at = "locking"
      BY DEF NoCommand
    <3>3. EnsureReads(c) => command[c].at # "recording" /\ command'[c].at = "judging"
      BY <3>1 DEF EnsureReads, ServiceShape, ServiceTypeOK
    <3>a. EnsureJudges(c) =>
            command[c].at # "recording" /\ command'[c].at \in {"locking", "idle"}
      <4> DEFINE r == IF ServiceStatus(command[c].read, command[c].healthy) \in Ensurable
                        THEN [NoCommand EXCEPT !.at = "locking", !.errand = "ensure"] ELSE NoCommand
      <4>1. r.at \in {"locking", "idle"}
        BY <3>2, EmptyServiceRecords
      <4>2. EnsureJudges(c) => command[c].at = "judging" /\ command' = [command EXCEPT ![c] = r]
        BY DEF EnsureJudges
      <4> HIDE DEF r
      <4> QED BY <4>1, <4>2 DEF ServiceShape, ServiceTypeOK
    <3>4. Order(c) => command[c].at # "recording" /\ command'[c].at = "locking"
      BY <3>2 DEF Order, ServiceShape, ServiceTypeOK
    <3>5. LockService(c) \/ RefuseStart(c) \/ StartStops(c) \/ StopRefuses(c) =>
            command[c].at # "recording" /\ command'[c].at \in {"starting", "stopping", "idle"}
      BY EmptyServiceRecords
      DEF LockService, RefuseStart, StartStops, StopRefuses, ServiceShape, ServiceTypeOK
    <3>6. UNCHANGED <<process, record>>
      BY <2>2 DEF EnsureReads, EnsureJudges, Order, LockService, RefuseStart, StartStops, StopRefuses
    <3>7. \E r : command' = [command EXCEPT ![c] = r]
      <4>1. CASE EnsureReads(c) \/ EnsureJudges(c) \/ Order(c)
        BY <4>1 DEF EnsureReads, EnsureJudges, Order
      <4>2. CASE LockService(c) \/ RefuseStart(c) \/ StartStops(c) \/ StopRefuses(c)
        BY <4>2 DEF LockService, RefuseStart, StartStops, StopRefuses
      <4> QED BY <2>2, <4>1, <4>2
    <3>8. \A d \in Command : d # c => command'[d] = command[d]
      BY <3>7 DEF ServiceShape, ServiceTypeOK
    <3> QED BY <2>1, <2>2, <3>3, <3>a, <3>4, <3>5, <3>6, <3>8
  <2>3. CASE SpawnService(c)
    <3>1. PICK pid \in FreshPids : process' = [process EXCEPT ![NewNumber] = Watcher(pid)]
      BY <2>3 DEF SpawnService, Spawns
    <3>2. /\ NewNumber \in Process /\ Unused(NewNumber) /\ pid \in {0} \cup Process
          /\ ~PidTaken(pid)
      BY <2>3, <3>1, NumbersAndPids DEF SpawnService, Spawns
    <3>3. /\ command'[c].at = "recording" /\ command'[c].child = NewNumber /\ UNCHANGED record
          /\ \A d \in Command : d # c => command'[d] = command[d]
          /\ CommandAt(c, "spawning") \/ (CommandAt(c, "starting") /\ ~RecordTaken)
      BY <2>3 DEF SpawnService, Spawns, ServiceShape, ServiceTypeOK
    <3>4. /\ process'[NewNumber].kind = "watcher" /\ process'[NewNumber].sent = "none"
          /\ process'[NewNumber].pid = pid
          /\ \A n \in Process : n # NewNumber => process'[n] = process[n]
      <4>1. process \in [Process -> ProcessRecords]
        BY DEF ServiceShape, ServiceTypeOK
      <4>2. Watcher(pid).kind = "watcher" /\ Watcher(pid).sent = "none" /\ Watcher(pid).pid = pid
        BY <3>2, EmptyServiceRecords
      <4> QED BY ONLY <3>1, <3>2, <4>1, <4>2
    <3>5. record.process # NewNumber /\ \A d \in Command : command[d].child # NewNumber
      BY <3>2 DEF Unused
    <3>6. record.process = 0 \/ ~Loose(record.process)
      <4>1. CASE CommandAt(c, "spawning")
        BY <4>1 DEF CommandsFit
      <4>2. CASE ~RecordTaken
        BY <4>2, <1>0 DEF RecordTaken, PidTaken, Loose, IsLoose
      <4> QED BY <3>3, <4>1, <4>2
    <3>7. \A d \in Command : d # c => command[d].at \notin Managing
      BY <3>3 DEF ServiceShape
    <3>8. PidsDistinct'
      BY <3>2, <3>4 DEF PidsDistinct, PidTaken
    <3>9. StrangersUnharmed'
      BY <3>4 DEF StrangersUnharmed
    <3>10. RecordFits'
      BY <3>3, <3>4, <3>5, <1>0 DEF RecordFits, Down, IsDown
    <3>11. CommandsFit'
      BY <3>2, <3>3, <3>4, <3>5, <3>6, <3>7, <1>0 DEF CommandsFit, Loose, IsLoose
    <3>12. LooseKnown'
      BY <3>3, <3>4, <3>7 DEF LooseKnown, Loose, IsLoose
    <3> QED BY <1>s, <3>8, <3>9, <3>10, <3>11, <3>12
  <2>4. CASE RecordService(c)
    <3>1. /\ command[c].at = "recording" /\ UNCHANGED process
          /\ record' = [process |-> command[c].child, status |-> "running"]
          /\ command' = [command EXCEPT ![c] = NoCommand]
      BY <2>4 DEF RecordService
    <3>2. \A d \in Command : d # c => command[d].at \notin Managing
      BY <3>1 DEF ServiceShape
    <3>3. \A d \in Command : command'[d].at \notin Managing
      BY <3>1, <3>2, EmptyServiceRecords DEF ServiceShape, ServiceTypeOK
    <3>4. RecordFits'
      BY <3>1 DEF RecordFits, CommandsFit
    <3>5. CommandsFit'
      BY <3>3 DEF CommandsFit
    <3>6. LooseKnown'
      <4>1. 0 \notin Process
        BY DEF Process
      <4> QED BY <3>1, <3>2, <1>0, <4>1 DEF LooseKnown, CommandsFit, Loose, IsLoose
    <3> QED BY <1>s, <3>1, <3>4, <3>5, <3>6 DEF PidsDistinct, StrangersUnharmed
  <2>5. CASE AbandonStart(c)
    <3>1. /\ command[c].at = "recording" /\ UNCHANGED record
          /\ process' = [process EXCEPT ![command[c].child].sent = "kill"]
          /\ command' = [command EXCEPT ![c] = NoCommand]
      BY <2>5 DEF AbandonStart
    <3>2. command[c].child \in Process /\ process[command[c].child].kind # "stranger"
      BY <3>1 DEF CommandsFit
    <3>3. \A n \in Process : Ages(n)
      BY <3>1, <3>2, <1>t DEF Ages, ProcessRecords, ServiceShape, ServiceTypeOK
    <3>4. ~IsLoose(process'[command[c].child])
      BY <3>1, <3>2, <1>t DEF IsLoose, ProcessRecords, ServiceShape, ServiceTypeOK
    <3>5. /\ command'[c].at = "idle" /\ \A d \in Command : d # c => command'[d] = command[d]
      BY <3>1, EmptyServiceRecords DEF ServiceShape, ServiceTypeOK
    <3> QED BY <1>s, <3>1, <3>3, <3>4, <3>5, AgingKeepsService
  <2>6. CASE CommandDies(c)
    <3>1. /\ UNCHANGED record /\ command' = [command EXCEPT ![c] = NoCommand]
          /\ process' = IF command[c].at = "recording"
                          THEN [process EXCEPT ![command[c].child].orphan = TRUE] ELSE process
      BY <2>6 DEF CommandDies
    <3>2. \A n \in Process : Ages(n)
      BY <3>1, <1>t DEF Ages, ProcessRecords, ServiceShape, ServiceTypeOK
    <3>3. command[c].at = "recording" => ~IsLoose(process'[command[c].child])
      BY <3>1, <1>t DEF IsLoose, ProcessRecords, ServiceShape, ServiceTypeOK, CommandsFit
    <3>4. /\ command'[c].at = "idle" /\ \A d \in Command : d # c => command'[d] = command[d]
      BY <3>1, EmptyServiceRecords DEF ServiceShape, ServiceTypeOK
    <3> QED BY <1>s, <3>1, <3>2, <3>3, <3>4, AgingKeepsService
  <2>a. ASSUME AfterStop(c), command[c].at \in {"stopping", "waiting", "killed"}, UNCHANGED process,
               record' = NotedStopped,
               record.process # 0 => Down(record.process)
        PROVE  ServiceInv'
    <3>1. record'.process = record.process
          /\ (record'.status = "stopped" =>
                record.status = "stopped" \/ (record.process # 0 /\ Down(record.process)))
      BY <2>a DEF NotedStopped, ServiceShape, ServiceTypeOK
    <3>2. /\ command'[c].at \in {"idle", "starting", "spawning"}
          /\ \A d \in Command : d # c => command'[d] = command[d]
      <4>1. command[c].errand \in {"stop", "restart", "replace"}
        BY <2>a DEF ServiceShape
      <4>2. command \in [Command -> CommandRecords]
        BY DEF ServiceShape, ServiceTypeOK
      <4>3. CASE command[c].errand = "stop"
        BY <2>a, <4>2, <4>3, EmptyServiceRecords DEF AfterStop
      <4>4. CASE command[c].errand = "restart"
        BY <2>a, <4>2, <4>4 DEF AfterStop
      <4>5. CASE command[c].errand = "replace"
        BY <2>a, <4>2, <4>5 DEF AfterStop
      <4> QED BY <4>1, <4>3, <4>4, <4>5
    <3>3. \A n \in Process : Ages(n)
      BY <2>a DEF Ages
    <3>4. record.process = 0 \/ ~Loose(record.process)
      BY <2>a DEF Loose, Down, IsLoose, IsDown
    <3> QED BY <2>a, <1>s, <3>1, <3>2, <3>3, <3>4, AgingKeepsService
  <2>7. CASE StopFindsGone(c)
    <3>1. record.process # 0 => Down(record.process)
      BY <2>7 DEF StopFindsGone, RecordAlive, Down, IsDown
    <3> HIDE DEF AfterStop, NotedStopped
    <3> QED BY <2>7, <2>a, <3>1 DEF StopFindsGone
  <2>8. CASE StopConcludes(c)
    <3>1. record.process # 0 => Down(record.process)
      BY <2>8 DEF StopConcludes, CommandsFit
    <3> HIDE DEF AfterStop, NotedStopped
    <3> QED BY <2>8, <2>a, <3>1 DEF StopConcludes
  <2>9. CASE StopTerminates(c) \/ StopKills(c)
    <3>1. PICK sent \in {"term", "kill"} :
            Sends(sent) /\ (StopKills(c) => sent = "kill")
      BY <2>9 DEF StopTerminates, StopKills
    <3>2. /\ record.process # 0 /\ process[record.process].alive /\ UNCHANGED record
          /\ \A d \in Command : d # c => command'[d] = command[d]
          /\ command[c].at \in {"stopping", "waiting"}
          /\ command'[c].at = "waiting" \/ (command'[c].at = "killed" /\ StopKills(c))
      BY <2>9 DEF StopTerminates, StopKills, RecordAlive, ServiceShape, ServiceTypeOK
    <3>3. \A n \in Process :
            process[n].alive /\ process[n].pid = process[record.process].pid => n = record.process
      BY <1>0, <3>2 DEF PidsDistinct
    <3>4. process[record.process].kind # "stranger"
      BY <3>2 DEF RecordFits
    <3>5. \A n \in Process : process'[n] = process[n] \/
            (n = record.process /\ process[n].sent # "kill" /\ process'[n] = [process[n] EXCEPT !.sent = sent])
      BY <3>1, <3>3 DEF Sends
    <3>6. \A n \in Process : Ages(n)
      <4> SUFFICES ASSUME NEW n \in Process
                   PROVE  Ages(n)
        OBVIOUS
      <4>1. process[n] \in ProcessRecords
        BY <1>t
      <4>2. CASE process'[n] = process[n]
        BY <4>2 DEF Ages
      <4>3. CASE /\ process[n].sent # "kill" /\ process[n].kind # "stranger"
                 /\ process'[n] = [process[n] EXCEPT !.sent = sent]
        BY <4>1, <4>3 DEF Ages, ProcessRecords
      <4> QED BY <3>4, <3>5, <4>2, <4>3
    <3>7. StopKills(c) => IsDown(process'[record.process])
      BY <1>0, <1>t, <3>1, <3>2 DEF Sends, IsDown, ProcessRecords
    <3> QED BY <1>s, <3>2, <3>6, <3>7, AgingKeepsService
  <2> QED
    BY <1>1, <2>2, <2>3, <2>4, <2>5, <2>6, <2>7, <2>8, <2>9 DEF CommandStep
<1>p. ASSUME UNCHANGED <<record, command>>, \A n \in Process : Ages(n)
      PROVE  ServiceInv'
  BY <1>p, <1>s, AgingKeepsService
<1>2. ASSUME NEW n \in Process, Beat(n) \/ Dies(n) \/ WatcherFails(n) \/ StrangerEnds(n)
      PROVE  ServiceInv'
  <2>1. CASE Beat(n)
    BY <2>1, <1>p DEF Beat, Ages
  <2>2. CASE Dies(n) \/ WatcherFails(n) \/ StrangerEnds(n)
    <3>1. /\ Ends(n) \/ process' = [process EXCEPT ![n].hung = TRUE]
          /\ UNCHANGED <<record, command>>
      BY <2>2 DEF Dies, WatcherFails, StrangerEnds
    <3>2. \A m \in Process : m # n => process'[m] = process[m]
      BY <3>1 DEF Ends, ServiceShape, ServiceTypeOK
    <3>3. Ages(n)
      <4>1. process[n].pid \in {0} \cup Process /\ process \in [Process -> ProcessRecords]
        BY <1>t DEF ServiceShape, ServiceTypeOK, ProcessRecords
      <4>2. CASE Ends(n)
        <5>1. process'[n] = [Nobody EXCEPT !.pid = process[n].pid]
          BY <4>2, <4>1 DEF Ends
        <5> QED BY <5>1, <4>1, EmptyServiceRecords DEF Ages
      <4>3. CASE process' = [process EXCEPT ![n].hung = TRUE]
        BY <4>3, <4>1, <1>t DEF Ages, ProcessRecords
      <4> QED BY <3>1, <4>2, <4>3
    <3>4. \A m \in Process : Ages(m)
      BY <3>2, <3>3 DEF Ages
    <3> QED BY <3>1, <3>4, <1>p
  <2> QED BY <1>2, <2>1, <2>2
<1>3. CASE HeartbeatAges
  BY <1>3, <1>p DEF HeartbeatAges, Ages
<1>4. CASE PidReused
  <2> DEFINE pid == process[record.process].pid
  <2>1. /\ process' = [process EXCEPT ![NewNumber] = Stranger(pid)]
        /\ UNCHANGED <<record, command>> /\ record.process # 0
    BY <1>4 DEF PidReused
  <2>2. /\ NewNumber \in Process /\ Unused(NewNumber) /\ pid \in {0} \cup Process /\ ~PidTaken(pid)
    BY <1>4, NumbersAndPids DEF PidReused
  <2>3. /\ process'[NewNumber].kind = "stranger" /\ process'[NewNumber].sent = "none"
        /\ process'[NewNumber].pid = pid
        /\ \A n \in Process : n # NewNumber => process'[n] = process[n]
    <3>1. process \in [Process -> ProcessRecords]
      BY DEF ServiceShape, ServiceTypeOK
    <3>2. Stranger(pid).kind = "stranger" /\ Stranger(pid).sent = "none" /\ Stranger(pid).pid = pid
      BY <2>2, EmptyServiceRecords
    <3> QED BY ONLY <2>1, <2>2, <3>1, <3>2
  <2>4. record.process # NewNumber /\ \A d \in Command : command[d].child # NewNumber
    BY <2>2 DEF Unused
  <2>5. PidsDistinct'
    BY <2>2, <2>3 DEF PidsDistinct, PidTaken
  <2>6. StrangersUnharmed'
    BY <2>3 DEF StrangersUnharmed
  <2>7. RecordFits'
    BY <2>1, <2>3, <2>4, <1>0 DEF RecordFits, Down
  <2>8. CommandsFit'
    BY <2>1, <2>2, <2>3, <2>4, <1>0 DEF CommandsFit, Loose, Down
  <2>9. LooseKnown'
    BY <2>1, <2>3 DEF LooseKnown, Loose, IsLoose
  <2> QED BY <1>s, <2>5, <2>6, <2>7, <2>8, <2>9
<1> QED BY <1>1, <1>2, <1>3, <1>4 DEF ServiceStep

\* Of two watchers that nobody told to go, both would be the recorded one, or both the
\* child of the one command that holds the lock.
LEMMA AtMostOneWatcher ==
  ASSUME ServiceInv
  PROVE  OneWatcher
<1> DEFINE S == {n \in Process : /\ process[n].alive /\ process[n].kind = "watcher"
                                 /\ process[n].sent = "none" /\ ~process[n].orphan}
<1> HIDE DEF Process
<1>0. 0 \notin Process
  BY DEF Process
<1>1. ASSUME NEW m \in S, NEW n \in S
      PROVE  m = n
  <2>1. Loose(m) /\ Loose(n) /\ m \in Process /\ n \in Process
    BY DEF Loose, IsLoose
  <2>2. \A c \in Command : command[c].at = "recording" => record.process \notin {m, n}
    BY <2>1, <1>0 DEF ServiceInv, CommandsFit
  <2>3. \A c, d \in Command : command[c].at = "recording" /\ command[d].at = "recording" => c = d
    BY DEF ServiceInv, ServiceShape
  <2> QED BY <2>1, <2>2, <2>3 DEF ServiceInv, LooseKnown
<1>2. S = {} \/ \E n \in S : S = {n}
  BY <1>1
<1> HIDE DEF S
<1>3. S = {} => Cardinality(S) = 0
  BY FS_EmptySet
<1>4. ASSUME NEW n \in S, S = {n}
      PROVE  Cardinality(S) = 1
  BY <1>4, FS_Singleton
<1>5. Cardinality(S) <= 1
  BY <1>2, <1>3, <1>4
<1> QED BY <1>5 DEF OneWatcher, S

-----------------------------------------------------------------------------
(***************************************************************************)
(* Theorems                                                                *)
(***************************************************************************)
DeliveryInv ==
  DeliveryShape /\ BudgetKept /\ AcceptedIsRight /\ SeenIsJustified /\ DeliveringIsOpen

\* Both invariants hold at the start.
LEMMA WatcherInit ==
  ASSUME Init
  PROVE  DeliveryInv /\ ServiceInv /\ play \in Plays
<1> USE DEF Init
<1>1. DeliveryShape
  <2> HIDE DEF File, ScanRecords, ErrandRecords
  <2> QED BY EmptyRecords DEF DeliveryShape
<1>2. BudgetKept /\ AcceptedIsRight /\ DeliveringIsOpen
  BY EmptyRecords DEF BudgetKept, AtMostOnce, AcceptedIsRight, DeliveringIsOpen, Taken
<1>3. SeenIsJustified
  BY EmptyRecords DEF SeenIsJustified
<1>4. ServiceShape
  <2>1. /\ process \in [Process -> ProcessRecords] /\ command \in [Command -> CommandRecords]
        /\ record \in ServiceRecords
    <3> HIDE DEF ProcessRecords, CommandRecords, ServiceRecords, Process
    <3> QED BY EmptyServiceRecords
  <2>2. heartbeat \in [pid : {0} \cup Process, fresh : BOOLEAN]
    OBVIOUS
  <2>3. \A c \in Command : command[c].at = "idle"
    BY EmptyServiceRecords
  <2> QED BY <2>1, <2>2, <2>3 DEF ServiceShape
<1>5. PidsDistinct /\ StrangersUnharmed /\ LooseKnown
  BY EmptyServiceRecords DEF PidsDistinct, StrangersUnharmed, LooseKnown, Loose, IsLoose
<1>6. RecordFits /\ CommandsFit
  BY EmptyServiceRecords DEF RecordFits, CommandsFit
<1> QED BY <1>1, <1>2, <1>3, <1>4, <1>5, <1>6 DEF DeliveryInv, ServiceInv

\* Each half is preserved by its own steps and left alone by the other's.
LEMMA WatcherStep ==
  ASSUME DeliveryInv, ServiceInv, play \in Plays, [Next]_vars
  PROVE  DeliveryInv' /\ ServiceInv' /\ play' \in Plays
<1>d. ASSUME UNCHANGED delivery
      PROVE  DeliveryInv'
  BY <1>d DEF DeliveryInv, DeliveryShape, BudgetKept, AtMostOnce, Taken, AcceptedIsRight,
     SeenIsJustified, Justified, DeliveringIsOpen
<1>h. ASSUME UNCHANGED host
      PROVE  ServiceInv' /\ play' = play
  BY <1>h DEF ServiceInv, ServiceShape, PidsDistinct, StrangersUnharmed, RecordFits, CommandsFit,
     LooseKnown, Loose, Down, IsLoose, IsDown
<1>1. CASE ServiceStep /\ UNCHANGED <<play, delivery>>
  BY <1>1, <1>d, ServiceInvStep
<1>2. CASE DeliveryStep /\ UNCHANGED host
  <2>1. DeliveryInv'
    BY <1>2, ShapeStep, BudgetStep, MarksStep, OpenStep DEF DeliveryInv
  <2> QED BY <1>2, <2>1, <1>h
<1>3. CASE UNCHANGED vars
  BY <1>3, <1>d, <1>h DEF vars
<1> QED BY <1>1, <1>2, <1>3, TwoHalves

\* The inductive invariant of the host, of which the theorems below are consequences.
LEMMA WatcherInvariant == Spec => [](DeliveryInv /\ ServiceInv /\ play \in Plays)
<1> DEFINE Inv == DeliveryInv /\ ServiceInv /\ play \in Plays
<1>1. Init => Inv
  BY WatcherInit
<1>2. Inv /\ [Next]_vars => Inv'
  BY WatcherStep
<1> QED BY <1>1, <1>2, PTL DEF Spec

\* Types: what scans, operators, commands and processes write is always a value of the
\* kind the readers of watcher.py expect.
THEOREM WatcherTypeCorrect == Spec => []TypeOK
<1>1. DeliveryInv /\ ServiceInv /\ play \in Plays => TypeOK
  BY DEF DeliveryInv, DeliveryShape, ServiceInv, ServiceShape, TypeOK
<1> QED BY <1>1, WatcherInvariant, PTL

\* Delivery: however many scans, acknowledgements and retries overlap and die, a chat gets
\* at most one message about a signal for each release of its receipt and one more, and no
\* signal is marked seen that was not submitted, acknowledged or superseded
\* (scan_once, acknowledge_signal, retry_deferred_event).
THEOREM DeliveryIsSound == Spec => []DeliverySound
<1>1. DeliveryInv => DeliverySound
  BY DEF DeliveryInv, BudgetKept, SeenIsJustified, DeliverySound, NothingLost, Pending, Justified
<1> QED BY <1>1, WatcherInvariant, PTL

\* Acknowledgement: once the acknowledgement receipt of a signal is written, no scan
\* claims it (acknowledge_signal and scan_once share the delivery lock).
THEOREM AcknowledgedStaysUnclaimed == Spec => AcknowledgedNotClaimed
<1> DEFINE Unclaimed == \A k \in ackReceipt : receipt'[k] = "claimed" => receipt[k] = "claimed"
<1>1. DeliveryInv /\ [Next]_vars => [Unclaimed]_vars
  <2> SUFFICES ASSUME DeliveryInv, Next
               PROVE  Unclaimed
    BY DEF vars
  <2>1. CASE DeliveryStep
    BY <2>1, OpenStep DEF DeliveryInv
  <2>2. CASE UNCHANGED delivery
    BY <2>2
  <2> QED BY <2>1, <2>2, TwoHalves
<1> QED BY <1>1, WatcherInvariant, PTL DEF Spec, AcknowledgedNotClaimed

\* The service: at most one watcher of the host that nobody told to go, and a record that
\* says stopped is of a process that ended or was killed (start_service, stop_service).
THEOREM ServiceIsSound == Spec => []ServiceSound
<1>1. ServiceInv => ServiceSound
  <2> SUFFICES ASSUME ServiceInv
               PROVE  ServiceSound
    OBVIOUS
  <2>1. StoppedIsDown
    BY DEF ServiceInv, RecordFits, StoppedIsDown, Down, IsDown
  <2> QED BY <2>1, AtMostOneWatcher DEF ServiceSound
<1> QED BY <1>1, WatcherInvariant, PTL

\* Signals go to the recorded process only: no program that got the pid of a former watcher
\* is ever signalled (_stop_service_unlocked).
THEOREM NoStrangerSignalled == Spec => []StrangersUnharmed
<1>1. ServiceInv => StrangersUnharmed
  BY DEF ServiceInv
<1> QED BY <1>1, WatcherInvariant, PTL
=============================================================================
