-------------------------- MODULE ResourceOutboxProofs --------------------------
(***************************************************************************)
(* What the deliverer guarantees for every set of requests, subscribers,   *)
(* wake policies and interruptions.                                        *)
(*                                                                         *)
(* That a current row counts as delivered only with its event and signal   *)
(* is not inductive: a row may be marked because it is superseded, so it   *)
(* must also be shown that a superseded row never becomes current again    *)
(* (a subscriber who returns has a later generation, an incident that was  *)
(* recovered does not come back).  That the result file of an event agrees *)
(* with it needs that two rows of one file never disagree.                 *)
(***************************************************************************)
EXTENDS ResourceOutbox, ResourceLedgerProofs

USE DEF States, Owning, Terminal

\* Deliveries change nothing of the ledger, so what is proved of the ledger holds here.
LEMMA LedgerOfOutbox == OutboxSpec => Spec
  <1>1. OutboxInit => Init
    BY DEF OutboxInit
  <1>2. [OutboxNext]_outboxVars => [Next]_vars
    BY DEF OutboxNext, outboxVars, Deliver, DeliverBegin, DeliverNext, DeliverEnd,
           WriteResult, ProjectCheck, WriteEvent, WriteSignal, MarkDelivered,
           DeliveryFails, DelivererDies
  <1>3. QED
    BY <1>1, <1>2, PTL DEF OutboxSpec, Spec

\* What the proofs need of the ledger.
LedgerKnown == LedgerInv /\ OutboxInv /\ OneFinalResult

\* The invariants of the ledger, with deliveries.
LEMMA LedgerKnownHolds == OutboxSpec => []LedgerKnown
  <1>1. Init => LedgerKnown
    BY InitInv, InitOutbox DEF LedgerKnown
  <1>2. LedgerKnown /\ [Next]_vars => LedgerKnown'
    BY TypeStep, SafetyStep, OutboxStep, FinalStep DEF LedgerKnown, LedgerInv
  <1>3. QED
    BY <1>1, <1>2, LedgerOfOutbox, PTL DEF Spec

-----------------------------------------------------------------------------
\* What is known of a row: its request was submitted, its generation is not ahead of
\* the subscription, and its incidents are quarantined stages, or stages that ended.
RowKnown(row) ==
  /\ row \in Row
  /\ Submitted(row.request)
  /\ row.generation <= generation[row.request][row.subscriber]
  /\ ~Final(row) <=> row.incident # {}
  /\ \A x \in row.incident :
       /\ x[1] \in StagesOf(row.request)
       /\ state[x[1]] = "recovery_required" \/ state[x[1]] \in Terminal

RowsKnown == \A row \in outbox : RowKnown(row)

\* What RowFor builds for a settled request is such a row.
LEMMA NewRowKnown ==
  ASSUME TypeOK', NEW r \in Request, NEW u \in Subscriber, Submitted(r)',
         NEW row, row = RowFor(r, u, state', epoch', generation')
  PROVE  RowKnown(row)'
  <1>1. /\ row.request = r /\ row.subscriber = u
        /\ row.generation = generation'[r][u]
        /\ row.status = Status(r, state')
        /\ row.incident = Incident(r, state', epoch')
    BY DEF RowFor
  <1>2. Status(r, state') \in Statuses /\ Incident(r, state', epoch') \subseteq Stage \X Nat
    BY DEF Status, Statuses, Incident, StagesOf, TypeOK
  <1>3. row \in Row
    BY <1>2 DEF Row, RowFor, TypeOK
  <1>4. Status(r, state') = "action_required" <=> Incident(r, state', epoch') # {}
    BY DEF Status, Incident
  <1>5. \A x \in Incident(r, state', epoch') :
          x[1] \in StagesOf(r) /\ state'[x[1]] = "recovery_required"
    BY DEF Incident
  <1>6. generation'[r][u] <= generation'[r][u]
    BY DEF TypeOK
  <1>7. row.generation <= generation'[row.request][row.subscriber]
    BY <1>1, <1>6
  <1>8. ~Final(row) <=> row.incident # {}
    BY <1>1, <1>4 DEF Final
  <1>9. \A x \in row.incident :
          x[1] \in StagesOf(row.request) /\ state'[x[1]] = "recovery_required"
    BY <1>1, <1>5
  <1>10. Submitted(row.request)'
    BY <1>1
  <1>11. QED
    BY <1>3, <1>7, <1>8, <1>9, <1>10 DEF RowKnown

\* A subscription's generation never goes back, and joining again advances it.
LEMMA GenerationStep ==
  ASSUME LedgerInv, TypeOK', [Next]_vars, NEW r \in Request, NEW u \in Subscriber,
         Submitted(r)
  PROVE  /\ generation[r][u] <= generation'[r][u]
         /\ u \notin subscribed[r] =>
              u \notin subscribed'[r] \/ generation[r][u] < generation'[r][u]
         /\ Submitted(r)'
  <1> USE DEF LedgerInv
  <1>0. generation[r][u] \in Nat /\ generation'[r][u] \in Nat
    BY DEF TypeOK
  <1>1. ASSUME UNCHANGED subscriptions
        PROVE  /\ generation[r][u] <= generation'[r][u]
               /\ u \notin subscribed[r] =>
                    u \notin subscribed'[r] \/ generation[r][u] < generation'[r][u]
    <2>1. generation'[r][u] = generation[r][u] /\ subscribed'[r] = subscribed[r]
      BY <1>1 DEF subscriptions
    <2>2. QED
      BY <1>0, <2>1
  <1>2. ASSUME NEW q \in Request, NEW U, Submit(q, U)
        PROVE  generation'[r] = generation[r] /\ subscribed'[r] = subscribed[r]
    <2>1. q # r
      BY <1>2 DEF Submit
    <2>2. QED
      BY <1>2, <2>1 DEF Submit, TypeOK
  <1>3. ASSUME NEW q \in Request, NEW v \in Subscriber, Subscribe(q, v)
        PROVE  /\ generation[r][u] <= generation'[r][u]
               /\ u \notin subscribed[r] =>
                    u \notin subscribed'[r] \/ generation[r][u] < generation'[r][u]
    <2>1. CASE v \in subscribed[q]
      BY <1>1, <1>3, <2>1 DEF Subscribe
    <2>2. CASE v \notin subscribed[q]
      <3>1. /\ subscribed' = [subscribed EXCEPT ![q] = @ \cup {v}]
            /\ generation' = [generation EXCEPT ![q][v] = @ + 1]
        BY <1>3, <2>2 DEF Subscribe
      <3>2. CASE q = r /\ u = v
        <4>1. generation'[r][u] = generation[r][u] + 1
          BY <3>1, <3>2 DEF TypeOK
        <4>2. QED
          BY <1>0, <4>1
      <3>3. CASE ~(q = r /\ u = v)
        <4>1. generation'[r][u] = generation[r][u]
          BY <3>1, <3>3 DEF TypeOK
        <4>2. u \notin subscribed[r] => u \notin subscribed'[r]
          BY <3>1, <3>3 DEF TypeOK
        <4>3. QED
          BY <1>0, <4>1, <4>2
      <3>4. QED
        BY <3>2, <3>3
    <2>3. QED
      BY <2>1, <2>2
  <1>4. ASSUME NEW q \in Request, NEW v \in Subscriber, Unsubscribe(q, v)
        PROVE  /\ generation'[r] = generation[r]
               /\ subscribed'[r] \subseteq subscribed[r]
    BY <1>4 DEF Unsubscribe, TypeOK
  <1>5. Submitted(r)'
    <2> SUFFICES ASSUME NEW s \in Stage, state[s] # "absent" PROVE state'[s] # "absent"
      BY DEF Submitted, StagesOf
    <2>1. CASE Moves
      BY <2>1 DEF Moves
    <2>2. CASE Finishes
      BY <2>2 DEF Finishes, Finish, FinishEffect, EndState, TypeOK
    <2>3. CASE \E t \in Stage : Grant(t)
      BY <2>3 DEF Grant, TypeOK
    <2>4. QED
      BY <2>1, <2>2, <2>3, StepKinds
  <1>6. /\ generation[r][u] <= generation'[r][u]
        /\ u \notin subscribed[r] =>
             u \notin subscribed'[r] \/ generation[r][u] < generation'[r][u]
    <2>1. CASE Finishes
      BY <2>1, <1>1 DEF Finishes, Finish, FinishEffect
    <2>2. CASE UNCHANGED vars
      BY <2>2, <1>1 DEF vars
    <2>3. CASE \E q \in Request, v \in Subscriber : Subscribe(q, v) \/ Unsubscribe(q, v)
      BY <2>3, <1>0, <1>3, <1>4
    <2>4. CASE \E q \in Request, U \in SUBSET Subscriber : Submit(q, U)
      BY <2>4, <1>0, <1>2
    <2>5. CASE \/ \E unavailable \in SUBSET Project : ScheduleBegin(unavailable)
               \/ \E s \in Stage : Grant(s) \/ Protect(s) \/ Admit(s)
               \/ \E s \in Stage : Attach(s, epoch[s])
               \/ ScheduleCommit
               \/ \E q \in Request : Cancel(q)
      BY <2>5, <1>1 DEF ScheduleBegin, Grant, Protect, Admit, Attach, ScheduleCommit,
                        Cancel
    <2>6. QED
      BY <2>1, <2>2, <2>3, <2>4, <2>5, ReleaseKinds DEF Next
  <1>7. QED
    BY <1>5, <1>6
\* A stage in quarantine stays there or ends, and an ended stage stays ended.
LEMMA IncidentStep ==
  ASSUME LedgerInv, [Next]_vars, NEW s \in Stage
  PROVE  /\ state[s] = "recovery_required" =>
              state'[s] = "recovery_required" \/ state'[s] \in Terminal
         /\ state[s] \in Terminal => state'[s] = state[s]
  <1> USE DEF LedgerInv
  <1>1. state[s] \in Terminal => state'[s] = state[s]
    BY EndedStep DEF EndedStays, vars
  <1>2. ASSUME state[s] = "recovery_required"
        PROVE  state'[s] = "recovery_required" \/ state'[s] \in Terminal
    <2>1. CASE Finishes
      BY <1>2, <2>1 DEF Finishes, Finish, FinishEffect, EndState, TypeOK
    <2>2. CASE UNCHANGED state
      BY <1>2, <2>2
    <2>3. CASE \E r \in Request, U \in SUBSET Subscriber : Submit(r, U)
      BY <1>2, <2>3 DEF Submit, Submitted
    <2>4. CASE \E unavailable \in SUBSET Project : ScheduleBegin(unavailable)
      BY <1>2, <2>4 DEF ScheduleBegin, Waiting
    <2>5. CASE \E t \in Stage : Grant(t)
      BY <1>2, <2>5 DEF Grant, Oldest, PassReady, TypeOK
    <2>6. CASE \E t \in Stage : Attach(t, epoch[t])
      BY <1>2, <2>6 DEF Attach, TypeOK
    <2>7. CASE \E t \in Stage : Admit(t)
      BY <1>2, <2>7 DEF Admit, Admissible, TypeOK
    <2>8. CASE \E r \in Request : Cancel(r)
      BY <1>2, <2>8 DEF Cancel, Waiting
    <2>9. QED
      BY <2>1, <2>2, <2>3, <2>4, <2>5, <2>6, <2>7, <2>8, ReleaseKinds
         DEF Next, Protect, ScheduleCommit, Subscribe, Unsubscribe, vars
  <1>3. QED
    BY <1>1, <1>2

\* Every row stays known.
LEMMA RowsKnownStep ==
  ASSUME LedgerInv, OutboxInv, TypeOK', RowsKnown, [Next]_vars
  PROVE  RowsKnown'
  <1> SUFFICES ASSUME NEW row \in outbox' PROVE RowKnown(row)'
    BY DEF RowsKnown
  <1>1. CASE row \in outbox
    <2>1. RowKnown(row)
      BY <1>1 DEF RowsKnown
    <2>2. /\ row.request \in Request /\ row.subscriber \in Subscriber
          /\ row.generation \in Nat
      BY <2>1 DEF RowKnown, Row
    <2>3. /\ generation[row.request][row.subscriber] \in Nat
          /\ generation'[row.request][row.subscriber] \in Nat
      BY <2>2 DEF LedgerInv, TypeOK
    <2>4. /\ generation[row.request][row.subscriber]
               <= generation'[row.request][row.subscriber]
          /\ Submitted(row.request)'
      BY <2>1, <2>2, GenerationStep DEF RowKnown
    <2>5. row.generation <= generation'[row.request][row.subscriber]
      BY <2>1, <2>2, <2>3, <2>4 DEF RowKnown
    <2>6. \A x \in row.incident :
            /\ x[1] \in StagesOf(row.request)
            /\ state'[x[1]] = "recovery_required" \/ state'[x[1]] \in Terminal
      BY <2>1, IncidentStep DEF RowKnown, StagesOf
    <2>7. QED
      BY <2>1, <2>4, <2>5, <2>6 DEF RowKnown, Final
  <1>2. CASE row \notin outbox
    <2>1. PICK r \in Request, u \in Subscriber :
            Submitted(r)' /\ row = RowFor(r, u, state', epoch', generation')
      BY <1>2, NewRows
    <2>2. QED
      BY <2>1, NewRowKnown
  <1>3. QED
    BY <1>1, <1>2
-----------------------------------------------------------------------------
\* A row that is superseded for good: its subscription closed, or a later one was
\* opened, or a stage of its incident ended.
Stale(row) ==
  \/ row.generation < generation[row.request][row.subscriber]
  \/ row.subscriber \notin subscribed[row.request]
  \/ \E x \in row.incident : state[x[1]] \in Terminal

Places == {"idle", "next", "result", "check", "event", "signal", "mark"}

DeliveryTyped ==
  /\ delivery \in [at : Places, row : outbox \cup {NoRow}, todo : SUBSET outbox]
  /\ delivery.at \in Places \ {"idle", "next"} => delivery.row \in outbox
  /\ delivered \subseteq outbox
  /\ events \subseteq outbox
  /\ checks \in [CheckRequest -> {"open", "passed", "failed"}]

\* A result file tells the status of every row that is written to it.
ResultsAgree ==
  /\ \A row \in outbox :
       ResultFile(row) \in DOMAIN results => results[ResultFile(row)] = row.status
  /\ \A f \in DOMAIN results : \E row \in outbox : ResultFile(row) = f

\* No final result of the row's request has been told.
NoFinalTold(row) == \A told \in events : Final(told) => told.request # row.request

\* What has been written when the deliverer is at each place.
Written ==
  LET row == delivery.row IN
    /\ delivery.at \in {"check", "event", "signal", "mark"} =>
         ResultFile(row) \in DOMAIN results
    /\ delivery.at = "check" => Final(row) /\ row.request \in CheckRequest
    /\ delivery.at \in {"signal", "mark"} => row \in events
    /\ delivery.at = "mark" => (Wakes(row) => row \in signals)
    /\ delivery.at \in {"result", "event"} /\ ~Final(row) => NoFinalTold(row)

Complete(row) == row \in events /\ (Wakes(row) => row \in signals)

EventsHaveResults == \A row \in events : ResultFile(row) \in DOMAIN results

DeliveredOrStale == \A row \in delivered : Stale(row) \/ Complete(row)

ChecksAgree ==
  \A r \in CheckRequest : checks[r] # "open" =>
    /\ \A s \in StagesOf(r) : state[s] \in Terminal
    /\ checks[r] = IF \A s \in StagesOf(r) : state[s] = "passed"
                   THEN "passed" ELSE "failed"

DeliveryInv ==
  /\ RowsKnown
  /\ DeliveryTyped
  /\ ResultsAgree
  /\ Written
  /\ EventsHaveResults
  /\ signals \subseteq events
  /\ DeliveredOrStale
  /\ ChecksAgree

\* Two rows of one result file never say different things: rows of an incident are all
\* advisories, and the final rows of a request agree with its stages.
LEMMA SameFileSameStatus ==
  ASSUME NEW row, NEW other, NEW st, ResultFile(row) = ResultFile(other),
         ~Final(row) <=> row.incident # {}, ~Final(other) <=> other.incident # {},
         Final(row) => row.status = Status(row.request, st),
         Final(other) => other.status = Status(other.request, st)
  PROVE  row.status = other.status
  <1>1. row.request = other.request
    BY DEF ResultFile
  <1>2. Final(row) <=> Final(other)
    BY DEF ResultFile, Final
  <1>3. CASE Final(row)
    BY <1>1, <1>2, <1>3
  <1>4. CASE ~Final(row)
    BY <1>2, <1>4 DEF Final
  <1>5. QED
    BY <1>3, <1>4

\* What is superseded stays superseded, whatever the ledger does next.
LEMMA StaleStays ==
  ASSUME LedgerInv, TypeOK', RowsKnown, [Next]_vars, NEW row \in outbox, Stale(row)
  PROVE  Stale(row)'
  <1>1. RowKnown(row)
    BY DEF RowsKnown
  <1>2. /\ row.request \in Request /\ row.subscriber \in Subscriber
        /\ row.generation \in Nat
    BY <1>1 DEF RowKnown, Row
  <1>3. /\ generation[row.request][row.subscriber] \in Nat
        /\ generation'[row.request][row.subscriber] \in Nat
    BY <1>2 DEF LedgerInv, TypeOK
  <1>4. /\ generation[row.request][row.subscriber]
             <= generation'[row.request][row.subscriber]
        /\ row.subscriber \notin subscribed[row.request] =>
             \/ row.subscriber \notin subscribed'[row.request]
             \/ generation[row.request][row.subscriber]
                  < generation'[row.request][row.subscriber]
    BY <1>1, <1>2, GenerationStep DEF RowKnown
  <1>5. CASE row.generation < generation[row.request][row.subscriber]
    BY <1>2, <1>3, <1>4, <1>5 DEF Stale
  <1>6. CASE row.subscriber \notin subscribed[row.request]
    <2>1. row.generation <= generation[row.request][row.subscriber]
      BY <1>1 DEF RowKnown
    <2>2. QED
      BY <1>2, <1>3, <1>4, <1>6, <2>1 DEF Stale
  <1>7. CASE \E x \in row.incident : state[x[1]] \in Terminal
    BY <1>1, <1>7, IncidentStep DEF Stale, RowKnown, StagesOf
  <1>8. QED
    BY <1>5, <1>6, <1>7 DEF Stale

\* The row deliver skips as superseded is superseded for good.
LEMMA SupersededIsStale ==
  ASSUME RowsKnown, NEW row \in outbox, Superseded(row)
  PROVE  Stale(row)
  <1>1. RowKnown(row)
    BY DEF RowsKnown
  <1>2. CASE row.subscriber \notin subscribed[row.request]
    BY <1>2 DEF Stale
  <1>3. CASE /\ row.status = "action_required"
             /\ \A s \in StagesOf(row.request) : state[s] # "recovery_required"
    <2>1. PICK x \in row.incident : TRUE
      BY <1>1, <1>3 DEF RowKnown, Final
    <2>2. state[x[1]] \in Terminal
      BY <1>1, <1>3, <2>1 DEF RowKnown
    <2>3. QED
      BY <2>1, <2>2 DEF Stale
  <1>4. QED
    BY <1>2, <1>3 DEF Superseded

\* A current row is not superseded.
LEMMA CurrentIsNotStale ==
  ASSUME LedgerInv, RowsKnown, NEW row \in outbox, Current(row)
  PROVE  ~Stale(row)
  <1>1. RowKnown(row)
    BY DEF RowsKnown
  <1>2. row.generation = generation[row.request][row.subscriber] /\ row.generation \in Nat
    BY <1>1 DEF RowKnown, Row, Current
  <1>3. ~(row.generation < generation[row.request][row.subscriber])
    BY <1>2
  <1>4. \A x \in row.incident : state[x[1]] \notin Terminal
    <2>1. CASE Final(row)
      BY <1>1, <2>1 DEF RowKnown
    <2>2. CASE row.incident = Incident(row.request, state, epoch)
      BY <2>2 DEF Incident
    <2>3. QED
      BY <2>1, <2>2 DEF Current
  <1>5. QED
    BY <1>3, <1>4 DEF Stale, Current
\* Nothing has been delivered at first.
LEMMA InitDelivery == OutboxInit => DeliveryInv
  <1> SUFFICES ASSUME OutboxInit PROVE DeliveryInv
    OBVIOUS
  <1>1. /\ outbox = {} /\ delivered = {} /\ events = {} /\ signals = {}
        /\ delivery = [at |-> "idle", row |-> NoRow, todo |-> {}]
        /\ checks = [r \in CheckRequest |-> "open"]
        /\ DOMAIN results = {}
    BY DEF OutboxInit, Init, NoDelivery
  <1>2. QED
    BY <1>1 DEF DeliveryInv, RowsKnown, DeliveryTyped, Places, ResultsAgree, Written,
                EventsHaveResults, DeliveredOrStale, ChecksAgree

\* A transaction of the ledger disturbs nothing that was delivered.
LEMMA LedgerKeepsDelivery ==
  ASSUME LedgerKnown, LedgerKnown', DeliveryInv, [Next]_vars, UNCHANGED deliveries
  PROVE  DeliveryInv'
  <1> USE DEF LedgerKnown
  <1>0. TypeOK'
    BY DEF LedgerInv
  <1>1. outbox \subseteq outbox'
    <2>1. CASE Finishes
      BY <2>1 DEF Finishes, Finish, FinishEffect, Outcomes
    <2>2. CASE UNCHANGED vars
      BY <2>2 DEF vars
    <2>3. QED
      BY <2>1, <2>2, ReleaseKinds
         DEF Next, LedgerInv, Submit, ScheduleBegin, Grant, Protect, Attach, Admit,
             ScheduleCommit, Cancel, Subscribe, Unsubscribe, Outcomes
  <1>2. UNCHANGED <<delivered, delivery, results, checks, events, signals>>
    BY DEF deliveries
  <1>3. RowsKnown'
    BY <1>0, RowsKnownStep DEF DeliveryInv
  <1>4. DeliveryTyped'
    BY <1>1, <1>2 DEF DeliveryInv, DeliveryTyped
  <1>5. ResultsAgree'
    <2>1. \A f \in DOMAIN results' : \E row \in outbox' : ResultFile(row) = f
      BY <1>1, <1>2 DEF DeliveryInv, ResultsAgree
    <2>2. ASSUME NEW row \in outbox', ResultFile(row) \in DOMAIN results'
          PROVE  results'[ResultFile(row)] = row.status
      <3>1. PICK other \in outbox : ResultFile(other) = ResultFile(row)
        BY <1>2, <2>2 DEF DeliveryInv, ResultsAgree
      <3>2. results[ResultFile(row)] = other.status
        BY <1>2, <2>2, <3>1 DEF DeliveryInv, ResultsAgree
      <3>3. other.status = row.status
        <4>1. other \in outbox'
          BY <1>1
        <4>2. \A x \in outbox' : /\ ~Final(x) <=> x.incident # {}
                                 /\ Final(x) => x.status = Status(x.request, state')
          BY <1>3 DEF RowsKnown, RowKnown, OneFinalResult, Final
        <4>3. QED
          BY <3>1, <4>1, <4>2, SameFileSameStatus
      <3>4. QED
        BY <1>2, <3>2, <3>3
    <2>3. QED
      BY <2>1, <2>2 DEF ResultsAgree
  <1>6. Written' /\ EventsHaveResults' /\ (signals \subseteq events)'
    BY <1>2 DEF DeliveryInv, Written, EventsHaveResults, NoFinalTold, Final
  <1>7. DeliveredOrStale'
    <2> SUFFICES ASSUME NEW row \in delivered, ~Complete(row) PROVE Stale(row)'
      BY <1>2 DEF DeliveredOrStale, Complete
    <2>1. row \in outbox /\ Stale(row)
      BY DEF DeliveryInv, DeliveryTyped, DeliveredOrStale
    <2>2. QED
      BY <1>0, <2>1, StaleStays DEF DeliveryInv
  <1>8. ChecksAgree'
    BY <1>2, IncidentStep DEF DeliveryInv, ChecksAgree, StagesOf
  <1>9. QED
    BY <1>3, <1>4, <1>5, <1>6, <1>7, <1>8 DEF DeliveryInv

\* The steps of a delivery, and the deaths and failures between them, keep the files
\* consistent.
LEMMA DeliveryStep ==
  ASSUME LedgerKnown, DeliveryInv, UNCHANGED vars,
         Deliver \/ DeliveryFails \/ DelivererDies
  PROVE  DeliveryInv'
  <1> USE DEF LedgerKnown, DeliveryInv, At, Goto, Places
  <1>1. UNCHANGED <<outbox, state, epoch, subscribed, generation>>
    BY DEF vars, owned, subscriptions
  <1>2. RowsKnown'
    BY <1>1 DEF RowsKnown, RowKnown, Submitted
  <1>3. \A row : Stale(row)' <=> Stale(row)
    BY <1>1 DEF Stale
  <1>q. ASSUME UNCHANGED <<delivered, results, checks, events, signals>>,
               DeliveryTyped',
               delivery'.at \in {"idle", "next"}
        PROVE  DeliveryInv'
    BY <1>1, <1>2, <1>3, <1>q
       DEF ResultsAgree, Written, EventsHaveResults, DeliveredOrStale, Complete, ChecksAgree
  <1>4. CASE DeliverBegin
    <2>1. DeliveryTyped'
      BY <1>1, <1>4 DEF DeliverBegin, DeliveryTyped
    <2>2. QED
      BY <1>4, <1>q, <2>1 DEF DeliverBegin
  <1>5. CASE DeliverNext
    <2>1. PICK row \in delivery.todo :
            IF Superseded(row)
            THEN /\ delivered' = delivered \cup {row}
                 /\ delivery' = [delivery EXCEPT !.todo = delivery.todo \ {row}]
            ELSE /\ delivery' = [at |-> "result", row |-> row,
                                 todo |-> delivery.todo \ {row}]
                 /\ UNCHANGED delivered
      BY <1>5 DEF DeliverNext
    <2>2. row \in outbox /\ delivery.at = "next"
      BY <1>5, <2>1 DEF DeliveryTyped, DeliverNext
    <2>3. UNCHANGED <<results, checks, events, signals>>
      BY <1>5 DEF DeliverNext
    <2>4. CASE Superseded(row)
      <3>1. Stale(row)
        BY <2>2, <2>4, SupersededIsStale
      <3>2. delivery'.at = "next" /\ DeliveryTyped'
        BY <1>1, <2>1, <2>2, <2>3, <2>4 DEF DeliveryTyped
      <3>3. DeliveredOrStale'
        BY <1>3, <2>1, <2>3, <2>4, <3>1 DEF DeliveredOrStale, Complete
      <3>4. QED
        BY <1>1, <1>2, <2>3, <3>2, <3>3
           DEF ResultsAgree, Written, EventsHaveResults, ChecksAgree
    <2>5. CASE ~Superseded(row)
      <3>1. DeliveryTyped' /\ delivery'.at = "result"
        BY <1>1, <2>1, <2>2, <2>3, <2>5 DEF DeliveryTyped
      <3>2. ~Final(row) => NoFinalTold(row)
        <4>1. ASSUME ~Final(row), NEW told \in events, Final(told)
              PROVE  told.request # row.request
          <5>1. PICK s \in StagesOf(row.request) : state[s] = "recovery_required"
            BY <2>5, <4>1 DEF Superseded, Final
          <5>2. \A t \in StagesOf(told.request) : state[t] \in Terminal
            BY <4>1 DEF OneFinalResult, Final, DeliveryTyped
          <5>3. QED
            BY <5>1, <5>2
        <4>2. QED
          BY <4>1 DEF NoFinalTold
      <3>3. Written'
        BY <2>1, <2>3, <2>5, <3>1, <3>2 DEF Written, NoFinalTold, Final
      <3>4. QED
        BY <1>1, <1>2, <1>3, <2>1, <2>3, <2>5, <3>1, <3>3
           DEF ResultsAgree, EventsHaveResults, DeliveredOrStale, Complete, ChecksAgree
    <2>6. QED
      BY <2>4, <2>5
  <1>6. CASE DeliverEnd
    <2>1. DeliveryTyped'
      BY <1>1, <1>6 DEF DeliverEnd, DeliveryTyped, NoDelivery
    <2>2. QED
      BY <1>6, <1>q, <2>1 DEF DeliverEnd, NoDelivery
  <1>7. CASE WriteResult
    <2> DEFINE row == delivery.row
               f == ResultFile(row)
    <2>1. /\ row \in outbox
          /\ results' = [g \in DOMAIN results \cup {f} |->
                           IF g \in DOMAIN results THEN results[g] ELSE row.status]
          /\ delivery' = [delivery EXCEPT !.at =
               IF row.request \in CheckRequest /\ row.status # "action_required"
               THEN "check" ELSE "event"]
          /\ UNCHANGED <<delivered, checks, events, signals>>
      BY <1>7 DEF WriteResult, DeliveryTyped
    <2>2. DeliveryTyped'
      BY <1>1, <2>1 DEF DeliveryTyped
    <2>3. /\ delivery'.row = row
          /\ delivery'.at \in {"check", "event"}
          /\ delivery'.at = "check" => row.request \in CheckRequest /\ Final(row)
      BY <2>1 DEF DeliveryTyped, Final
    <2>4. ResultsAgree'
      <3>1. \A g \in DOMAIN results' : \E other \in outbox : ResultFile(other) = g
        BY <2>1 DEF ResultsAgree
      <3>2. ASSUME NEW other \in outbox, ResultFile(other) \in DOMAIN results'
            PROVE  results'[ResultFile(other)] = other.status
        <4>1. CASE ResultFile(other) \in DOMAIN results
          BY <2>1, <4>1 DEF ResultsAgree
        <4>2. CASE ResultFile(other) \notin DOMAIN results
          <5>1. ResultFile(other) = f /\ results'[ResultFile(other)] = row.status
            BY <2>1, <3>2, <4>2
          <5>2. \A x \in outbox : /\ ~Final(x) <=> x.incident # {}
                                  /\ Final(x) => x.status = Status(x.request, state)
            BY DEF RowsKnown, RowKnown, OneFinalResult, Final
          <5>3. QED
            BY <2>1, <5>1, <5>2, SameFileSameStatus
        <4>3. QED
          BY <4>1, <4>2
      <3>3. QED
        BY <1>1, <3>1, <3>2 DEF ResultsAgree
    <2>5. DOMAIN results' = DOMAIN results \cup {f}
      BY <2>1
    <2>6. Written' /\ EventsHaveResults'
      BY <1>7, <2>1, <2>3, <2>5
         DEF WriteResult, Written, EventsHaveResults, Final, NoFinalTold
    <2>7. DeliveredOrStale' /\ ChecksAgree'
      BY <1>1, <1>3, <2>1 DEF DeliveredOrStale, Complete, ChecksAgree
    <2>8. QED
      BY <1>2, <2>1, <2>2, <2>4, <2>6, <2>7
  <1>8. CASE ProjectCheck
    <2> DEFINE row == delivery.row
    <2>1. /\ row \in outbox /\ Final(row) /\ row.request \in CheckRequest
          /\ ResultFile(row) \in DOMAIN results
          /\ checks' = [checks EXCEPT ![row.request] =
                          IF row.status = "passed" THEN "passed" ELSE "failed"]
          /\ delivery' = [delivery EXCEPT !.at = "event"]
          /\ UNCHANGED <<delivered, results, events, signals>>
      BY <1>8 DEF ProjectCheck, DeliveryTyped, Written
    <2>2. DeliveryTyped'
      BY <1>1, <2>1 DEF DeliveryTyped
    <2>3. delivery'.row = row /\ delivery'.at = "event"
      BY <2>1 DEF DeliveryTyped
    <2>4. /\ \A s \in StagesOf(row.request) : state[s] \in Terminal
          /\ row.status = Status(row.request, state)
      BY <2>1 DEF OneFinalResult, Final
    <2>5. row.status = "passed" <=> \A s \in StagesOf(row.request) : state[s] = "passed"
      BY <2>4 DEF Status
    <2>6. ChecksAgree'
      BY <1>1, <2>1, <2>4, <2>5 DEF ChecksAgree, DeliveryTyped
    <2>7. ResultsAgree' /\ Written' /\ EventsHaveResults' /\ DeliveredOrStale'
      BY <1>1, <1>3, <2>1, <2>3
         DEF ResultsAgree, Written, EventsHaveResults, DeliveredOrStale, Complete
    <2>8. QED
      BY <1>2, <2>1, <2>2, <2>6, <2>7
  <1>9. CASE WriteEvent
    <2> DEFINE row == delivery.row
    <2>1. /\ row \in outbox
          /\ ResultFile(row) \in DOMAIN results
          /\ events' = events \cup {row}
          /\ delivery' = [delivery EXCEPT !.at =
                            IF Wakes(row) /\ row \notin signals THEN "signal" ELSE "mark"]
          /\ UNCHANGED <<delivered, results, checks, signals>>
      BY <1>9 DEF WriteEvent, AfterEvent, DeliveryTyped, Written
    <2>2. DeliveryTyped'
      BY <1>1, <2>1 DEF DeliveryTyped
    <2>3. /\ delivery'.row = row
          /\ delivery'.at \in {"signal", "mark"}
          /\ delivery'.at = "mark" => (Wakes(row) => row \in signals)
      BY <2>1 DEF DeliveryTyped
    <2>4. Written' /\ EventsHaveResults' /\ (signals \subseteq events)'
      BY <2>1, <2>3 DEF Written, EventsHaveResults, Wakes
    <2>5. ResultsAgree' /\ DeliveredOrStale' /\ ChecksAgree'
      BY <1>1, <1>3, <2>1
         DEF ResultsAgree, DeliveredOrStale, Complete, ChecksAgree, Wakes
    <2>6. QED
      BY <1>2, <2>2, <2>4, <2>5
  <1>10. CASE WriteSignal
    <2> DEFINE row == delivery.row
    <2>1. /\ row \in outbox
          /\ ResultFile(row) \in DOMAIN results
          /\ row \in events
          /\ signals' = signals \cup {row}
          /\ delivery' = [delivery EXCEPT !.at = "mark"]
          /\ UNCHANGED <<delivered, results, checks, events>>
      BY <1>10 DEF WriteSignal, DeliveryTyped, Written
    <2>2. DeliveryTyped'
      BY <1>1, <2>1 DEF DeliveryTyped
    <2>3. delivery'.row = row /\ delivery'.at = "mark"
      BY <2>1 DEF DeliveryTyped
    <2>4. Written' /\ EventsHaveResults' /\ (signals \subseteq events)'
      BY <2>1, <2>3 DEF Written, EventsHaveResults, Wakes
    <2>5. ResultsAgree' /\ DeliveredOrStale' /\ ChecksAgree'
      BY <1>1, <1>3, <2>1
         DEF ResultsAgree, DeliveredOrStale, Complete, ChecksAgree, Wakes
    <2>6. QED
      BY <1>2, <2>2, <2>4, <2>5
  <1>11. CASE MarkDelivered
    <2> DEFINE row == delivery.row
    <2>1. /\ row \in outbox
          /\ Complete(row)
          /\ delivered' = delivered \cup {row}
          /\ delivery' = [delivery EXCEPT !.at = "next", !.row = NoRow]
          /\ UNCHANGED <<results, checks, events, signals>>
      BY <1>11 DEF MarkDelivered, DeliveryTyped, Written, Complete
    <2>2. DeliveryTyped' /\ delivery'.at = "next"
      BY <1>1, <2>1 DEF DeliveryTyped
    <2>3. DeliveredOrStale'
      BY <1>3, <2>1 DEF DeliveredOrStale, Complete, Wakes
    <2>4. QED
      BY <1>1, <1>2, <2>1, <2>2, <2>3
         DEF ResultsAgree, Written, EventsHaveResults, ChecksAgree
  <1>12. CASE DeliveryFails
    <2>1. DeliveryTyped' /\ delivery'.at = "next"
      BY <1>1, <1>12 DEF DeliveryFails, DeliveryTyped
    <2>2. QED
      BY <1>12, <1>q, <2>1 DEF DeliveryFails
  <1>13. CASE DelivererDies
    <2>1. DeliveryTyped' /\ delivery'.at = "idle"
      BY <1>1, <1>13 DEF DelivererDies, DeliveryTyped, NoDelivery
    <2>2. QED
      BY <1>13, <1>q, <2>1 DEF DelivererDies
  <1>14. QED
    BY <1>4, <1>5, <1>6, <1>7, <1>8, <1>9, <1>10, <1>11, <1>12, <1>13 DEF Deliver

\* Every step keeps the delivery invariant.
LEMMA DeliveryInvStep ==
  LedgerKnown /\ LedgerKnown' /\ DeliveryInv /\ [OutboxNext]_outboxVars => DeliveryInv'
  <1> SUFFICES ASSUME LedgerKnown, LedgerKnown', DeliveryInv, [OutboxNext]_outboxVars
               PROVE  DeliveryInv'
    OBVIOUS
  <1>1. CASE [Next]_vars /\ UNCHANGED deliveries
    BY <1>1, LedgerKeepsDelivery
  <1>2. CASE Deliver \/ DeliveryFails \/ DelivererDies
    <2>1. UNCHANGED vars
      BY <1>2 DEF Deliver, DeliverBegin, DeliverNext, DeliverEnd, WriteResult,
             ProjectCheck, WriteEvent, WriteSignal, MarkDelivered, DeliveryFails,
             DelivererDies
    <2>2. QED
      BY <1>2, <2>1, DeliveryStep
  <1>3. QED
    BY <1>1, <1>2 DEF OutboxNext, outboxVars

\* Every settled result has its rows, and the files that deliveries leave behind agree
\* with the rows and with each other, wherever a deliverer died or failed (_outcomes,
\* deliver, project_result).
THEOREM AnnouncementsAreSound == OutboxSpec => []AnnouncementsSound
  <1>1. OutboxSpec => [](LedgerKnown /\ DeliveryInv)
    BY LedgerKnownHolds, InitDelivery, DeliveryInvStep, PTL DEF OutboxSpec
  <1>2. LedgerKnown /\ DeliveryInv => FilesAgree
    <2> SUFFICES ASSUME LedgerKnown, DeliveryInv PROVE FilesAgree
      OBVIOUS
    <2>1. \A row \in events :
            ResultFile(row) \in DOMAIN results /\ results[ResultFile(row)] = row.status
      BY DEF DeliveryInv, DeliveryTyped, EventsHaveResults, ResultsAgree
    <2>2. \A row \in delivered : Current(row) => Complete(row)
      BY CurrentIsNotStale
         DEF DeliveryInv, DeliveryTyped, DeliveredOrStale, LedgerKnown
    <2>3. \A r \in CheckRequest : checks[r] # "open" =>
            checks[r] = (IF \A s \in StagesOf(r) : state[s] = "passed"
                         THEN "passed" ELSE "failed")
      BY DEF DeliveryInv, ChecksAgree
    <2>4. QED
      BY <2>1, <2>2, <2>3 DEF FilesAgree, Complete, DeliveryInv
  <1>3. OutboxSpec => []OutboxSound
    BY LedgerOfOutbox, OutboxIsSound, PTL
  <1>4. QED
    BY <1>1, <1>2, <1>3, PTL DEF AnnouncementsSound
\* A subscriber who was told the final result is never told of an older incident: the
\* deliverer looks at the stages before each row, and is alone until it has told it
\* (deliver, delivery.lock).
THEOREM ResultComesLast == OutboxSpec => AdvisoryBeforeResult
  <1>1. OutboxSpec => [](LedgerKnown /\ DeliveryInv)
    BY LedgerKnownHolds, InitDelivery, DeliveryInvStep, PTL DEF OutboxSpec
  <1>2. LedgerKnown /\ DeliveryInv /\ [OutboxNext]_outboxVars =>
          [\A row \in events' \ events : ~Final(row) =>
             \A told \in events : Final(told) =>
               <<told.request, told.subscriber>> # <<row.request, row.subscriber>>]_events
    <2> SUFFICES ASSUME DeliveryInv, [OutboxNext]_outboxVars,
                        NEW row \in events' \ events, ~Final(row)
                 PROVE  NoFinalTold(row)
      BY DEF NoFinalTold
    <2>1. WriteEvent
      BY DEF OutboxNext, outboxVars, deliveries, Deliver, DeliverBegin, DeliverNext,
             DeliverEnd, WriteResult, ProjectCheck, WriteSignal, MarkDelivered,
             DeliveryFails, DelivererDies
    <2>2. row = delivery.row /\ delivery.at = "event"
      BY <2>1 DEF WriteEvent, At
    <2>3. QED
      BY <2>2 DEF DeliveryInv, Written
  <1>3. QED
    BY <1>1, <1>2, PTL DEF OutboxSpec, AdvisoryBeforeResult
===============================================================================
