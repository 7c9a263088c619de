---------------------------- MODULE ResourceOutbox ----------------------------
(***************************************************************************)
(* Delivering the outbox rows of the ledger to the projects                *)
(* (resource_service.py deliver, deliver_pending, and project_result of    *)
(* resource_checks.py): a result file, the descriptor of a check that the  *)
(* subscriber stands for, one event per row and, for a subscriber who is   *)
(* to be woken, one signal.  The service and every runner that ends run    *)
(* this pass, one at a time under delivery.lock; it may die or fail        *)
(* between any two of its writes, and what it left is tried again.         *)
(***************************************************************************)
EXTENDS ResourceLedger

CONSTANTS
  NoRow,         \* no row is being delivered
  CheckRequest,  \* the requests whose subscribers stand for a check
  WakePolicy,    \* [Subscriber -> {"never", "always", "on-failure"}]
  Sessions,      \* requests and subscribers that are used together
  MaxInterrupts  \* bound on deaths and failures of deliveries

VARIABLES
  session,    \* what this behaviour uses
  delivered,  \* rows with delivered=1
  delivery,   \* where the deliverer is
  results,    \* [result file -> the status it tells]
  checks,     \* [Request -> the status in check.json], "open" until projected
  events,     \* rows whose event is retained
  signals,    \* rows whose signal was written
  interrupts

deliveries == <<session, delivered, delivery, results, checks, events, signals, interrupts>>
outboxVars == <<vars, deliveries>>

NoDelivery == [at |-> "idle", row |-> NoRow, todo |-> {}]
At(place) == delivery.at = place
Goto(place) == delivery' = [delivery EXCEPT !.at = place]
Interrupt == interrupts < MaxInterrupts /\ interrupts' = interrupts + 1

\* recovery-required-<outcome id>.json, or result.json.
ResultFile(row) ==
  <<row.request, IF row.status = "action_required" THEN row.incident ELSE {}>>

Wakes(row) ==
  \/ WakePolicy[row.subscriber] = "always"
  \/ WakePolicy[row.subscriber] = "on-failure" /\ row.status # "passed"

\* Mutant: an advisory is delivered whatever became of its incident.
Superseded_Never(row) == row.subscriber \notin subscribed[row.request]

\* A row of a subscriber who left, or of an incident that was recovered.
Superseded(row) ==
  \/ row.subscriber \notin subscribed[row.request]
  \/ row.status = "action_required"
       /\ \A s \in StagesOf(row.request) : state[s] # "recovery_required"

\* deliver reads the rows that are due; those that failed lately are not.
DeliverBegin ==
  /\ Idle /\ At("idle")
  /\ \E due \in SUBSET (outbox \ delivered) :
       due # {} /\ delivery' = [at |-> "next", row |-> NoRow, todo |-> due]
  /\ UNCHANGED <<vars, session, delivered, results, checks, events, signals, interrupts>>

\* The rows have no order: SELECT without ORDER BY.
DeliverNext ==
  /\ Idle /\ At("next")
  /\ \E row \in delivery.todo :
       IF Superseded(row)
       THEN /\ delivered' = delivered \cup {row}
            /\ delivery' = [delivery EXCEPT !.todo = @ \ {row}]
       ELSE /\ delivery' = [at |-> "result", row |-> row, todo |-> delivery.todo \ {row}]
            /\ UNCHANGED delivered
  /\ UNCHANGED <<vars, session, results, checks, events, signals, interrupts>>

DeliverEnd ==
  /\ At("next") /\ delivery.todo = {}
  /\ delivery' = NoDelivery
  /\ UNCHANGED <<vars, session, delivered, results, checks, events, signals, interrupts>>

\* A retry does not rewrite a result that was delivered.
WriteResult ==
  /\ At("result")
  /\ LET row == delivery.row IN
       /\ results' = [f \in DOMAIN results \cup {ResultFile(row)} |->
                        IF f \in DOMAIN results THEN results[f] ELSE row.status]
       /\ Goto(IF row.request \in CheckRequest /\ row.status # "action_required"
               THEN "check" ELSE "event")
  /\ UNCHANGED <<vars, session, delivered, checks, events, signals, interrupts>>

ProjectCheck ==
  /\ At("check")
  /\ checks' = [checks EXCEPT ![delivery.row.request] =
                  IF delivery.row.status = "passed" THEN "passed" ELSE "failed"]
  /\ Goto("event")
  /\ UNCHANGED <<vars, session, delivered, results, events, signals, interrupts>>

\* Mutant: an event that is there already is left without its signal.
AfterEvent_Fresh(row) == IF Wakes(row) /\ row \notin events THEN "signal" ELSE "mark"

\* The signal of an event that an interrupted delivery retained is written too.
AfterEvent(row) == IF Wakes(row) /\ row \notin signals THEN "signal" ELSE "mark"

WriteEvent ==
  /\ At("event")
  /\ events' = events \cup {delivery.row}
  /\ Goto(AfterEvent(delivery.row))
  /\ UNCHANGED <<vars, session, delivered, results, checks, signals, interrupts>>

WriteSignal ==
  /\ At("signal")
  /\ signals' = signals \cup {delivery.row}
  /\ Goto("mark")
  /\ UNCHANGED <<vars, session, delivered, results, checks, events, interrupts>>

MarkDelivered ==
  /\ Idle /\ At("mark")
  /\ delivered' = delivered \cup {delivery.row}
  /\ delivery' = [delivery EXCEPT !.at = "next", !.row = NoRow]
  /\ UNCHANGED <<vars, session, results, checks, events, signals, interrupts>>

\* A row that cannot be delivered (evidence missing, a file error) is tried again
\* after the others.
DeliveryFails ==
  /\ delivery.row # NoRow /\ Interrupt
  /\ delivery' = [delivery EXCEPT !.at = "next", !.row = NoRow]
  /\ UNCHANGED <<vars, session, delivered, results, checks, events, signals>>

DelivererDies ==
  /\ ~At("idle") /\ Interrupt
  /\ delivery' = NoDelivery
  /\ UNCHANGED <<vars, session, delivered, results, checks, events, signals>>

Deliver ==
  \/ DeliverBegin \/ DeliverNext \/ DeliverEnd \/ WriteResult \/ ProjectCheck
  \/ WriteEvent \/ WriteSignal \/ MarkDelivered

-----------------------------------------------------------------------------
OutboxInit ==
  /\ Init
  /\ session \in Sessions
  /\ delivered = {}
  /\ delivery = NoDelivery
  /\ results = <<>>
  /\ checks = [r \in CheckRequest |-> "open"]
  /\ events = {}
  /\ signals = {}
  /\ interrupts = 0

\* Only the requests of the session are submitted, only its subscribers join.
InSession ==
  \A r \in Request : (Submitted(r) => r \in session.requests)
                     /\ subscribed[r] \subseteq session.subscribers

OutboxNext ==
  \/ Next /\ UNCHANGED deliveries /\ InSession'
  \/ Deliver \/ DeliveryFails \/ DelivererDies

\* A pass commits, and the service delivers again and again, starting with any row
\* that is due.
PassSteps == ScheduleCommit \/ \E s \in Stage : Grant(s) \/ Protect(s)

DeliverAll ==
  \/ DeliverBegin /\ delivery'.todo = outbox \ delivered
  \/ DeliverNext \/ DeliverEnd \/ WriteResult \/ ProjectCheck
  \/ WriteEvent \/ WriteSignal \/ MarkDelivered

OutboxSpec ==
  /\ OutboxInit
  /\ [][OutboxNext]_outboxVars
  /\ WF_outboxVars(PassSteps /\ UNCHANGED deliveries)
  /\ SF_outboxVars(DeliverAll)

-----------------------------------------------------------------------------
(***************************************************************************)
(* Properties.                                                             *)
(***************************************************************************)
Final(row) == row.status # "action_required"

\* What a subscriber should know now.
Current(row) ==
  /\ row.subscriber \in subscribed[row.request]
  /\ row.generation = generation[row.request][row.subscriber]
  /\ Final(row) \/ row.incident = Incident(row.request, state, epoch)

\* The files tell one story, wherever a delivery was interrupted: an event has its
\* result, which still says what the row says; a current row that counts as delivered
\* has its event, and its signal if the subscriber is to be woken; a check ends as its
\* request did.
FilesAgree ==
  /\ \A row \in events :
       ResultFile(row) \in DOMAIN results /\ results[ResultFile(row)] = row.status
  /\ signals \subseteq events
  /\ \A row \in delivered : Current(row) => row \in events /\ (Wakes(row) => row \in signals)
  /\ \A r \in CheckRequest : checks[r] # "open" =>
       checks[r] = (IF \A s \in StagesOf(r) : state[s] = "passed" THEN "passed" ELSE "failed")

\* Every settled result has its rows, and what was delivered of them agrees
\* (_outcomes, deliver, project_result).
AnnouncementsSound == OutboxSound /\ FilesAgree

\* A subscriber who was told the final result is not told of an older incident.
AdvisoryBeforeResult ==
  [][\A row \in events' \ events : ~Final(row) =>
       \A told \in events : Final(told) =>
         <<told.request, told.subscriber>> # <<row.request, row.subscriber>>]_events

\* Who stays subscribed to a request that ended hears its result.
ResultsArrive ==
  \A r \in Request, u \in Subscriber :
    <>[](u \in subscribed[r] /\ \A s \in StagesOf(r) : state[s] \in Terminal)
      => <>(\E row \in events : Final(row) /\ row.request = r /\ row.subscriber = u)

\* Incidents and results reach the subscribers, in this order, across deaths and
\* failures of the deliverer (deliver, _outcomes).
DeliveryKept == AdvisoryBeforeResult /\ ResultsArrive
===============================================================================
