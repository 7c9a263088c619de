------------------------------- MODULE Continuity -------------------------------
(***************************************************************************)
(* The continuity service (continuity.py): long-lived works owned by chat  *)
(* actors, the obligations and requests between them, and the activations  *)
(* that bring an actor back to what it owes.  Every operation is one write *)
(* transaction on one database; the activations it leaves pending are      *)
(* published afterwards, file by file, by whichever process gets to it.    *)
(*                                                                         *)
(* Bounds: every behaviour follows an agenda chosen in Init, which names   *)
(* the obligations, requests and sources it may use, the modes its owners  *)
(* and its assignees checkpoint, whether a work is armed for recovery by   *)
(* adoption, by default or not at all, whether its rows are published, and *)
(* how many rows, revisions of a work, generations of an endpoint or an    *)
(* assignment, and disruptions (rebinds, transfers and controls) it has.   *)
(* Where an agenda does not publish, rows stay pending: no transaction     *)
(* tells pending from published.  One row at a time is between its reading *)
(* and its marking.                                                        *)
(***************************************************************************)
EXTENDS ContinuityLedger

CONSTANTS
    Controller,      \* the actors with the project_control capability
    Founder,         \* the actors that may start a work
    Agendas,         \* the bounded scenarios: see above
    WaitModes        \* the wait modes the checkpoints may choose, TRUE for any

ASSUME ContinuityConstants ==
    /\ Founder \subseteq Actor /\ WaitModes \subseteq BOOLEAN
    /\ \A g \in Agendas :
          /\ g.modes \subseteq {"paused", "continue", "waiting", "complete"}
          /\ g.assignments \subseteq {"paused", "continue", "waiting"}
          /\ g.revisions \in Nat \ {0} /\ g.generations \in Nat \ {0} /\ g.disruptions \in Nat

VARIABLES
    ledger,          \* the database
    disruptions,     \* rebinds, transfers and recovery controls so far (bound)
    agenda,          \* the scenario of this behaviour (never changes)
    publishing,      \* rows read by publish_pending and not marked yet
    events           \* activations whose follow-up event file exists

vars == <<ledger, disruptions, agenda, publishing, events>>
files == <<publishing, events>>

Commit(d) ==
    /\ Len(d.activations) <= agenda.rows
    /\ ledger' = d
    /\ UNCHANGED <<disruptions, agenda, files>>

Disrupt(d) ==
    /\ Len(d.activations) <= agenda.rows
    /\ disruptions < agenda.disruptions /\ disruptions' = disruptions + 1
    /\ ledger' = d
    /\ UNCHANGED <<agenda, files>>

NoWait == [any |-> FALSE, sources |-> {}, handled |-> {}]

Init ==
    /\ ledger = [generation |-> [a \in Actor |-> 1],
                 work |-> [w \in Work |-> [mode |-> "none", owner |-> None, revision |-> 0]],
                 wait |-> [w \in Work |-> NoWait],
                 handled |-> [w \in Work |-> {}],
                 replays |-> [w \in Work |-> {}],
                 replyOwner |-> [w \in Work |-> <<0, 0, 0>>],
                 obligation |-> [o \in Obligation |->
                                    [status |-> "none", generation |-> 0, claim |-> 0]],
                 assignment |-> [o \in Obligation |->
                                    [mode |-> "none", any |-> FALSE, sources |-> {}, handled |-> {}]],
                 handledBy |-> [o \in Obligation |-> {}],
                 request |-> [r \in Request |->
                                [status |-> "none", message |-> 0, reply |-> 0, answered |-> FALSE]],
                 retained |-> [s \in External |-> "pending"],
                 results |-> <<>>, stopped |-> {}, armed |-> {}, adoptByDefault |-> FALSE,
                 activations |-> <<>>, incidents |-> {}]
    /\ disruptions = 0 /\ publishing = {} /\ events = {}
    /\ agenda \in Agendas

Mutable(w) == ledger.work[w].mode \notin {"none", "complete"}
Owner(w) == ledger.work[w].owner

(* ------------------------------ works -------------------------------- *)
StartWork(w, a) ==
    /\ ledger.work[w].mode = "none"
    /\ Commit([ledger EXCEPT !.work[w] = [mode |-> "paused", owner |-> a, revision |-> 1],
                             !.armed = IF ledger.adoptByDefault THEN @ \cup {w} ELSE @])

(* Bound: the default is changed only while it can still matter.           *)
ConfigureRecovery ==
    /\ agenda.recovery = "default" /\ \E w \in Work : ledger.work[w].mode = "none"
    /\ Commit([ledger EXCEPT !.adoptByDefault = ~@])

AdoptRecovery(w) ==
    /\ agenda.recovery = "adopt" /\ Mutable(w) /\ w \notin ledger.armed
    /\ Commit([ledger EXCEPT !.armed = @ \cup {w}])

(* What every checkpoint does first: fence the previous revision.          *)
AdvanceWork(w, mode) ==
    LET moved == [ledger EXCEPT !.work[w].mode = mode, !.work[w].revision = @ + 1]
        closed == CloseIncidents(moved, Rows(moved, LAMBDA x : x.work = w /\ x.reason = "work_recovery"
                                                                   /\ x.marks.request = None))
    IN IF mode = "complete" THEN RevokeProduct(closed, w)
       ELSE RevokeOwnerControl(closed, w, Owner(w))

RequiredOpen(w) ==
    {o \in Required : WorkOf[o] = w /\ ledger.obligation[o].status = "open"}

CheckpointWaiting(w, any, sources, handled, reprocess) ==
    /\ Mutable(w) /\ ledger.work[w].revision < agenda.revisions
    /\ sources # {}
    /\ handled \subseteq HandleableInWait(ledger, w, Owner(w), sources)
    /\ reprocess \subseteq {c \in Outcomes(ledger) : Source(c) \in sources}
    /\ LET moved == AdvanceWork(w, "waiting")
           acknowledged == (ledger.handled[w] \cup handled) \ reprocess
           decided == RecordReplays([moved EXCEPT !.handled[w] = acknowledged],
                                    w, moved.work[w].revision, handled, reprocess)
           waiting == [decided EXCEPT !.wait[w] =
                        [any |-> any, sources |-> sources,
                         handled |-> {c \in acknowledged : Source(c) \in sources}]]
           read == ReconcileSources(waiting, sources)
           woken == IF ExplicitStop(read, w, Owner(w)) THEN read ELSE EvaluateWait(read, w)
       IN Commit(RedeliverRequests(woken, RequestsOf(w)))

(* Variant: the wait is left in place.                                     *)
ClearWait_Kept(d, w) == d

ClearWait(d, w) == [d EXCEPT !.wait[w] = NoWait]

Checkpoint(w, mode, handled) ==
    /\ Mutable(w) /\ ledger.work[w].revision < agenda.revisions
    /\ mode = "complete" => RequiredOpen(w) = {}
    /\ handled \subseteq Handleable(ledger, w, Owner(w))
    /\ LET moved == AdvanceWork(w, mode)
           decided == RecordReplays(ClearWait([moved EXCEPT !.handled[w] = @ \cup handled], w),
                                    w, moved.work[w].revision, handled, {})
           settled == IF mode = "complete" THEN [decided EXCEPT !.replays[w] = {}] ELSE decided
           routed == IF mode = "continue" /\ ~ExplicitStop(settled, w, Owner(w))
                     THEN Create(settled, w, Owner(w), "continue_checkpoint", 0, NoMarks)
                     ELSE settled
       IN Commit(RedeliverRequests(routed, RequestsOf(w)))

Transfer(w, to) ==
    /\ Mutable(w) /\ ledger.work[w].revision < agenda.revisions
    /\ LET moved == [ledger EXCEPT !.work[w].owner = to, !.work[w].revision = @ + 1]
           fenced == RevokeOwnerControl(moved, w, Owner(w))
       IN Disrupt(IF ExplicitStop(fenced, w, to) THEN fenced
                  ELSE Create(fenced, w, to, "ownership_transferred", 0, NoMarks))

(* --------------------- obligations and requests ---------------------- *)
NewObligation(d, o) ==
    [d EXCEPT !.obligation[o] = [status |-> "open", generation |-> 1, claim |-> 0]]

OpenObligation(o) ==
    /\ o \in agenda.uses /\ ledger.obligation[o].status = "none" /\ RequestOf(o) = None
    /\ Mutable(WorkOf[o])
    /\ Commit(ScheduleObligation(NewObligation(ledger, o), o))

(* The message and its reminders, unless the recipient is stopped.         *)
RequestSend(r) ==
    LET w == WorkOf[r]
        o == DebtOf[r]
        owed == IF o = None THEN ledger ELSE NewObligation(ledger, o)
        sent == [owed EXCEPT !.request[r].status = "delivery_pending"]
        Remind(e) == Create(e, w, Assignee[r], "obligation_reminder", 1,
                            [NoMarks EXCEPT !.request = r, !.obligation = o])
    IN /\ r \in agenda.uses /\ ledger.request[r].status = "none" /\ Mutable(w)
       /\ Commit(IF ExplicitStop(ledger, w, Assignee[r]) THEN sent
                 ELSE IF o = None THEN SendMessage(sent, r)
                 ELSE Repeat(Reminders[o], SendMessage(sent, r), Remind))

(* _assert_current_assignment_claim *)
HoldsClaim(o) == ledger.obligation[o].status = "open" /\ CurrentClaim(ledger, o) # 0

Responding(r) ==
    /\ DebtOf[r] # None /\ ledger.request[r].status # "none"
    /\ ~ledger.request[r].answered /\ HoldsClaim(DebtOf[r])

RequestProgress(r) ==
    /\ Responding(r)
    /\ Commit([ledger EXCEPT !.request[r].status = "claimed"])

(* A terminal response: the debt is closed, its outcome recorded, the      *)
(* reply sent to the return actor and the owner's wait evaluated, in one   *)
(* transaction.                                                            *)
RequestRespond(r) ==
    LET o == DebtOf[r]
        w == WorkOf[r]
        outcome == <<o, "result">>
        closed == RevokeRequest([ledger EXCEPT !.obligation[o].status = "resolved"], r, Assignee[r])
        recorded == RecordResult(closed, outcome)
        replied == IF ExplicitStop(recorded, w, ReturnActor[r])
                   THEN [recorded EXCEPT !.request[r].reply = 0]
                   ELSE SendReply(recorded, r, {outcome})
        ready == [replied EXCEPT !.request[r].status = "reply_ready", !.request[r].answered = TRUE]
    IN Responding(r) /\ Commit(EvaluateWait(CloseAssignmentIncidents(ready, o), w))

(* Variant: the reply need not be claimed.                                 *)
HoldsReply_Unclaimed(r) ==
    ActiveCurrent(ledger, ledger.request[r].reply, ReturnActor[r], "request_reply")

HoldsReply(r) ==
    /\ ActiveCurrent(ledger, ledger.request[r].reply, ReturnActor[r], "request_reply")
    /\ ledger.activations[ledger.request[r].reply].status = "claimed"

RequestHandle(r) ==
    LET nudges == Rows(ledger, LAMBDA x : x.marks.request = r /\ x.reason = "work_recovery")
        done == Revoke([ledger EXCEPT !.request[r].status = "handled"], nudges)
    IN /\ ledger.request[r].status = "reply_ready" /\ HoldsReply(r)
       /\ Commit(CloseIncidents(done, nudges))

AssignmentCheckpoint(o, mode, any, sources, handled, reprocess) ==
    /\ HoldsClaim(o)
    /\ mode = "waiting" <=> sources # {}
    /\ mode # "waiting" => reprocess = {}
    /\ mode # "paused" => ledger.obligation[o].generation < agenda.generations
    /\ handled \subseteq HandleableInAssignment(ledger, o, sources)
    /\ reprocess \subseteq {c \in Outcomes(ledger) : Source(c) \in sources}
    /\ LET kept == IF mode = "waiting" THEN sources ELSE ledger.assignment[o].sources
           acknowledged == (ledger.handledBy[o] \cup handled) \ reprocess
           bumped == IF mode = "paused" THEN ledger
                     ELSE [ledger EXCEPT !.obligation[o].generation = @ + 1,
                                         !.obligation[o].claim = 0]
           saved == [RevokeObligation(bumped, o) EXCEPT
                        !.handledBy[o] = acknowledged,
                        !.assignment[o] = [mode |-> mode, any |-> any, sources |-> sources,
                                           handled |-> {c \in acknowledged : Source(c) \in kept}]]
           closed == CloseAssignmentIncidents(saved, o)
           stopped == ExplicitStop(closed, WorkOf[o], Assignee[o])
           read == ReconcileSources(closed, sources)
       IN Commit(CASE mode = "continue" /\ ~stopped ->
                        Create(closed, WorkOf[o], Assignee[o], "assignment_continue",
                               closed.obligation[o].generation, [NoMarks EXCEPT !.obligation = o])
                   [] mode = "waiting" /\ ~stopped -> EvaluateAssignmentWait(read, o)
                   [] OTHER -> read)

(* Variant: the reply obligation of a request may be resolved as well.     *)
Resolvable_Any(o) == ledger.work[WorkOf[o]].mode # "complete" /\ HoldsClaim(o)

Resolvable(o) ==
    RequestOf(o) = None /\ ledger.work[WorkOf[o]].mode # "complete" /\ HoldsClaim(o)

ResolveObligation(o) ==
    LET closed == RevokeObligation([ledger EXCEPT !.obligation[o].status = "resolved"], o)
        recorded == RecordResult(closed, <<o, "result">>)
    IN /\ Resolvable(o)
       /\ Commit(EvaluateWait(CloseAssignmentIncidents(recorded, o), WorkOf[o]))

(* --------------------- endpoints and controls ------------------------ *)
(* register_actor with a new endpoint: fence what was addressed to the old *)
(* one and create the current routes again for the new one.                *)
RegisterActor(a) ==
    LET addressed == Rows(ledger, LAMBDA x : x.actor = a)
        fenced == CloseIncidents(Revoke(ledger, addressed), addressed)
        bound == [fenced EXCEPT !.generation[a] = @ + 1]
        debts == {o \in Obligation : Assignee[o] = a /\ ledger.obligation[o].status = "open"}
        replies == {r \in Request : ReturnActor[r] = a /\ ledger.request[r].status = "reply_ready"
                                    /\ ~ExplicitStop(ledger, WorkOf[r], a)}
        works == {w \in Work : Owner(w) = a /\ ledger.work[w].mode # "complete"
                               /\ ~ExplicitStop(ledger, w, a)}
        Reassign(o, d) == RearmObligation([d EXCEPT !.obligation[o].generation = @ + 1,
                                                    !.obligation[o].claim = 0], o)
        Renew(w, d) == IF d.work[w].mode = "continue"
                       THEN Create(d, w, a, "continue_checkpoint", 0, NoMarks)
                       ELSE EvaluateWait(d, w)
    IN /\ ledger.generation[a] < agenda.generations
       /\ \A o \in debts : ledger.obligation[o].generation < agenda.generations
       /\ Disrupt(FoldSet(Renew,
                    FoldSet(LAMBDA r, d : SendReply(d, r, {}),
                            FoldSet(Reassign, bound, debts), replies), works))

(* set_recovery_control: stop or resume a work, an actor or the project.   *)
MayControl(scope, a) ==
    \/ scope \in Work /\ ledger.work[scope].mode # "none" /\ Owner(scope) = a
    \/ scope = a
    \/ scope = "project" /\ a \in Controller

Covered(scope, x) == scope \in {"project", x.actor, x.work}

Stop(scope, a) ==
    LET live == Rows(ledger, LAMBDA x : x.status \in Live /\ Covered(scope, x))
        halted == [ledger EXCEPT !.stopped = @ \cup {scope},
                                 !.incidents = {n \in @ : n.nudge \notin live}]
    IN MayControl(scope, a) /\ Disrupt(Revoke(halted, live))

Resume(scope, a) ==
    /\ MayControl(scope, a)
    /\ Disrupt(RearmScope([ledger EXCEPT !.stopped = @ \ {scope}], scope))

(* ------------------------------ claims ------------------------------- *)
(* The request an activation is about: named in it, or by its obligation.  *)
AboutRequest(x) ==
    IF x.marks.request # None \/ x.marks.obligation = None THEN x.marks.request
    ELSE RequestOf(x.marks.obligation)

ReplyRecovery(x) == x.reason = "work_recovery" /\ x.marks.request # None

RequestAgrees(i, x) ==
    LET r == AboutRequest(x)
        toReturn == x.reason = "request_reply" \/ ReplyRecovery(x)
    IN r # None =>
        /\ x.actor = IF toReturn THEN ReturnActor[r] ELSE Assignee[r]
        /\ x.reason = "request_reply" => /\ ledger.request[r].status \in {"reply_ready", "handled"}
                                         /\ ledger.request[r].reply = i
        /\ ReplyRecovery(x) => /\ ledger.request[r].status = "reply_ready"
                               /\ ledger.request[r].reply = x.marks.after
                               /\ ledger.activations[x.marks.after].status = "claimed"

Communication(x) ==
    \/ x.reason \in {"request_message", "request_reply"} \/ ReplyRecovery(x)
    \/ x.marks.obligation # None /\ RequestOf(x.marks.obligation) # None

(* Every check of claim() before the status of the activation itself.      *)
Authorised(i) ==
    LET x == ledger.activations[i]
        o == x.marks.obligation
    IN /\ x.endpoint = ledger.generation[x.actor]
       /\ ~ExplicitStop(ledger, x.work, x.actor)
       /\ Communication(x) \/ ledger.work[x.work].mode # "complete"
       /\ RequestAgrees(i, x)
       /\ x.reason \in Recovery /\ ~Communication(x) => ~RecoveryStop(ledger, x.work, x.actor)
       /\ o # None => /\ ledger.obligation[o].status = "open"
                      /\ ledger.obligation[o].generation = x.generation
       /\ o = None /\ ~Communication(x) =>
             /\ x.revision = ledger.work[x.work].revision
             /\ x.actor = Owner(x.work)
             /\ ledger.work[x.work].mode \in {"continue", "waiting"}
       /\ x.reason \in Recovery =>
             /\ \E n \in ledger.incidents : n.nudge = i /\ n.status = "queued"
             /\ x.work \in ledger.armed

(* Variant: every notice of an assignment may be claimed.                  *)
AlreadyClaimed_Never(i) == FALSE

(* A second notice of a claimed assignment answers already_claimed and     *)
(* changes nothing.                                                        *)
AlreadyClaimed(i) ==
    LET x == ledger.activations[i]
        o == x.marks.obligation
    IN /\ o # None /\ x.reason \notin Recovery
       /\ ledger.obligation[o].claim \notin {0, i}

Claim(i) ==
    LET x == ledger.activations[i]
        o == x.marks.obligation
        r == AboutRequest(x)
        turn == 1 + Cardinality({j \in Indexes(ledger) : ledger.activations[j].status = "claimed"})
        taken == [ledger EXCEPT !.activations[i].status = "claimed", !.activations[i].turn = turn]
        assigned == [taken EXCEPT !.obligation[o].claim = i]
    IN /\ x.status \in Live /\ Authorised(i) /\ ~AlreadyClaimed(i)
       /\ Commit(CASE x.reason \in Recovery ->
                        [taken EXCEPT !.incidents =
                            {IF n.nudge = i THEN [n EXCEPT !.status = "waiting"] ELSE n : n \in @}]
                   [] o # None /\ x.reason \notin Recovery ->
                        IF r = None THEN assigned
                        ELSE [assigned EXCEPT !.request[r].status = "claimed"]
                   [] x.reason = "request_message" /\ o = None ->
                        [taken EXCEPT !.request[r].status = "closed_no_reply"]
                   [] OTHER -> taken)

(* --------------------------- external results ------------------------ *)
(* An operation outside the ledger ends: its result can be read, or not    *)
(* yet (a file error, an invalid contract).                                *)
SourceEnds(s, outcome) ==
    /\ s \in agenda.uses /\ ledger.retained[s] # "terminal" /\ ledger.retained[s] # outcome
    /\ Commit([ledger EXCEPT !.retained[s] = outcome])

(* observe_signal: the retained result if there is one, otherwise an       *)
(* outcome anchored on the event.                                          *)
ObserveSignal(s) ==
    LET outcome == <<s, IF Terminal(ledger, s) THEN "result" ELSE "event">>
    IN /\ ledger.retained[s] # "pending" /\ outcome \notin Outcomes(ledger)
       /\ Commit(EvaluateWaits(RecordResult(ledger, outcome)))

(* --------------------- reconcile and self check ---------------------- *)
WaitSources == UNION {ledger.wait[w].sources : w \in Work}
               \cup UNION {ledger.assignment[o].sources : o \in Obligation}

(* due: the claims whose recovery interval has passed, chosen by the clock *)
Reconcile(due) ==
    LET read == EvaluateWaits(ReconcileSources(ledger, WaitSources))
    IN Commit(ReconcileRecovery(RedeliverRequests(read, Request), due))

(* self_check, finding by finding in the order of the code: what is found  *)
(* missing, and what --repair does about it.                               *)
UndeliveredRequest(d, r) ==
    LET q == d.request[r]
    IN \/ /\ q.status = "delivery_pending"
          /\ ~ExplicitStop(d, WorkOf[r], Assignee[r])
          /\ ~ActiveCurrent(d, q.message, Assignee[r], "request_message")
       \/ /\ q.status = "reply_ready"
          /\ ~ExplicitStop(d, WorkOf[r], ReturnActor[r])
          /\ ~ActiveCurrent(d, q.reply, ReturnActor[r], "request_reply")

UnassignedDebt(d, o) ==
    /\ d.obligation[o].status = "open" /\ d.obligation[o].claim = 0
    /\ RequestOf(o) = None /\ d.assignment[o].mode = "none"
    /\ d.work[WorkOf[o]].mode # "complete" /\ ~ExplicitStop(d, WorkOf[o], Assignee[o])
    /\ ObligationRoutes(d, o, {"obligation_assigned", "obligation_reminder"}) = {}

(* Variant: a claimed notice of another revision counts as well.           *)
UnroutedWait_Ever(d, w) ==
    /\ WaitSatisfied(d, w) /\ ~ExplicitStop(d, w, d.work[w].owner)
    /\ Rows(d, LAMBDA x : x.work = w /\ x.reason = "wait_satisfied" /\ x.status \in Active) = {}

UnroutedWait(d, w) ==
    WaitSatisfied(d, w) /\ ~HasCompletionRoute(d, w) /\ ~ExplicitStop(d, w, d.work[w].owner)

UnroutedAssignment(d, o) ==
    /\ AssignmentSatisfied(d, o) /\ ContinuationAllowed(d, o)
    /\ ~ExplicitStop(d, WorkOf[o], Assignee[o])
    /\ ObligationRoutes(d, o, {"assignment_wait_satisfied"}) = {}

(* Any unclaimed continuation of the owner counts.                         *)
MissingContinuation(d, w) ==
    /\ d.work[w].mode = "continue" /\ ~ExplicitStop(d, w, d.work[w].owner)
    /\ Rows(d, LAMBDA x : /\ x.work = w /\ x.actor = d.work[w].owner
                          /\ x.reason = "continue_checkpoint" /\ x.status \in Live) = {}

(* Variant: the wait is evaluated before its sources are read.             *)
RepairedWait_Early(d, w) ==
    ReconcileSources(IF UnroutedWait(d, w) THEN EvaluateWait(d, w) ELSE d, d.wait[w].sources)

RepairedWait(d, w) ==
    LET read == ReconcileSources(d, d.wait[w].sources)
    IN IF UnroutedWait(read, w) THEN EvaluateWait(read, w) ELSE read

(* A claimed request is left to reconcile; the other requests of its work  *)
(* are redelivered with a missing one.                                     *)
Repaired(d) ==
    LET redelivered == FoldSet(LAMBDA r, e : IF UndeliveredRequest(e, r)
                                             THEN RedeliverRequests(e, RequestsOf(WorkOf[r])) ELSE e,
                               d, Request)
        rearmed == FoldSet(LAMBDA o, e : RearmObligation(e, o), redelivered,
                           {o \in Obligation : UnassignedDebt(redelivered, o)})
        woken == FoldSet(LAMBDA w, e : RepairedWait(e, w), rearmed, Work)
        notified == FoldSet(LAMBDA o, e : EvaluateAssignmentWait(e, o), woken,
                            {o \in Obligation : UnroutedAssignment(woken, o)})
    IN FoldSet(LAMBDA w, e : Create(e, w, e.work[w].owner, "continue_checkpoint", 0, NoMarks),
               notified, {w \in Work : MissingContinuation(notified, w)})

SelfCheck == Commit(Repaired(ledger))

(* ---------------------------- publication ---------------------------- *)
(* publish_pending reads the pending rows, writes the packet, the evidence *)
(* and the event of each, then marks the row if it is still pending.       *)
ReadPending(i) ==
    /\ agenda.publishes /\ publishing = {} /\ ledger.activations[i].status = "pending"
    /\ publishing' = {i}
    /\ UNCHANGED <<ledger, disruptions, agenda, events>>

WriteEvent(i) ==
    /\ i \in publishing \ events
    /\ events' = events \cup {i}
    /\ UNCHANGED <<ledger, disruptions, agenda, publishing>>

(* Variant: the row is marked whatever became of it meanwhile.             *)
Marked_Always(x) == [x EXCEPT !.status = "published"]

Marked(x) == [x EXCEPT !.status = IF @ = "pending" THEN "published" ELSE @]

(* Variant: the row is marked as soon as it is read.                       *)
MarkPublished_First(i) ==
    /\ i \in publishing
    /\ ledger' = [ledger EXCEPT !.activations[i] = Marked(@)]
    /\ publishing' = publishing \ {i}
    /\ UNCHANGED <<disruptions, agenda, events>>

MarkPublished(i) ==
    /\ i \in publishing \cap events
    /\ ledger' = [ledger EXCEPT !.activations[i] = Marked(@)]
    /\ publishing' = publishing \ {i}
    /\ UNCHANGED <<disruptions, agenda, events>>

(* A file error, or the death of the publisher, between the two.           *)
PublicationFails(i) ==
    /\ i \in publishing
    /\ publishing' = publishing \ {i}
    /\ UNCHANGED <<ledger, disruptions, agenda, events>>

(* ------------------------------- next -------------------------------- *)
Usable == (agenda.uses \cap (Obligation \cup External))
          \cup ({DebtOf[r] : r \in agenda.uses \cap Request} \ {None})

OwnerStep(w) ==
    \/ \E a \in Founder : StartWork(w, a)
    \/ AdoptRecovery(w)
    \/ \E any \in WaitModes, sources \in IF "waiting" \in agenda.modes
                                        THEN SUBSET Usable \ {{}} ELSE {} :
         \E handled \in SUBSET HandleableInWait(ledger, w, Owner(w), sources),
            reprocess \in SUBSET {c \in Outcomes(ledger) : Source(c) \in sources} :
              CheckpointWaiting(w, any, sources, handled, reprocess)
    \/ \E mode \in agenda.modes \ {"waiting"} :
         \E handled \in SUBSET Handleable(ledger, w, Owner(w)) : Checkpoint(w, mode, handled)
    \/ \E to \in Actor : Transfer(w, to)

AssigneeStep(o) ==
    \/ OpenObligation(o)
    \/ ResolveObligation(o)
    \/ \E mode \in agenda.assignments, any \in WaitModes,
          sources \in SUBSET (Usable \ {o}) :
         \E handled \in SUBSET HandleableInAssignment(ledger, o, sources),
            reprocess \in SUBSET {c \in Outcomes(ledger) : Source(c) \in sources} :
              AssignmentCheckpoint(o, mode, any, sources, handled, reprocess)

RequestStep(r) ==
    RequestSend(r) \/ RequestProgress(r) \/ RequestRespond(r) \/ RequestHandle(r)

ControlStep ==
    \E a \in Actor : RegisterActor(a)
                     \/ \E scope \in {"project"} \cup Actor \cup Work : Stop(scope, a) \/ Resume(scope, a)

ServiceStep ==
    \/ ConfigureRecovery
    \/ \E s \in External : \/ \E outcome \in {"unreadable", "terminal"} : SourceEnds(s, outcome)
                           \/ ObserveSignal(s)
    \/ \E due \in SUBSET {i \in Indexes(ledger) : ledger.activations[i].status = "claimed"} :
         Reconcile(due)
    \/ SelfCheck

PublisherStep ==
    \E i \in Indexes(ledger) : ReadPending(i) \/ WriteEvent(i) \/ MarkPublished(i)
                               \/ PublicationFails(i)

Next ==
    \/ \E w \in Work : OwnerStep(w)
    \/ \E o \in Obligation : AssigneeStep(o)
    \/ \E r \in Request : RequestStep(r)
    \/ \E i \in Indexes(ledger) : Claim(i)
    \/ ControlStep
    \/ ServiceStep
    \/ PublisherStep

Spec == Init /\ [][Next]_vars

(* ---------------------------- properties ----------------------------- *)
Stopped(x) == ExplicitStop(ledger, x.work, x.actor)

(* Every table holds the states the schema and the code give it.           *)
TypeOK ==
    /\ ledger.generation \in [Actor -> 1..agenda.generations]
    /\ \A w \in Work : /\ ledger.work[w].mode \in
                              {"none", "paused", "continue", "waiting", "complete"}
                       /\ ledger.work[w].revision \in 0..agenda.revisions
                       /\ ledger.wait[w].sources # {} <=> ledger.work[w].mode = "waiting"
    /\ \A o \in Obligation : /\ ledger.obligation[o].status \in {"none", "open", "resolved"}
                             /\ ledger.obligation[o].claim \in {0} \cup Indexes(ledger)
    /\ \A r \in Request : ledger.request[r].status \in
            {"none", "delivery_pending", "claimed", "reply_ready", "handled", "closed_no_reply"}
    /\ \A i \in Indexes(ledger) :
            ledger.activations[i].status \in {"pending", "published", "claimed", "revoked"}
    /\ disruptions \in 0..agenda.disruptions
    /\ publishing \subseteq Indexes(ledger) /\ events \subseteq Indexes(ledger)

(* delivery_disposition has the watcher deliver whatever is published, so  *)
(* what is live can be acted on by the actor it is addressed to, unless    *)
(* that actor is stopped or its work is paused (claim then refuses the     *)
(* owner's notices and the recovery of assignments).  The continuation of  *)
(* a plain assignment of a completed work is left out: it is created by    *)
(* assignment_checkpoint and refused by claim.                             *)
DeliverableIsClaimable ==
    \A i \in Indexes(ledger) :
        LET x == ledger.activations[i]
        IN x.status \in Live /\ ~Stopped(x)
             /\ \/ Communication(x)
                \/ ledger.work[x.work].mode # "paused"
                   /\ (ledger.work[x.work].mode = "complete" => x.reason # "assignment_continue")
                => Authorised(i)

(* claim: of the notices of one assignment at one endpoint only one is     *)
(* ever claimed, and it is the claim on record.                            *)
SingleAssignmentClaim ==
    \A o \in Obligation :
        \A i \in ObligationRoutes(ledger, o, {"obligation_assigned", "obligation_reminder",
                 "request_message", "assignment_continue", "assignment_paused_control",
                 "assignment_wait_satisfied"}) :
            ledger.obligation[o].status = "open" /\ ledger.activations[i].status = "claimed"
                => ledger.obligation[o].claim = i

(* request_respond: the request, its obligation, its outcome and its reply *)
(* tell the same story in every committed state.                           *)
ReplyAgreement ==
    \A r \in Request :
        LET q == ledger.request[r]
            o == DebtOf[r]
        IN /\ q.answered <=> q.status \in {"reply_ready", "handled"}
           /\ o # None => /\ q.answered <=> ledger.obligation[o].status = "resolved"
                          /\ q.answered <=> <<o, "result">> \in Outcomes(ledger)
           /\ q.status = "handled" => /\ q.reply # 0
                                      /\ ledger.activations[q.reply].status = "claimed"

(* _reconcile_recovery: however often it runs, a claim has one nudge that  *)
(* nobody has claimed.                                                     *)
OneNudge ==
    \A i, j \in Indexes(ledger) :
        LET x == ledger.activations[i]
            y == ledger.activations[j]
        IN x.status \in Live /\ y.status \in Live /\ x.reason \in Recovery
             /\ x.reason = y.reason /\ x.actor = y.actor /\ x.marks = y.marks => i = j

(* What one reconcile brings about, whatever happened before: every open   *)
(* debt of an actor that is not stopped has a route to it at its present   *)
(* endpoint, or a checkpoint that says what it waits for.                  *)
Reconciled == RedeliverRequests(EvaluateWaits(ReconcileSources(ledger, WaitSources)), Request)

NoDebtForgotten ==
    \A o \in Obligation :
        LET d == Reconciled
            w == WorkOf[o]
        IN \/ ledger.obligation[o].status # "open" \/ ExplicitStop(d, w, Assignee[o])
           \/ RequestOf(o) = None /\ ledger.work[w].mode = "complete"
           \/ CurrentClaim(d, o) # 0
           \/ AssignmentWait(d, o) /\ ~AssignmentSatisfied(d, o)
           \/ \E i \in Indexes(d) : LET x == d.activations[i]
                                    IN x.status \in Live /\ x.marks.obligation = o
                                         /\ x.actor = Assignee[o]
                                         /\ x.endpoint = d.generation[x.actor]
                                         /\ x.generation = d.obligation[o].generation

(* The owner of a work that goes on, or whose wait is over, has a route    *)
(* under its present authority.                                            *)
NoOwnerForgotten ==
    \A w \in Work :
        LET d == Reconciled
        IN \/ ledger.work[w].mode \notin {"continue", "waiting"}
           \/ ExplicitStop(d, w, d.work[w].owner)
           \/ d.work[w].mode = "waiting" /\ ~WaitSatisfied(d, w)
           \/ \E reason \in OwnerControl : OwnerRoutes(d, w, reason) # {}
           \/ CompletionReplies(d, w) # {}

(* Nobody who owes something waits for a message that never comes: what    *)
(* checkpoints, stops, resumes, transfers and new endpoints revoked is     *)
(* routed again by reconcile.                                              *)
NobodyForgotten == NoDebtForgotten /\ NoOwnerForgotten

(* A result put back for reprocessing counts as unhandled until a claim of *)
(* the replay handles it.                                                  *)
ReplayIsUnhandled == \A w \in Work : PendingReplays(ledger, w) \cap ledger.handled[w] = {}

(* set_recovery_control: "Explicit work, actor or project stops suppress   *)
(* every covered actionable request and continuation, not only recovery"   *)
(* (docs/multi-chat-continuity.md).                                        *)
StopSuppresses ==
    \A i \in Indexes(ledger) :
        ledger.activations[i].status \in Live => ~Stopped(ledger.activations[i])

(* publish_pending: a row is marked published only after its event exists, *)
(* also when a publisher died halfway and another one took over.           *)
PublishedHasEvent ==
    \A i \in Indexes(ledger) : ledger.activations[i].status = "published" => i \in events

(* What every committed state keeps: the rows of a request, the claims of  *)
(* an assignment, the nudges of a claim, the results put back and the      *)
(* published events agree (request_respond, claim, _reconcile_recovery,    *)
(* publish_pending).                                                       *)
LedgerConsistent ==
    /\ TypeOK /\ ReplyAgreement /\ ReplayIsUnhandled
    /\ SingleAssignmentClaim /\ OneNudge /\ PublishedHasEvent

(* A row that was claimed or revoked while a publisher still held its      *)
(* pending copy stays claimed or revoked.                                  *)
FinalStays ==
    [][\A i \in Indexes(ledger) :
          ledger.activations[i].status \in {"claimed", "revoked"}
              => ledger'.activations[i].status = ledger.activations[i].status]_vars

(* The refinement of the request lifecycle.                                *)
Phase(r) ==
    LET status == ledger.request[r].status
    IN CASE status = "none" -> "unsent"
         [] status \in {"delivery_pending", "claimed"} -> "owed"
         [] status = "reply_ready" -> "answered"
         [] status = "handled" -> "handled"
         [] status = "closed_no_reply" -> "read"

Held(r) ==
    \/ /\ DebtOf[r] # None /\ ledger.obligation[DebtOf[r]].status = "open"
       /\ CurrentClaim(ledger, DebtOf[r]) # 0
    \/ /\ ledger.request[r].status = "reply_ready"
       /\ ActiveCurrent(ledger, ledger.request[r].reply, ReturnActor[r], "request_reply")
       /\ ledger.activations[ledger.request[r].reply].status = "claimed"

Lifecycle == INSTANCE RequestLifecycle WITH
    Informational <- {r \in Request : DebtOf[r] = None},
    phase <- [r \in Request |-> Phase(r)],
    holder <- [r \in Request |-> Held(r)]

(* Every step of the ledger is a step of the request lifecycle or leaves   *)
(* it alone.                                                               *)
RefinesLifecycle == Lifecycle!Spec
=============================================================================
