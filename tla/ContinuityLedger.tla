---------------------------- MODULE ContinuityLedger ----------------------------
(***************************************************************************)
(* The tables of the continuity database (continuity.py) and the helpers   *)
(* that read and rewrite them inside one write transaction.  A ledger d is *)
(* a record with one field per table; every helper that the code calls     *)
(* with the open connection is an operator from ledgers to ledgers, and a  *)
(* transaction of Continuity.tla composes them in the order of the code.   *)
(*                                                                         *)
(* Activation ids are positions in d.activations, which is also the order  *)
(* of created_at.  A work's control epoch changes with its revision in     *)
(* every statement, so the revision stands for both.  The claimed          *)
(* generation of an obligation is its current one whenever a claim is set, *)
(* because every statement that bumps the generation clears the claim.     *)
(***************************************************************************)
EXTENDS Naturals, Sequences, FiniteSets, FiniteSetsExt, Functions

CONSTANTS
    Actor,          \* actor_id
    Work,           \* work_id
    Obligation,     \* obligation_id, the reply obligations of requests included
    Request,        \* request_id
    External,       \* KIND:ID of workers, checks, monitors and workstreams
    None,           \* SQL NULL
    WorkOf,         \* the work an obligation or a request belongs to
    Assignee,       \* obligation -> assignee_actor (the recipient of a request)
    ReturnActor,    \* request -> return_actor
    DebtOf,         \* request -> its reply obligation, None if informational
    Required,       \* the obligations opened with required=1
    Reminders       \* obligation -> max_reminders

(* What the ids of the tables are: a request and its reply obligation share *)
(* their work and their actor; the reply obligation belongs to no other    *)
(* request; an external source is not an obligation.                       *)
ASSUME LedgerConstants ==
    /\ IsFiniteSet(Work) /\ IsFiniteSet(Obligation) /\ IsFiniteSet(Request)
    /\ IsFiniteSet(External) /\ Obligation \cap External = {}
    /\ None \notin Actor \cup Obligation \cup Request
    /\ WorkOf \in [Obligation \cup Request -> Work]
    /\ Assignee \in [Obligation \cup Request -> Actor]
    /\ ReturnActor \in [Request -> Actor]
    /\ DebtOf \in [Request -> Obligation \cup {None}]
    /\ \A r \in Request : DebtOf[r] # None =>
          /\ WorkOf[DebtOf[r]] = WorkOf[r] /\ Assignee[DebtOf[r]] = Assignee[r]
          /\ \A q \in Request : DebtOf[q] = DebtOf[r] => q = r
    /\ Reminders \in [Obligation -> Nat]

Live == {"pending", "published"}
Active == Live \cup {"claimed"}
OwnerControl == {"continue_checkpoint", "wait_satisfied", "ownership_transferred"}
Recovery == {"assignment_recovery", "work_recovery"}

NoMarks == [request |-> None, obligation |-> None, after |-> 0, outcomes |-> {}]

(* The request whose reply obligation o is, None for a plain obligation.   *)
RequestOf(o) ==
    IF \E r \in Request : DebtOf[r] = o THEN CHOOSE r \in Request : DebtOf[r] = o ELSE None

Indexes(d) == DOMAIN d.activations

(* ------------------------------ stops -------------------------------- *)
ExplicitStop(d, w, a) == d.stopped \cap {"project", a, w} # {}

RecoveryStop(d, w, a) ==
    d.work[w].mode \in {"paused", "complete"} \/ ExplicitStop(d, w, a)

(* --------------------------- activations ----------------------------- *)
(* _create_activation: the row carries the authority it was created under. *)
Create(d, w, a, reason, generation, marks) ==
    [d EXCEPT !.activations = Append(@,
        [work |-> w, actor |-> a, revision |-> d.work[w].revision,
         endpoint |-> d.generation[a], generation |-> generation,
         reason |-> reason, marks |-> marks, status |-> "pending", turn |-> 0])]

Latest(d) == Len(d.activations)

(* The rows that a WHERE clause selects.                                   *)
Rows(d, P(_)) == {i \in Indexes(d) : P(d.activations[i])}

Revoke(d, rows) ==
    [d EXCEPT !.activations =
        [i \in DOMAIN @ |-> IF i \in rows /\ @[i].status \in Live
                            THEN [@[i] EXCEPT !.status = "revoked"] ELSE @[i]]]

RevokeObligation(d, o) == Revoke(d, Rows(d, LAMBDA x : x.marks.obligation = o))
RevokeRequest(d, r, a) == Revoke(d, Rows(d, LAMBDA x : x.marks.request = r /\ x.actor = a))

(* Variant: the notice of a transfer is left alone.                        *)
RevokeOwnerControl_Kept(d, w, a) ==
    Revoke(d, Rows(d, LAMBDA x : x.work = w /\ x.actor = a
                                 /\ x.reason \in {"continue_checkpoint", "wait_satisfied"}))

(* _revoke_owner_control_activations spares the recovery of a reply.       *)
RevokeOwnerControl(d, w, a) ==
    Revoke(d, Rows(d, LAMBDA x : /\ x.work = w /\ x.actor = a
                                 /\ \/ x.reason \in OwnerControl
                                    \/ x.reason = "work_recovery" /\ x.marks.request = None))

(* _revoke_product_activations_on_complete spares communication.           *)
RevokeProduct(d, w) ==
    Revoke(d, Rows(d, LAMBDA x : /\ x.work = w
                                 /\ x.reason \notin {"request_message", "request_reply"}
                                 /\ x.marks.request = None
                                 /\ x.marks.obligation # None
                                      => RequestOf(x.marks.obligation) = None))

ActiveCurrent(d, i, a, reason) ==
    /\ i # 0
    /\ LET x == d.activations[i]
       IN x.actor = a /\ x.reason = reason /\ x.status \in Active
            /\ x.endpoint = d.generation[a]

(* The active routes of an obligation at its current generation.           *)
ObligationRoutes(d, o, reasons) ==
    {i \in Indexes(d) :
        LET x == d.activations[i]
        IN /\ x.work = WorkOf[o] /\ x.actor = Assignee[o]
           /\ x.status \in Active /\ x.reason \in reasons
           /\ x.generation = d.obligation[o].generation
           /\ x.endpoint = d.generation[Assignee[o]]
           /\ x.marks.obligation = o}

CurrentClaim(d, o) ==
    LET i == d.obligation[o].claim
    IN IF i # 0 /\ d.activations[i].status = "claimed"
            /\ d.activations[i].actor = Assignee[o]
            /\ d.activations[i].generation = d.obligation[o].generation
            /\ d.activations[i].endpoint = d.generation[Assignee[o]]
       THEN i ELSE 0

(* The owner's routes of one reason under its present authority.           *)
OwnerRoutes(d, w, reason) ==
    {i \in Indexes(d) :
        LET x == d.activations[i]
        IN x.work = w /\ x.actor = d.work[w].owner /\ x.reason = reason
             /\ x.status \in Active /\ x.revision = d.work[w].revision
             /\ x.endpoint = d.generation[d.work[w].owner]}

(* ------------------------- recovery incidents ------------------------ *)
(* Only queued and waiting incidents are kept: whatever else the status    *)
(* says, the next inspection queues the incident again.                    *)
CloseIncidents(d, rows) == [d EXCEPT !.incidents = {n \in @ : n.nudge \notin rows}]

CloseAssignmentIncidents(d, o) ==
    CloseIncidents(d, Rows(d, LAMBDA x : x.reason = "assignment_recovery"
                                         /\ x.marks.obligation = o))

(* --------------------------- results, waits -------------------------- *)
Outcomes(d) == Range(d.results)
Source(outcome) == outcome[1]

(* _record_result: one outcome per identity, never recorded twice.         *)
RecordResult(d, outcome) ==
    IF outcome \in Outcomes(d) THEN d
    ELSE [d EXCEPT !.results = Append(@, outcome)]

(* _retained_source_observation: a terminal result is identified by its    *)
(* file, whichever path observes it.                                       *)
Terminal(d, s) == d.retained[s] = "terminal"

(* _reconcile_sources: read the retained results of the external sources.  *)
ReconcileSources(d, sources) ==
    FoldSet(LAMBDA s, e : IF Terminal(e, s) THEN RecordResult(e, <<s, "result">>) ELSE e,
            d, sources \cap External)

Position(d, outcome) == CHOOSE k \in DOMAIN d.results : d.results[k] = outcome

Earliest(d, outcomes) ==
    CHOOSE c \in outcomes : \A other \in outcomes : Position(d, c) <= Position(d, other)

Unhandled(d, wait) == {c \in Outcomes(d) : Source(c) \in wait.sources /\ c \notin wait.handled}

Satisfied(d, wait) ==
    /\ Unhandled(d, wait) # {}
    /\ wait.any \/ wait.sources \subseteq {Source(c) : c \in Outcomes(d)}

(* _wait_result_manifest: the first unhandled outcome of every source.     *)
WaitManifest(d, wait) ==
    LET fresh == Unhandled(d, wait)
        firsts == {Earliest(d, {c \in fresh : Source(c) = s}) : s \in {Source(c) : c \in fresh}}
    IN IF wait.any THEN {Earliest(d, firsts)} ELSE firsts

WaitSatisfied(d, w) == d.work[w].mode = "waiting" /\ Satisfied(d, d.wait[w])

PendingReplays(d, w) == {p[1] : p \in d.replays[w]}

(* _current_reply_activations *)
CurrentReplies(d, w, a) ==
    {i \in Indexes(d) :
        LET x == d.activations[i]
        IN /\ x.work = w /\ x.actor = a /\ x.reason = "request_reply"
           /\ x.status \in Active /\ x.endpoint = d.generation[a]
           /\ \E r \in Request : /\ d.request[r].reply = i /\ WorkOf[r] = w
                                 /\ ReturnActor[r] = a
                                 /\ d.request[r].status \in {"reply_ready", "handled"}}

(* _claimed_reply_outcomes *)
ClaimedReplyOutcomes(d, w, a) ==
    {c \in Outcomes(d) :
        \E i \in CurrentReplies(d, w, a), r \in Request :
            /\ d.activations[i].status = "claimed" /\ d.request[r].reply = i
            /\ c \in d.activations[i].marks.outcomes /\ Source(c) = DebtOf[r]}
    \ PendingReplays(d, w)

(* _wait_completion_route: a wait activation of the present authority, or  *)
(* the pinned reply that already carries every outcome of the manifest.    *)
CompletionReplies(d, w) ==
    LET manifest == WaitManifest(d, d.wait[w])
    IN IF manifest \cap PendingReplays(d, w) # {} THEN {}
       ELSE {i \in CurrentReplies(d, w, d.work[w].owner) :
                manifest \subseteq d.activations[i].marks.outcomes}

HasCompletionRoute(d, w) ==
    OwnerRoutes(d, w, "wait_satisfied") # {} \/ CompletionReplies(d, w) # {}

(* _evaluate_wait: note the reply that serves as the wait's decision, or   *)
(* create the wait activation.                                             *)
EvaluateWait(d, w) ==
    IF ~WaitSatisfied(d, w) \/ OwnerRoutes(d, w, "wait_satisfied") # {} THEN d
    ELSE IF CompletionReplies(d, w) # {}
    THEN [d EXCEPT !.replyOwner[w] =
            <<d.work[w].revision, d.generation[d.work[w].owner], Min(CompletionReplies(d, w))>>]
    ELSE Create(d, w, d.work[w].owner, "wait_satisfied", 0,
                [NoMarks EXCEPT !.outcomes = WaitManifest(d, d.wait[w])])

(* ------------------------- assignment waits -------------------------- *)
AssignmentWait(d, o) == d.assignment[o].mode = "waiting"

(* _assignment_continuation_allowed *)
ContinuationAllowed(d, o) == d.work[WorkOf[o]].mode # "complete" \/ RequestOf(o) # None

AssignmentSatisfied(d, o) == AssignmentWait(d, o) /\ Satisfied(d, d.assignment[o])

AssignmentManifest(d, o) ==
    LET fresh == Unhandled(d, d.assignment[o])
    IN IF d.assignment[o].any THEN {Earliest(d, fresh)} ELSE fresh

EvaluateAssignmentWait(d, o) ==
    IF /\ d.obligation[o].status = "open"
       /\ ContinuationAllowed(d, o)
       /\ AssignmentSatisfied(d, o)
       /\ ObligationRoutes(d, o, {"assignment_wait_satisfied"}) = {}
    THEN Create(d, WorkOf[o], Assignee[o], "assignment_wait_satisfied",
                d.obligation[o].generation,
                [NoMarks EXCEPT !.obligation = o, !.outcomes = AssignmentManifest(d, o)])
    ELSE d

(* The waits a recorded result may satisfy, unless their actor is stopped. *)
EvaluateWaits(d) ==
    LET works == {w \in Work : d.work[w].mode = "waiting"
                               /\ ~ExplicitStop(d, w, d.work[w].owner)}
        debts == {o \in Obligation : AssignmentWait(d, o)
                                     /\ ~ExplicitStop(d, WorkOf[o], Assignee[o])}
    IN FoldSet(LAMBDA o, e : EvaluateAssignmentWait(e, o),
               FoldSet(LAMBDA w, e : EvaluateWait(e, w), d, works),
               debts)

(* ---------------------- routes of the assignments -------------------- *)
Repeat(n, d, Step(_)) == FoldSet(LAMBDA k, e : Step(e), d, 1..n)

(* _schedule_obligation_activations *)
ScheduleObligation(d, o) ==
    LET Add(reason, e) == Create(e, WorkOf[o], Assignee[o], reason, e.obligation[o].generation,
                                 [NoMarks EXCEPT !.obligation = o])
    IN IF ExplicitStop(d, WorkOf[o], Assignee[o]) THEN d
       ELSE Repeat(Reminders[o], Add("obligation_assigned", d),
                   LAMBDA e : Add("obligation_reminder", e))

(* The message of a request and the pointer to it.                         *)
SendMessage(d, r) ==
    LET o == DebtOf[r]
        e == Create(d, WorkOf[r], Assignee[r], "request_message",
                    IF o = None THEN 0 ELSE d.obligation[o].generation,
                    [NoMarks EXCEPT !.request = r, !.obligation = o])
    IN [e EXCEPT !.request[r].message = Latest(e), !.request[r].status = "delivery_pending"]

(* _rearm_obligation_route *)
RearmObligation(d, o) ==
    LET w == WorkOf[o]
        r == RequestOf(o)
        mode == d.assignment[o].mode
        reason == IF mode = "continue" THEN "assignment_continue" ELSE "assignment_paused_control"
    IN IF ExplicitStop(d, w, Assignee[o]) \/ (d.work[w].mode = "complete" /\ r = None) THEN d
       ELSE IF mode = "waiting" THEN EvaluateAssignmentWait(d, o)
       ELSE IF mode # "none"
       THEN IF \/ mode = "paused" /\ CurrentClaim(d, o) # 0
               \/ ObligationRoutes(d, o, {reason}) # {}
            THEN d
            ELSE Create(d, w, Assignee[o], reason, d.obligation[o].generation,
                        [NoMarks EXCEPT !.request = r, !.obligation = o])
       ELSE IF r # None
       THEN IF \/ d.request[r].answered
               \/ /\ ActiveCurrent(d, d.request[r].message, Assignee[o], "request_message")
                  /\ d.activations[d.request[r].message].generation = d.obligation[o].generation
            THEN d ELSE SendMessage(d, r)
       ELSE IF d.obligation[o].claim # 0 THEN d ELSE ScheduleObligation(d, o)

(* The reply of an answered request, with its recorded outcome.            *)
SendReply(d, r, outcomes) ==
    LET e == Create(d, WorkOf[r], ReturnActor[r], "request_reply", 0,
                    [NoMarks EXCEPT !.request = r, !.outcomes = outcomes])
    IN [e EXCEPT !.request[r].reply = Latest(e)]

(* _reconcile_request_deliveries for one request: the route its status     *)
(* calls for is created again unless it is still active.                   *)
RedeliverRequest(d, r) ==
    LET q == d.request[r]
        o == DebtOf[r]
    IN CASE /\ q.status \in {"delivery_pending", "claimed"}
            /\ ~ExplicitStop(d, WorkOf[r], Assignee[r])
            /\ ~ActiveCurrent(d, q.message, Assignee[r], "request_message")
            /\ o # None => d.assignment[o].mode = "none"     -> SendMessage(d, r)
         [] /\ q.status = "reply_ready" /\ q.answered
            /\ ~ExplicitStop(d, WorkOf[r], ReturnActor[r])
            /\ ~ActiveCurrent(d, q.reply, ReturnActor[r], "request_reply")
              -> SendReply(d, r, {c \in Outcomes(d) : Source(c) = o})
         [] OTHER -> d

RedeliverRequests(d, requests) == FoldSet(LAMBDA r, e : RedeliverRequest(e, r), d, requests)

RequestsOf(w) == {r \in Request : WorkOf[r] = w}

(* Variant: a continuation counts in whatever state it is.                 *)
ContinueWork_AnyStatus(d, w) ==
    IF \E i \in Indexes(d) : d.activations[i].work = w /\ d.activations[i].reason = "continue_checkpoint"
    THEN d ELSE Create(d, w, d.work[w].owner, "continue_checkpoint", 0, NoMarks)

(* One continuation of the owner, unless it has one.                       *)
ContinueWork(d, w) ==
    IF OwnerRoutes(d, w, "continue_checkpoint") # {} THEN d
    ELSE Create(d, w, d.work[w].owner, "continue_checkpoint", 0, NoMarks)

(* _rearm_scope_routes: restore the routes that a stop had revoked.        *)
RearmWork(d, w) ==
    LET e == RedeliverRequests(d, RequestsOf(w))
        owner == e.work[w].owner
        f == IF ExplicitStop(e, w, owner) THEN e
             ELSE IF e.work[w].mode = "continue" THEN ContinueWork(e, w)
             ELSE EvaluateWait(e, w)
    IN FoldSet(LAMBDA o, g : RearmObligation(g, o), f,
               {o \in Obligation : WorkOf[o] = w /\ d.obligation[o].status = "open"})

(* Variant: an actor's scope covers the works it owns only.                *)
WorksOfScope_Owner(d, scope) ==
    {w \in Work : d.work[w].mode # "none" /\ scope \in {"project", w, d.work[w].owner}}

WorksOfScope(d, scope) ==
    {w \in Work :
        /\ d.work[w].mode # "none"
        /\ \/ scope \in {"project", w}
           \/ d.work[w].owner = scope
           \/ \E o \in Obligation : WorkOf[o] = w /\ d.obligation[o].status # "none"
                                      /\ Assignee[o] = scope
           \/ \E r \in RequestsOf(w) : d.request[r].status # "none"
                                      /\ scope \in {Assignee[r], ReturnActor[r]}}

RearmScope(d, scope) == FoldSet(LAMBDA w, e : RearmWork(e, w), d, WorksOfScope(d, scope))

(* ---------------------------- recovery ------------------------------- *)
(* Variant: the revision is part of the identity of every incident.        *)
Incident_Revision(d, source, reason, w, marks) ==
    {n \in d.incidents :
        LET x == d.activations[n.nudge]
        IN /\ n.source = source /\ x.reason = reason /\ x.marks.request = marks.request
           /\ x.revision = d.work[w].revision}

(* An incident is one unconfirmed claim under the authority it was made:   *)
(* for an owner the work's revision is part of its identity.               *)
Incident(d, source, reason, w, marks) ==
    {n \in d.incidents :
        LET x == d.activations[n.nudge]
        IN /\ n.source = source /\ x.reason = reason /\ x.marks.request = marks.request
           /\ reason = "work_recovery" /\ marks.request = None
                => x.revision = d.work[w].revision}

(* Queue one inspection nudge for the claim, unless one is queued or the   *)
(* last one's interval has not passed.                                     *)
Nudge(d, source, due, reason, w, a, generation, marks) ==
    LET known == Incident(d, source, reason, w, marks)
        e == Create(d, w, a, reason, generation, marks)
    IN IF source \notin due \/ \E n \in known : n.status = "queued" THEN d
       ELSE [e EXCEPT !.incidents = (@ \ known) \cup
                {[source |-> source, nudge |-> Latest(e), status |-> "queued"]}]

(* The claimed assignments of armed works.                                 *)
NudgeAssignment(d, o, due) ==
    LET w == WorkOf[o]
        r == RequestOf(o)
        mode == d.assignment[o].mode
        e == IF mode = "waiting" THEN EvaluateAssignmentWait(d, o) ELSE d
        source == d.obligation[o].claim
        stopped == IF r # None THEN ExplicitStop(d, w, Assignee[o])
                   ELSE RecoveryStop(d, w, Assignee[o])
    IN IF stopped \/ mode = "paused" THEN d
       ELSE IF mode = "waiting" /\ ~(/\ AssignmentSatisfied(e, o)
                                     /\ e.activations[source].status = "claimed"
                                     /\ e.activations[source].reason = "assignment_wait_satisfied")
       THEN e
       ELSE Nudge(e, source, due, "assignment_recovery", w, Assignee[o],
                  e.obligation[o].generation,
                  [NoMarks EXCEPT !.request = r, !.obligation = o])

(* A claimed reply that its return actor has not handled.                  *)
NudgeReply(d, r, due) ==
    LET source == d.request[r].reply
    IN IF ExplicitStop(d, WorkOf[r], ReturnActor[r]) THEN d
       ELSE Nudge(d, source, due, "work_recovery", WorkOf[r], ReturnActor[r], 0,
                  [NoMarks EXCEPT !.request = r, !.after = source])

(* The claims that hold the owner's next checkpoint, the latest first.     *)
OwnerSources(d, w) ==
    {i \in Indexes(d) :
        LET x == d.activations[i]
        IN /\ x.work = w /\ x.actor = d.work[w].owner /\ x.status = "claimed"
           /\ x.endpoint = d.generation[x.actor]
           /\ \/ x.revision = d.work[w].revision /\ x.reason \in OwnerControl
              \/ /\ x.reason = "request_reply"
                 /\ d.replyOwner[w] = <<d.work[w].revision, x.endpoint, i>>
                 /\ \E r \in RequestsOf(w) : /\ d.request[r].reply = i
                                             /\ ReturnActor[r] = x.actor
                                             /\ d.request[r].status = "handled"}

NudgeOwner(d, w, due) ==
    LET source == CHOOSE i \in OwnerSources(d, w) : \A j \in OwnerSources(d, w) :
                        d.activations[j].turn <= d.activations[i].turn
    IN IF RecoveryStop(d, w, d.work[w].owner) THEN d
       ELSE Nudge(d, source, due, "work_recovery", w, d.work[w].owner, 0,
                  [NoMarks EXCEPT !.after = source])

(* The claims of armed works that _reconcile_recovery inspects; one batch  *)
(* holds all of them here.                                                 *)
ClaimedAssignments(d) ==
    {o \in Obligation : /\ d.obligation[o].status = "open" /\ d.obligation[o].claim # 0
                        /\ WorkOf[o] \in d.armed}

ClaimedReplies(d) ==
    {r \in Request : /\ d.request[r].status = "reply_ready" /\ d.request[r].reply # 0
                     /\ d.activations[d.request[r].reply].status = "claimed"
                     /\ WorkOf[r] \in d.armed}

ClaimedWorks(d) ==
    {w \in d.armed : d.work[w].mode \in {"continue", "waiting"} /\ OwnerSources(d, w) # {}}

(* Assignments, then replies, then owners; each selection is made when its *)
(* loop starts.                                                            *)
ReconcileRecovery(d, due) ==
    LET e == FoldSet(LAMBDA o, x : NudgeAssignment(x, o, due), d, ClaimedAssignments(d))
        f == FoldSet(LAMBDA r, x : NudgeReply(x, r, due), e, ClaimedReplies(e))
    IN FoldSet(LAMBDA w, x : NudgeOwner(x, w, due), f, ClaimedWorks(f))

(* ------------------------ handled results ---------------------------- *)
(* A result may be handled by the actor whose claimed wait carried it,     *)
(* and a result under replay only through a claim of the replay.           *)
ReplayClaimAllowed(d, w, a, outcome, x) ==
    \A p \in d.replays[w] : p[1] = outcome => x.revision >= p[2] /\ x.endpoint = d.generation[a]

ClaimedByWait(d, w, a, outcome) ==
    \E i \in Indexes(d) :
        LET x == d.activations[i]
        IN /\ x.work = w /\ x.actor = a /\ x.reason = "wait_satisfied"
           /\ x.status = "claimed" /\ outcome \in x.marks.outcomes
           /\ ReplayClaimAllowed(d, w, a, outcome, x)

Handleable(d, w, a) ==
    {c \in Outcomes(d) : c \in ClaimedReplyOutcomes(d, w, a) \/ ClaimedByWait(d, w, a, c)}

(* _next_handled_results: a waiting checkpoint may handle what the new or  *)
(* the previous wait covers, or what a claimed reply carries.              *)
HandleableInWait(d, w, a, sources) ==
    {c \in Handleable(d, w, a) :
        \/ Source(c) \in sources
        \/ d.work[w].mode = "waiting" /\ Source(c) \in d.wait[w].sources
        \/ c \in ClaimedReplyOutcomes(d, w, a)}

(* Variant: the new decisions are only added.                              *)
RecordReplays_Added(d, w, revision, handled, reprocess) ==
    [d EXCEPT !.replays[w] = @ \cup {<<c, revision>> : c \in reprocess}]

(* _record_replay_decisions *)
RecordReplays(d, w, revision, handled, reprocess) ==
    [d EXCEPT !.replays[w] = {p \in @ : p[1] \notin handled \cup reprocess}
                             \cup {<<c, revision>> : c \in reprocess}]

(* _next_assignment_handled_results *)
HandleableInAssignment(d, o, sources) ==
    {c \in Outcomes(d) :
        /\ Source(c) \in sources \cup
                (IF AssignmentWait(d, o) THEN d.assignment[o].sources ELSE {})
        /\ \E i \in Indexes(d) :
              LET x == d.activations[i]
              IN x.actor = Assignee[o] /\ x.reason = "assignment_wait_satisfied"
                   /\ x.status = "claimed" /\ x.marks.obligation = o
                   /\ c \in x.marks.outcomes}
=============================================================================
