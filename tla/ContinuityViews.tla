----------------------------- MODULE ContinuityViews -----------------------------
(***************************************************************************)
(* What the continuity service reports (continuity.py): the entry packet   *)
(* of an activation, the pages of status, and the findings of self_check.  *)
(* None of them changes the ledger; they are what the chats and the        *)
(* operator act on, so they must not leave out what somebody owes.         *)
(*                                                                         *)
(* Bounds: EntryLimit and PageLimit stand for the 64 rows of the code.     *)
(***************************************************************************)
EXTENDS Continuity, SequencesExt

CONSTANTS
    Ids,             \* obligations, requests and sources in the order of their ids
    EntryLimit,      \* MAX_ENTRY_OBLIGATIONS and MAX_STATUS_REQUESTS of a packet
    PageLimit,       \* rows per page of status
    Nodes            \* obligations of the graphs that the cycle search is checked on

Ordered(S) == SelectSeq(Ids, LAMBDA x : x \in S)

First(limit, rows) == SubSeq(rows, 1, Min({limit, Len(rows)}))

Opened(d, w) == {o \in Obligation : WorkOf[o] = w /\ d.obligation[o].status # "none"}

(* --------------------------- entry packets --------------------------- *)
(* Variant: the rows are listed by id alone.                               *)
EntryObligations_ById(d, i) == First(EntryLimit, Ordered(Opened(d, d.activations[i].work)))

(* The obligation the activation is about, then the open required ones,    *)
(* then the rest, cut off at the limit.                                    *)
EntryObligations(d, i) ==
    LET x == d.activations[i]
        named == Opened(d, x.work) \cap {x.marks.obligation}
        owed == {o \in Opened(d, x.work) \cap Required : d.obligation[o].status = "open"} \ named
    IN First(EntryLimit, Ordered(named) \o Ordered(owed)
                         \o Ordered(Opened(d, x.work) \ (named \cup owed)))

(* The request the activation names, or else the open ones of its work.    *)
OpenRequests(d, w) ==
    {r \in RequestsOf(w) : d.request[r].status \in {"delivery_pending", "claimed", "reply_ready"}}

EntryRequests(d, i) ==
    LET x == d.activations[i]
    IN IF x.marks.request # None THEN <<x.marks.request>>
       ELSE First(EntryLimit, Ordered(OpenRequests(d, x.work)))

EntryPacket(d, i) ==
    LET x == d.activations[i]
        obligations == ToSet(EntryObligations(d, i))
        requests == ToSet(EntryRequests(d, i))
    IN [mode |-> d.work[x.work].mode,
        obligations |-> obligations,
        assignments |-> {o \in obligations : d.assignment[o].mode # "none"},
        wait |-> d.wait[x.work],
        results |-> x.marks.outcomes \cap Outcomes(d),
        requests |-> requests,
        responses |-> {r \in requests : d.request[r].answered},
        incidents |-> {n \in d.incidents : d.activations[n.nudge].work = x.work},
        truncated |-> Cardinality(obligations) < Cardinality(Opened(d, x.work)),
        claim |-> [actor |-> x.actor, epoch |-> x.revision]]

(* ------------------------------- status ------------------------------ *)
(* Variant: the cursor names the first row that was left out.              *)
Page_NextRow(rows, after) ==
    LET rest == SelectSeq(rows, LAMBDA k : k > after)
    IN [rows |-> First(PageLimit, rest),
        next |-> IF Len(rest) > PageLimit THEN rest[PageLimit + 1] ELSE 0]

(* One row more than the limit is read to know whether another page        *)
(* follows; its cursor is the last row shown.                              *)
Page(rows, after) ==
    LET rest == SelectSeq(rows, LAMBDA k : k > after)
    IN [rows |-> First(PageLimit, rest),
        next |-> IF Len(rest) > PageLimit THEN rest[PageLimit] ELSE 0]

Ranks(S) == SelectSeq([k \in 1..Len(Ids) |-> k], LAMBDA k : Ids[k] \in S)

StatusObligations(d, w, after) == Page(Ranks(Opened(d, w)), after)

(* The results of the sources the work waits for, in a fixed order.        *)
StatusResults(d, w, after) ==
    Page(SelectSeq([k \in DOMAIN d.results |-> k],
                   LAMBDA k : Source(d.results[k]) \in d.wait[w].sources), after)

(* The latest activations only, and the answers of the requests shown.     *)
StatusActivations(d, w) ==
    First(PageLimit, Reverse(SelectSeq([i \in Indexes(d) |-> i], LAMBDA i : d.activations[i].work = w)))

StatusView(d, w, after) ==
    LET requests == Page(Ranks({r \in RequestsOf(w) : d.request[r].status # "none"}), after.request)
    IN [mode |-> d.work[w].mode, wait |-> d.wait[w],
        obligations |-> StatusObligations(d, w, after.obligation),
        activations |-> StatusActivations(d, w),
        results |-> StatusResults(d, w, after.result),
        requests |-> requests,
        responses |-> {r \in {Ids[k] : k \in ToSet(requests.rows)} : d.request[r].answered},
        assignments |-> {o \in Opened(d, w) : d.assignment[o].mode # "none"},
        armed |-> w \in d.armed, stopped |-> d.stopped,
        incidents |-> {n \in d.incidents : d.activations[n.nudge].work = w}]

(* The files behind the external sources are read again at every status.   *)
SourceObservations(d, w) == {<<s, d.retained[s]>> : s \in d.wait[w].sources \cap External}

(* ---------------------------- self check ----------------------------- *)
(* The depth-first search of _assignment_dependency_cycles from the last   *)
(* node of path; a cycle is the set of its edges, so that its rotations    *)
(* are one.                                                                *)
RECURSIVE Visit(_, _, _)
Visit(graph, path, found) ==
    LET node == Last(path)
        Follow(so, dependency) ==
            IF dependency \notin DOMAIN graph THEN so
            ELSE IF dependency \in ToSet(path)
            THEN LET start == CHOOSE k \in DOMAIN path : path[k] = dependency
                 IN [so EXCEPT !.cycles = @ \cup
                        {{<<path[k], path[k + 1]>> : k \in start..Len(path) - 1}
                         \cup {<<node, dependency>>}}]
            ELSE IF dependency \in so.done THEN so
            ELSE Visit(graph, Append(path, dependency), so)
        left == FoldLeft(Follow, found, Ordered(graph[node]))
    IN [left EXCEPT !.done = @ \cup {node}]

(* Variant: only what the first obligation depends on is searched.         *)
CyclesOf_FirstRoot(graph) ==
    IF DOMAIN graph = {} THEN {}
    ELSE Visit(graph, <<Head(Ordered(DOMAIN graph))>>, [done |-> {}, cycles |-> {}]).cycles

CyclesOf(graph) ==
    FoldLeft(LAMBDA so, root : IF root \in so.done THEN so ELSE Visit(graph, <<root>>, so),
             [done |-> {}, cycles |-> {}], Ordered(DOMAIN graph)).cycles

DependencyCycles(d) ==
    CyclesOf([o \in {o \in Obligation : AssignmentWait(d, o)} |-> d.assignment[o].sources \cap Obligation])

(* A claimed wait notice, or the claimed reply that serves as one, whose   *)
(* results the wait has not handled.                                       *)
ClaimedUnhandled(d, w) ==
    \/ \E i \in OwnerRoutes(d, w, "wait_satisfied") :
          d.activations[i].status = "claimed" /\ ~(d.activations[i].marks.outcomes \subseteq d.wait[w].handled)
    \/ /\ WaitSatisfied(d, w) /\ OwnerRoutes(d, w, "wait_satisfied") = {}
       /\ CompletionReplies(d, w) # {}
       /\ d.activations[Min(CompletionReplies(d, w))].status = "claimed"

WaitFindings(d, w) ==
    LET external == d.wait[w].sources \cap External
    IN {<<"wait_source_invalid", s>> : s \in {s \in external : d.retained[s] = "unreadable"}}
       \cup {<<"terminal_source_unrecorded", s>> :
                s \in {s \in external : Terminal(d, s) /\ <<s, "result">> \notin Outcomes(d)}}
       \cup (IF d.work[w].mode = "waiting" /\ ClaimedUnhandled(d, w)
             THEN {<<"claimed_result_unhandled", w>>} ELSE {})
       \cup (IF UnroutedWait(d, w) THEN {<<"satisfied_wait_not_activated", w>>} ELSE {})

AssignmentFindings(d, o) ==
    (IF UnassignedDebt(d, o) THEN {<<"obligation_assignment_delivery_missing", o>>} ELSE {})
    \cup (IF UnroutedAssignment(d, o) THEN {<<"assignment_wait_not_activated", o>>} ELSE {})
    \cup (IF AssignmentWait(d, o) /\ ContinuationAllowed(d, o)
          THEN {<<"assignment_wait_source_invalid", s>> :
                   s \in {s \in d.assignment[o].sources \cap External : d.retained[s] = "unreadable"}}
          ELSE {})

Findings(d) ==
    {<<"delivery_missing", r>> : r \in {r \in Request : UndeliveredRequest(d, r)}}
    \cup {<<"assignment_dependency_cycle", cycle>> : cycle \in DependencyCycles(d)}
    \cup UNION {AssignmentFindings(d, o) : o \in Obligation}
    \cup UNION {WaitFindings(d, w) : w \in Work}
    \cup {<<"continuation_route_missing", w>> : w \in {w \in Work : MissingContinuation(d, w)}}

(* ---------------------------- properties ----------------------------- *)
(* entry_packet: an actor that claims a notice finds in its packet what    *)
(* the notice is about, however many rows were cut off: its obligation,    *)
(* the answer of its reply, or a result that its wait has not handled yet. *)
PacketShowsSubject ==
    \A i \in Indexes(ledger) :
        LET x == ledger.activations[i]
            packet == EntryPacket(ledger, i)
        IN x.status \in Live /\ Authorised(i) =>
             /\ x.marks.obligation # None => x.marks.obligation \in packet.obligations
             /\ x.reason = "request_reply" => x.marks.request \in packet.responses
             /\ x.reason = "wait_satisfied" => packet.results \ packet.wait.handled # {}

(* status: following the cursors of an unchanged ledger shows every row    *)
(* once, in order; what a wait has not handled is among the results, and   *)
(* the answer of a request stands beside it.                               *)
AllObligations(w) ==
    LET Rest[k \in 0..Len(Ids)] ==
            LET page == StatusObligations(ledger, w, k)
            IN IF page.next = 0 THEN page.rows ELSE page.rows \o Rest[page.next]
    IN Rest[0]

AllResults(w) ==
    LET Rest[k \in 0..Len(ledger.results)] ==
            LET page == StatusResults(ledger, w, k)
            IN ToSet(page.rows) \cup (IF page.next = 0 THEN {} ELSE Rest[page.next])
    IN {ledger.results[k] : k \in Rest[0]}

PagesShowAll ==
    \A w \in Work :
        /\ AllObligations(w) = Ranks(Opened(ledger, w))
        /\ Unhandled(ledger, ledger.wait[w]) \subseteq AllResults(w)
        /\ LET view == StatusView(ledger, w, [obligation |-> 0, request |-> 0, result |-> 0])
               shown == {Ids[k] : k \in ToSet(view.requests.rows)}
           IN {r \in shown : ledger.request[r].status \in {"reply_ready", "handled"}} \subseteq view.responses
        /\ \A s \in External \cap ledger.wait[w].sources :
              Terminal(ledger, s) => <<s, "terminal">> \in SourceObservations(ledger, w)

(* _assignment_dependency_cycles: cycles are found exactly when assignees  *)
(* wait for each other, and what is reported is a cycle.                   *)
Graph(edges) == [o \in Nodes |-> {p \in Nodes : <<o, p>> \in edges}]

CyclesExact ==
    \A edges \in SUBSET (Nodes \X Nodes) :
        LET cycles == CyclesOf(Graph(edges))
            Within(S) == \A o \in S : \E p \in S : <<o, p>> \in edges
        IN /\ cycles # {} <=> \E S \in SUBSET Nodes \ {{}} : Within(S)
           /\ \A cycle \in cycles : /\ cycle \subseteq edges
                                    /\ \A e \in cycle : Cardinality({f \in cycle : f[1] = e[2]}) = 1

(* self_check --repair: one pass repairs everything it can; what is left   *)
(* is for the actors.  (The wait of an obligation resolved meanwhile is    *)
(* kept and goes on being reported once its actor has a new endpoint.)     *)
RepairIsComplete ==
    \A finding \in Findings(Repaired(ledger)) :
        \/ finding[1] \in {"assignment_dependency_cycle", "claimed_result_unhandled",
                           "wait_source_invalid", "assignment_wait_source_invalid"}
        \/ /\ finding[1] = "assignment_wait_not_activated"
           /\ ledger.obligation[finding[2]].status = "resolved"

(* self_check without findings: every open debt is claimed, waits for      *)
(* something or has a live route, and so has every owner.                  *)
HealthyIsRouted ==
    Findings(ledger) = {} =>
        /\ \A o \in Obligation :
              \/ ledger.obligation[o].status # "open"
              \/ ExplicitStop(ledger, WorkOf[o], Assignee[o])
              \/ RequestOf(o) = None /\ ledger.work[WorkOf[o]].mode = "complete"
              \/ CurrentClaim(ledger, o) # 0
              \/ AssignmentWait(ledger, o) /\ ~AssignmentSatisfied(ledger, o)
              \/ \E i \in Indexes(ledger) : LET x == ledger.activations[i]
                                            IN x.status \in Live /\ x.marks.obligation = o /\ Authorised(i)
        /\ \A w \in Work :
              \/ ledger.work[w].mode \notin {"continue", "waiting"}
              \/ ExplicitStop(ledger, w, Owner(w))
              \/ ledger.work[w].mode = "waiting" /\ ~WaitSatisfied(ledger, w)
              \/ \E reason \in OwnerControl : OwnerRoutes(ledger, w, reason) # {}
              \/ CompletionReplies(ledger, w) # {}

(* What the service reports is what the ledger says: nothing that somebody *)
(* owes is missing from packets, pages and findings.                       *)
ReportsTruthful ==
    PacketShowsSubject /\ PagesShowAll /\ CyclesExact /\ RepairIsComplete /\ HealthyIsRouted
=============================================================================
